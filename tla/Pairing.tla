------------------------------ MODULE Pairing ------------------------------
(***************************************************************************)
(* The accessory as its controllers meet it: server_accept, server_recv,   *)
(* handle_request, pairing_handler and send_response (homekit.c,           *)
(* pairing.c, tcp.c) over the one global SRP record of Srp.                *)
(*                                                                         *)
(* lwIP runs the callbacks one at a time, so at most one request is being  *)
(* handled; "cur" is that handler, advanced one call at a time so that a   *)
(* reset can fall between two calls.  Requests of all connections share    *)
(* srp and the heap.  Blocks of the heap are counted, not sized.           *)
(***************************************************************************)
EXTENDS Naturals, Sequences, FiniteSets, Srp

CONSTANTS Conns,        \* connections (lwIP protocol control blocks)
          PublicKeys,   \* what a PUBLIC_KEY TLV may carry
          Requests,     \* the TLV sequences controllers send
          HeapBlocks,   \* how many blocks malloc can hand out
          Identities,   \* the boots' SRP identities, see StartUp
          Faults        \* among "reset", "mpi", "write", "hangup"

None == <<"none", 0, 0, 0>>
tlv(type, value) == <<type, value>>
Drawn == Identities \cup {None}      \* None: nothing drawn since the reset
States == {"M1", "M3", "M5"}
AllKeys == {KeyOf(i, A) : i \in Drawn, A \in PublicKeys} \cup FailedKeys
Proofs == {ProofOf(i, A, K) : i \in Drawn, A \in PublicKeys, K \in AllKeys}
            \cup {Zero, Short, <<"wrong", 0, 0, 0>>}
Tlvs == {tlv("METHOD", 0)}
          \cup {tlv("STATE", s) : s \in States}
          \cup {tlv("PUBLIC_KEY", A) : A \in PublicKeys}
          \cup {tlv("PROOF", p) : p \in Proofs}
Answers == {"M2", "M4", "ERROR"}

ASSUME BoundsAssumption == HeapBlocks \in Nat
ASSUME ConnsAssumption == None \notin Conns /\ None \notin PublicKeys
ASSUME RequestsAssumption == Requests \subseteq Seq(Tlvs)

VARIABLES
  up,         \* FALSE from a reset until homekit_init is done
  srp,        \* the global of srp.c
  conn,       \* connections with server_recv registered
  inbox,      \* the request of a connection that lwIP still holds
  eof,        \* connections the controller has closed its side of
  reply,      \* what the latest request of a connection was answered
  cur,        \* the request server_recv is handling
  heap,       \* number of allocated blocks
  buffers,    \* the 1024-byte blocks of send_response, by request
  unacked,    \* the blocks lwIP may still read, for each connection
  received,   \* history: requests taken since the boot
  tried,      \* history: has a PUBLIC_KEY or PROOF been handled since M1?
  wrong,      \* history: proofs srp_setA computed since M1 from a wrong K
  accepted    \* history: proofs accepted since M1

vars == <<up, srp, conn, inbox, eof, reply, cur, heap, buffers, unacked,
          received, tried, wrong, accepted>>

NoRequest == <<>>
Idle == [pc |-> "idle", conn |-> None, request |-> NoRequest,
         rest |-> NoRequest, halt |-> FALSE, failed |-> FALSE,
         answer |-> "none", keyed |-> None, proved |-> None, fresh |-> FALSE]
----------------------------------------------------------------------------
\* The state of a device that has just been reset.
Down == /\ up' = FALSE
        /\ conn' = {} /\ eof' = {}
        /\ inbox' = [c \in Conns |-> NoRequest]
        /\ reply' = [c \in Conns |-> "none"]
        /\ cur' = Idle
        /\ heap' = 0 /\ buffers' = {}
        /\ unacked' = [c \in Conns |-> {}]
        /\ received' = 0 /\ tried' = FALSE /\ wrong' = {} /\ accepted' = {}
        /\ srp' = srp_init(None, TRUE)

Init == /\ up = FALSE
        /\ conn = {} /\ eof = {}
        /\ inbox = [c \in Conns |-> NoRequest]
        /\ reply = [c \in Conns |-> "none"]
        /\ cur = Idle
        /\ heap = 0 /\ buffers = {}
        /\ unacked = [c \in Conns |-> {}]
        /\ received = 0 /\ tried = FALSE /\ wrong = {} /\ accepted = {}
        /\ srp = srp_init(None, TRUE)

\* homekit_init: crypto_init draws an SRP identity and the server listens.
\* rand() is never seeded, so a boot draws what the boots before it drew;
\* nothing here rests on that, and any of the identities may be drawn.
StartUp == /\ ~up
           /\ up' = TRUE
           /\ \E i \in Identities, sound \in {TRUE, "mpi" \notin Faults} :
                srp' = srp_init(i, sound)
           /\ UNCHANGED <<conn, inbox, eof, reply, cur, heap, buffers,
                          unacked, received, tried, wrong, accepted>>

\* The watchdog (DEVELOPMENT.md saw it fire after srp_setA) or the power.
Reset == up /\ "reset" \in Faults /\ Down
----------------------------------------------------------------------------
(* Controllers and the network. *)

Connect(c) ==                                            \* server_accept
  /\ up /\ cur = Idle /\ c \notin conn /\ unacked[c] = {}
  /\ conn' = conn \cup {c}
  /\ reply' = [reply EXCEPT ![c] = "none"]
  /\ UNCHANGED <<up, srp, inbox, eof, cur, heap, buffers, unacked, received,
                 tried, wrong, accepted>>

\* A controller waits until its last request has been dealt with.
Send(c) ==
  /\ c \in conn \ eof /\ inbox[c] = NoRequest /\ cur.conn # c
  /\ inbox' \in {[inbox EXCEPT ![c] = r] : r \in Requests}
  /\ reply' = [reply EXCEPT ![c] = "none"]
  /\ UNCHANGED <<up, srp, conn, eof, cur, heap, buffers, unacked, received,
                 tried, wrong, accepted>>

\* The controller closes its side; lwIP reports it after the data before it.
Hangup(c) ==
  /\ "hangup" \in Faults /\ c \in conn \ eof
  /\ eof' = eof \cup {c}
  /\ UNCHANGED <<up, srp, conn, inbox, reply, cur, heap, buffers, unacked,
                 received, tried, wrong, accepted>>

\* The peer acknowledges everything: lwIP drops its references.
Ack(c) ==
  /\ unacked[c] # {}
  /\ unacked' = [unacked EXCEPT ![c] = {}]
  /\ UNCHANGED <<up, srp, conn, inbox, eof, reply, cur, heap, buffers,
                 received, tried, wrong, accepted>>

\* The connection is reset: lwIP frees the control block and its queues.
Abort(c) ==
  /\ "hangup" \in Faults /\ c \in conn /\ cur = Idle
  /\ conn' = conn \ {c} /\ eof' = eof \ {c}
  /\ inbox' = [inbox EXCEPT ![c] = NoRequest]
  /\ unacked' = [unacked EXCEPT ![c] = {}]
  /\ UNCHANGED <<up, srp, reply, cur, heap, buffers, received, tried, wrong,
                 accepted>>
----------------------------------------------------------------------------
(* The server's callbacks. *)

\* A block of memory, or NULL, which the caller writes through: a reset.
malloc_unbounded(next) == heap' = heap + 1 /\ next
malloc(next) == IF heap < HeapBlocks
                THEN heap' = heap + 1 /\ next
                ELSE Down

\* server_recv up to the call of handle_request; the copy is never freed.
Recv(c) ==
  /\ cur = Idle /\ c \in conn /\ inbox[c] # NoRequest
  /\ malloc(/\ cur' = [Idle EXCEPT !.pc = "tlv", !.conn = c, !.fresh = ~tried,
                                   !.request = inbox[c], !.rest = inbox[c]]
            /\ inbox' = [inbox EXCEPT ![c] = NoRequest]
            /\ received' = received + 1
            /\ UNCHANGED <<up, srp, conn, eof, reply, buffers, unacked,
                           tried, wrong, accepted>>)

\* server_recv without data: server_close.
ServerClose(c) ==
  /\ cur = Idle /\ c \in eof /\ inbox[c] = NoRequest
  /\ conn' = conn \ {c} /\ eof' = eof \ {c}
  /\ UNCHANGED <<up, srp, inbox, reply, cur, heap, buffers, unacked, received,
                 tried, wrong, accepted>>

More == cur.rest # NoRequest /\ ~cur.halt
Tag == Head(cur.rest)[1]
Value == Head(cur.rest)[2]
Resumed == [cur EXCEPT !.rest = Tail(@)]

\* handle_request: a TLV that is not STATE is printed and skipped.
SkipTlv ==
  /\ cur.pc = "tlv" /\ More /\ Tag # "STATE"
  /\ cur' = Resumed
  /\ UNCHANGED <<up, srp, conn, inbox, eof, reply, heap, buffers, unacked,
                 received, tried, wrong, accepted>>

\* The TLV loop of handle_request after the one STATE it obeys.
StateTlv(s) == cur.pc = "tlv" /\ More /\ Tag = "STATE" /\ Value = s
Halted == [cur EXCEPT !.rest = Tail(@), !.halt = TRUE]

\* handle_M1 up to its send_response.
HandleM1 ==
  /\ StateTlv("M1")
  /\ malloc(/\ srp' = srp_start(srp)
            /\ cur' = [Halted EXCEPT !.pc = "respond", !.answer = "M2"]
            /\ tried' = FALSE /\ wrong' = {} /\ accepted' = {}
            /\ UNCHANGED <<up, conn, inbox, eof, reply, buffers, unacked,
                           received>>)

\* pairing_handler enters the TLV loop of M3.
IsM3_default == \E s \in States \ {"M1"} : StateTlv(s)
IsM3 == StateTlv("M3")
EnterM3 ==
  /\ IsM3
  /\ cur' = [Halted EXCEPT !.pc = "m3"]
  /\ UNCHANGED <<up, srp, conn, inbox, eof, reply, heap, buffers, unacked,
                 received, tried, wrong, accepted>>

\* pairing_handler has no case for any other state.
IgnoreState(s) ==
  /\ StateTlv(s) /\ s \notin {"M1", "M3"}
  /\ cur' = Halted
  /\ UNCHANGED <<up, srp, conn, inbox, eof, reply, heap, buffers, unacked,
                 received, tried, wrong, accepted>>

M3Tlv(type) == cur.pc = "m3" /\ ~cur.failed /\ cur.rest # NoRequest /\ Tag = type

Keys(A) == ComputedKeys(srp, A, "mpi" \in Faults)

WrongProofs(A, K) ==
  IF K = KeyOf(srp.identity, A) THEN {} ELSE {ProofOf(srp.identity, A, K)}

M3PublicKey ==
  /\ M3Tlv("PUBLIC_KEY")
  /\ \E K \in Keys(Value) :
       /\ srp' = srp_setA(srp, Value, K)
       /\ wrong' = wrong \cup WrongProofs(Value, K)
       /\ cur' = [cur EXCEPT !.rest = Tail(@),
                             !.failed = ~setA_accepts(srp, Value, K),
                             !.keyed = Value]
  /\ tried' = TRUE
  /\ UNCHANGED <<up, conn, inbox, eof, reply, heap, buffers, unacked, received,
                 accepted>>

M3Proof ==
  /\ M3Tlv("PROOF")
  /\ srp' = srp_checkM1(srp, Value)
  /\ cur' = [cur EXCEPT !.rest = Tail(@),
                        !.failed = ~checkM1_accepts(srp, Value),
                        !.proved = Value]
  /\ tried' = TRUE
  /\ UNCHANGED <<up, conn, inbox, eof, reply, heap, buffers, unacked, received,
                 wrong, accepted>>

M3Skip ==
  /\ cur.pc = "m3" /\ ~cur.failed /\ cur.rest # NoRequest
  /\ Tag \notin {"PUBLIC_KEY", "PROOF"}
  /\ cur' = Resumed
  /\ UNCHANGED <<up, srp, conn, inbox, eof, reply, heap, buffers, unacked,
                 received, tried, wrong, accepted>>

M3Done_ignoresErrors == cur.rest = NoRequest
M3Done == cur.failed \/ cur.rest = NoRequest

\* Has the M3 just handled proved anything?  Its client sent both values.
Proven == ~cur.failed /\ cur.keyed # None /\ cur.proved # None

\* The end of the M3 loop: send_error or handle_M3 up to send_response.
EndM3 ==
  /\ cur.pc = "m3" /\ M3Done
  /\ malloc(/\ cur' = [cur EXCEPT !.pc = "respond",
                         !.answer = IF cur.failed THEN "ERROR" ELSE "M4"]
            /\ accepted' = accepted \cup IF Proven THEN {cur.proved} ELSE {}
            /\ UNCHANGED <<up, srp, conn, inbox, eof, reply, buffers, unacked,
                           received, tried, wrong>>)

\* send_response allocates a block that it never frees, and its caller then
\* frees its own.
Written_freed(block) == buffers
Written(block) == buffers \cup {block}
free_forgotten(blocks) == blocks
free(blocks) == blocks - 1

\* The result of tcp_write is ignored: when it fails no answer is sent.
Respond ==
  /\ cur.pc = "respond"
  /\ IF heap = HeapBlocks THEN Down ELSE
     \E written \in IF "write" \in Faults THEN BOOLEAN ELSE {TRUE} :
       LET block == received
       IN /\ buffers' = Written(block)
          /\ heap' = free(heap + 1)
          /\ unacked' = IF written
                        THEN [unacked EXCEPT ![cur.conn] = @ \cup {block}]
                        ELSE unacked
          /\ reply' = [reply EXCEPT ![cur.conn] =
                         IF written THEN cur.answer ELSE "lost"]
          /\ cur' = [cur EXCEPT !.pc = "tlv"]
          /\ UNCHANGED <<up, srp, conn, inbox, eof, received, tried, wrong,
                         accepted>>

\* handle_request returns; server_recv frees the pbuf.
Return ==
  /\ cur.pc = "tlv" /\ ~More
  /\ cur' = Idle
  /\ UNCHANGED <<up, srp, conn, inbox, eof, reply, heap, buffers, unacked,
                 received, tried, wrong, accepted>>
----------------------------------------------------------------------------
Handler == \/ SkipTlv \/ HandleM1 \/ EnterM3 \/ \E s \in States : IgnoreState(s)
           \/ M3PublicKey \/ M3Proof \/ M3Skip \/ EndM3
           \/ Respond \/ Return

Network(c) == Connect(c) \/ Send(c) \/ Hangup(c) \/ Ack(c) \/ Abort(c)

Next == \/ StartUp \/ Reset \/ Handler
        \/ \E c \in Conns : Recv(c) \/ ServerClose(c) \/ Network(c)

Spec == Init /\ [][Next]_vars

\* The device boots, and the task of lwIP runs whenever it has work.
Fairness == /\ WF_vars(StartUp) /\ WF_vars(Handler)
            /\ \A c \in Conns : WF_vars(Recv(c)) /\ WF_vars(ServerClose(c))

FairSpec == Spec /\ Fairness
----------------------------------------------------------------------------
SrpRecords ==
  [identity : Drawn, sound : BOOLEAN, clientM1 : BOOLEAN, serverM1 : BOOLEAN,
   K : AllKeys \cup {Zero}, M1 : Proofs,
   M2 : {AnswerOf(A, p, K) : A \in PublicKeys, p \in Proofs, K \in AllKeys}
          \cup {Zero}]

Handlers ==
  [pc : {"idle", "tlv", "m3", "respond"}, conn : Conns \cup {None},
   request : Requests \cup {NoRequest}, rest : Seq(Tlvs),
   halt : BOOLEAN, failed : BOOLEAN, fresh : BOOLEAN,
   answer : Answers \cup {"none"},
   keyed : PublicKeys \cup {None}, proved : Proofs \cup {None}]

TypeOK ==
  /\ up \in BOOLEAN
  /\ srp \in SrpRecords
  /\ conn \subseteq Conns /\ eof \subseteq conn
  /\ inbox \in [Conns -> Requests \cup {NoRequest}]
  /\ reply \in [Conns -> Answers \cup {"none", "lost"}]
  /\ cur \in Handlers
  /\ heap \in 0..HeapBlocks
  /\ buffers \subseteq Nat
  /\ unacked \in [Conns -> SUBSET Nat]
  /\ received \in Nat
  /\ tried \in BOOLEAN
  /\ wrong \subseteq Proofs /\ accepted \subseteq Proofs

(***************************************************************************)
(* A client is accepted only on the proof of this boot's exchange for some *)
(* A, or on one that srp_setA itself computed from a wrong K since the last*)
(* M1, because a call of the big-number library failed in it or in         *)
(* srp_init (srp.c:66-72, 166-235): whatever other requests left in the    *)
(* flags clientM1 and serverM1, and in whichever order a client's values   *)
(* came (srp.c:248-262, 290-305).  The exception is a real one, see        *)
(* AcceptedOnPin; and for an A that is 0 mod N the right proof, of NullKey,*)
(* does not depend on the PIN.                                             *)
(***************************************************************************)
AcceptedIsRight ==
  \A p \in accepted :
    p \in wrong \/ \E A \in PublicKeys : p = RightProof(srp.identity, A)

(***************************************************************************)
(* What srp.c:193 says K is the hash of, "getS = (A * v^u mod N)^b mod N": *)
(* who is accepted showed the proof of that K.  It fails: after a failing  *)
(* call srp_setA hashes what it has, and accepts the proof of that.        *)
(***************************************************************************)
AcceptedOnPin ==
  \A p \in accepted : \E A \in PublicKeys : p = RightProof(srp.identity, A)

(***************************************************************************)
(* When an M3 that carried both values is about to be answered M4, the K,  *)
(* M1 and M2 of srp all belong to the A of that request: an exchange that  *)
(* was refused in between, which overwrites K, leaves no mixture behind    *)
(* (srp.c:235, 260, 271).                                                  *)
(***************************************************************************)
M4IsCoherent ==
  cur.pc = "respond" /\ cur.answer = "M4" /\ Proven =>
    /\ srp.M1 = ProofOf(srp.identity, cur.keyed, srp.K)
    /\ srp.M2 = AnswerOf(cur.keyed, srp.M1, srp.K)

\* The M3 of a controller that received B whole, in either order of its TLVs.
Genuine(r, identity) ==
  \E A \in PublicKeys :
    LET key == tlv("PUBLIC_KEY", A)
        proof == tlv("PROOF", RightProof(identity, A))
    IN r \in {<<tlv("STATE", "M3"), key, proof>>,
              <<tlv("STATE", "M3"), proof, key>>}

(***************************************************************************)
(* A genuine M3 that is the first since the M1 is never answered with an   *)
(* error unless srp_setA computed a wrong K for it: nothing that earlier   *)
(* exchanges left in srp gets in its way (srp.c:153-157).                  *)
(***************************************************************************)
FirstGenuineM3Accepted ==
  cur.pc = "respond" /\ cur.answer = "ERROR" =>
    ~(cur.fresh /\ Genuine(cur.request, srp.identity) /\ wrong = {})

(***************************************************************************)
(* Every block lwIP still has to read from (tcp_write was told not to copy,*)
(* tcp.c:105) is an allocated one, over any number of later requests and   *)
(* after the connection was closed.  It holds because send_response never  *)
(* frees its block.                                                        *)
(***************************************************************************)
UnackedAreAllocated == \A c \in Conns : unacked[c] \subseteq buffers

(***************************************************************************)
(* Between requests the heap holds exactly one block per request received  *)
(* and one per answer: nothing else leaks on any path, and so much leaks   *)
(* on each (tcp.c:81, 121; pairing.c:19, 34, 48).                          *)
(***************************************************************************)
LeakIsExact ==
  cur = Idle => heap = received + Cardinality(buffers)

\* No request is answered twice, however many STATE TLVs it carries
\* (homekit.c:30).
OneAnswerPerRequest ==
  Cardinality(buffers) + (IF cur.pc = "respond" THEN 1 ELSE 0) <= received
----------------------------------------------------------------------------
\* What the first STATE of a request asks for.
Asks(r, s) ==
  \E n \in DOMAIN r : r[n] = tlv("STATE", s)
                        /\ \A m \in 1..(n - 1) : r[m][1] # "STATE"

(***************************************************************************)
(* An answer goes to the connection whose request is handled, and is the   *)
(* one due to what that request asked for: M2 for M1, M4 or an error for   *)
(* M3, nothing for any other state (pairing.c:51-94).                      *)
(***************************************************************************)
AnswersItsRequest ==
  [][\A c \in Conns : reply'[c] # reply[c] /\ reply'[c] \in Answers =>
       /\ cur.conn = c
       /\ IF reply'[c] = "M2" THEN Asks(cur.request, "M1")
                              ELSE Asks(cur.request, "M3")]_vars

(***************************************************************************)
(* Between two M1, once a client's proof and the accessory's own have been *)
(* put side by side, the proof a client must show no longer changes; and   *)
(* only that proof is accepted.  This is the specification PairSetup.      *)
(***************************************************************************)
committed == IF srp.clientM1 /\ srp.serverM1 THEN srp.M1 ELSE None
Setup == INSTANCE PairSetup WITH identity <- srp.identity
SetupSpec == Setup!Spec

(***************************************************************************)
(* Every M1 and M3 that reached the server is answered, or its connection  *)
(* is gone, or the device went down (of which only a full heap and the     *)
(* watchdog are causes).                                                   *)
(***************************************************************************)
Waits(c) == Asks(inbox[c], "M1") \/ Asks(inbox[c], "M3")
Answered ==
  \A c \in Conns : Waits(c) ~> (reply[c] # "none" \/ c \notin conn \/ ~up)
=============================================================================
