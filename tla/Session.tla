------------------------------ MODULE Session ------------------------------
(***************************************************************************)
(* The record layer of crypto/session.c over the transport functions of    *)
(* crypto.c, with a controller at the other end of a TCP connection.  The  *)
(* pair-verify exchange that agrees on a secret and calls                  *)
(* session_setEncryption is not in the repository: it may happen any time  *)
(* nothing is under way, again on a connection that has one, and agrees on *)
(* a secret that the connection did not have.  A record is sealed over its *)
(* length; a key stands for both keys that crypto_hkdf derives.            *)
(***************************************************************************)
EXTENDS Powers, Sequences

CONSTANTS
  Secrets,        \* what a pair-verify can agree on
  Lengths,        \* lengths of records
  LengthMod,      \* values of a uint8_t: 256
  Radix,          \* values of a byte of a nonce: 256
  NonceBytes,     \* 8
  MaxRecords,     \* bound on the records of a direction and connection
  MaxQueue,       \* bound on those under way
  None

ASSUME LengthsAssumption == Lengths \subseteq Nat
ASSUME BytesAssumption ==
  Radix \in Nat \ {0} /\ NonceBytes \in Nat /\ LengthMod \in Nat \ {0}
ASSUME NoneAssumption == None \notin Secrets
\* Far fewer records than nonces.
ASSUME RecordsAssumption ==
  MaxRecords \in Nat /\ MaxRecords < PowersOf(Radix)[NonceBytes]

VARIABLES
  session_state,    \* encrypting, havekeys
  shared,           \* session_keys.shared
  transport,        \* the key and both nonces
  peer,             \* the controller: secret, records sent and opened
  agreed,           \* every secret that this connection has agreed on
  toPeer, toUs,     \* records under way
  verdict           \* the record session_writeData took last, and its result

vars == <<session_state, shared, transport, peer, agreed, toPeer, toUs, verdict>>

Zero == [k \in 1..NonceBytes |-> 0]
NonceOf(count) == [k \in 1..NonceBytes |-> Digit(Radix, count, k - 1)]

Init ==
  /\ session_state = [encrypting |-> FALSE, havekeys |-> FALSE]
  /\ shared = None
  /\ transport = [key |-> None, read_nonce |-> Zero, write_nonce |-> Zero]
  /\ peer = [secret |-> None, sent |-> 0, opened |-> 0]
  /\ agreed = {} /\ toPeer = <<>> /\ toUs = <<>> /\ verdict = None
----------------------------------------------------------------------------
Initial_kept(state) == state
Initial(state) == [encrypting |-> FALSE, havekeys |-> FALSE]

\* A connection closes, whatever is under way, and the next one begins.
session_init ==
  /\ session_state' = Initial(session_state)
  /\ peer' = [secret |-> None, sent |-> 0, opened |-> 0]
  /\ agreed' = {} /\ toPeer' = <<>> /\ toUs' = <<>> /\ verdict' = None
  /\ UNCHANGED <<shared, transport>>

Encryption(enable) ==
  IF session_state.encrypting # enable
  THEN [encrypting |-> enable, havekeys |-> FALSE] ELSE session_state

\* With encryption on already, session_setEncryption leaves the keys alone.
Verify ==
  /\ toPeer = <<>> /\ toUs = <<>>
  /\ \E secret \in Secrets \ agreed :
       /\ shared' = secret /\ agreed' = agreed \cup {secret}
       /\ peer' = [peer EXCEPT !.secret = secret, !.sent = 0, !.opened = 0]
  /\ session_state' = Encryption(TRUE)
  /\ verdict' = None
  /\ UNCHANGED <<transport, toPeer, toUs>>

\* session_genkeys, which both directions call first.
Derived ==
  IF session_state.havekeys THEN transport
  ELSE [key |-> shared, read_nonce |-> Zero, write_nonce |-> Zero]
GenKeys == session_state' = [session_state EXCEPT !.havekeys = TRUE]

\* for (i = 0; i < 8 && !++nonce[i]; i++)
Incremented(nonce) ==
  [k \in 1..NonceBytes |->
     IF \A j \in 1..(k - 1) : nonce[j] = Radix - 1
     THEN (nonce[k] + 1) % Radix ELSE nonce[k]]

Sealed(key, nonce, length) == [key |-> key, nonce |-> nonce, length |-> length]
Plain(length) == Sealed(None, None, length)

ReadEncrypted ==
  /\ session_state.encrypting /\ Len(toPeer) < MaxQueue
  /\ peer.opened + Len(toPeer) < MaxRecords
  /\ \E length \in Lengths :
       toPeer' = Append(toPeer, Sealed(Derived.key, Derived.read_nonce, length))
  /\ transport' = [Derived EXCEPT !.read_nonce = Incremented(@)]
  /\ GenKeys
  /\ UNCHANGED <<shared, peer, agreed, toUs, verdict>>

ReadPlain ==
  /\ ~session_state.encrypting /\ Len(toPeer) < MaxQueue
  /\ \E length \in Lengths : toPeer' = Append(toPeer, Plain(length))
  /\ UNCHANGED <<session_state, shared, transport, peer, agreed, toUs, verdict>>

\* The length is a uint8_t, in what is authenticated and in what is decrypted.
Opens(record, key, nonce) ==
  record = Sealed(key, nonce, record.length % LengthMod)

Advanced_opened(nonce, opened) == IF opened THEN Incremented(nonce) ELSE nonce
Advanced(nonce, opened) == Incremented(nonce)

WriteEncrypted ==
  /\ session_state.encrypting /\ toUs # <<>>
  /\ LET opened == Opens(Head(toUs), Derived.key, Derived.write_nonce)
     IN /\ verdict' = [length |-> Head(toUs).length, opened |-> opened]
        /\ transport' = [Derived EXCEPT !.write_nonce = Advanced(@, opened)]
  /\ toUs' = Tail(toUs)
  /\ GenKeys
  /\ UNCHANGED <<shared, peer, agreed, toPeer>>

\* Returns 1, but copies the plaintext buffer over the record: nothing that
\* was received reaches the caller.
WritePlain ==
  /\ ~session_state.encrypting /\ toUs # <<>>
  /\ toUs' = Tail(toUs)
  /\ UNCHANGED <<session_state, shared, transport, peer, agreed, toPeer, verdict>>

\* The controller.
PeerSends ==
  /\ Len(toUs) < MaxQueue /\ peer.sent < MaxRecords
  /\ \E length \in Lengths :
       toUs' = Append(toUs, IF peer.secret = None THEN Plain(length)
                            ELSE Sealed(peer.secret, NonceOf(peer.sent), length))
  /\ peer' = IF peer.secret = None THEN peer ELSE [peer EXCEPT !.sent = @ + 1]
  /\ UNCHANGED <<session_state, shared, transport, agreed, toPeer, verdict>>

PeerOpens ==
  /\ toPeer # <<>>
  /\ toPeer' = Tail(toPeer)
  /\ peer' = IF peer.secret = None THEN peer ELSE [peer EXCEPT !.opened = @ + 1]
  /\ UNCHANGED <<session_state, shared, transport, agreed, toUs, verdict>>

Next ==
  \/ session_init \/ Verify \/ ReadEncrypted \/ ReadPlain
  \/ WriteEncrypted \/ WritePlain \/ PeerSends \/ PeerOpens

Spec == Init /\ [][Next]_vars
----------------------------------------------------------------------------
\* Sealed by the controller, in order.
ShortRecordsOpen ==
  verdict # None => (verdict.opened <=> verdict.length < LengthMod)

\* Sealed by the accessory: the key of this connection, the nonce of its place.
ControllerOpens ==
  peer.secret # None =>
    \A k \in DOMAIN toPeer :
      /\ toPeer[k].key = peer.secret
      /\ toPeer[k].nonce = NonceOf(peer.opened + k - 1)

Once == agreed \subseteq {peer.secret}

(***************************************************************************)
(* On a connection with one pair-verify each end opens in order what the   *)
(* other sealed, across carries of the nonce and from one connection to    *)
(* the next.  Only a record of 256 bytes or more is refused, because its   *)
(* length is a uint8_t, and the nonce moves on all the same, so that those *)
(* after it open (session.c:47-101; crypto.c:94-173).  After a second      *)
(* pair-verify the ends may use different keys, and nothing is claimed.    *)
(***************************************************************************)
RecordsOpen == Once => ShortRecordsOpen /\ ControllerOpens

(***************************************************************************)
(* Keys in use come from a secret of this connection, never from one       *)
(* before it, though they are only derived when the first record needs     *)
(* them.  With one pair-verify that secret is the controller's; a second   *)
(* one after the first record does not change the keys, as                 *)
(* session_setEncryption is then called with encryption on already         *)
(* (session.c:23-40, 47-51).                                               *)
(***************************************************************************)
KeysAreOfConnection ==
  session_state.havekeys =>
    transport.key \in agreed /\ (Once => transport.key = peer.secret)
=============================================================================
