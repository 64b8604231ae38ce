-------------------------------- MODULE Aead --------------------------------
(***************************************************************************)
(* Sealing and opening of records: crypto_transportEncrypt and ...Decrypt  *)
(* of crypto.c over crypto_stream_chacha20_xor of tweetnacl.c, for one key *)
(* and records that arrive in order, some of them damaged.                 *)
(*                                                                         *)
(* A byte is the set of the unknown bytes it is the exclusive or of: bytes *)
(* of texts, of the keystream and of authenticators, and numbers.  So zero *)
(* is {} and what is combined twice is gone.                               *)
(***************************************************************************)
EXTENDS Powers, Sequences, SequencesExt

CONSTANTS
  Base,           \* values of a byte: 256
  Block,           \* bytes of a block of the keystream: 64
  CounterBytes,    \* 8
  IvBytes,      \* 8
  MacBytes,        \* 16
  TextLengths,         \* of texts, none empty
  MaxSealed        \* bound on the records

\* No counter of blocks or of records overflows, and two bytes of the last
\* block of a message take its length.
ASSUME AeadAssumption ==
  /\ Base \in Nat \ {0, 1} /\ {Block, CounterBytes, IvBytes} \subseteq Nat \ {0}
  /\ MacBytes \in Nat /\ MacBytes >= 4 /\ MacBytes % 2 = 0
  /\ MaxSealed \in Nat /\ MaxSealed <= PowersOf(Base)[IvBytes]
  /\ \A length \in TextLengths :
       /\ length \in Nat \ {0} /\ length < Base * Base
       /\ 1 + (length - 1) \div Block < PowersOf(Base)[CounterBytes]

VARIABLES
  nonces,          \* of the sealing and of the opening end
  sealed,          \* records, in the order of their nonces
  texts,           \* and what they were made of
  opened           \* of each record that arrived: what was taken, given back

records == <<nonces, sealed, texts, opened>>

LittleEndian(number, bytes) == [j \in 1..bytes |-> Digit(Base, number, j - 1)]
Constant(v) == IF v = 0 THEN {} ELSE {<<"number", v>>}
Xor(x, y) == (x \ y) \cup (y \ x)
Zeros(n) == [j \in 1..n |-> {}]

RecordsInit ==
  /\ nonces = [seal |-> LittleEndian(0, IvBytes), open |-> LittleEndian(0, IvBytes)]
  /\ sealed = <<>> /\ texts = <<>> /\ opened = <<>>
----------------------------------------------------------------------------
\* The counter in z[8..15]: u carries from byte to byte.
Counted_low(z) == [z EXCEPT ![1] = (@ + 1) % Base]
Counted(z) ==
  LET u[j \in 0..CounterBytes] == IF j = 0 THEN 1 ELSE (z[j] + u[j - 1]) \div Base
  IN [j \in 1..CounterBytes |-> (z[j] + u[j - 1]) % Base]

Stream(m, n, v) ==
  LET z[q \in 0..(Len(m) \div Block)] ==
        IF q = 0 THEN [j \in 1..CounterBytes |-> IF j = 1 THEN v ELSE 0]
        ELSE Counted(z[q - 1])
  IN [i \in DOMAIN m |-> Xor(m[i], {<<"key", n, z[(i - 1) \div Block], (i - 1) % Block>>})]

polykey(n) == Stream(Zeros(Block), n, 0)
poly1305(message, key) == [j \in 1..MacBytes |-> {<<"mac", message, key, j>>}]

\* The record padded to whole blocks, and its length in the last block.
Padding_whole(length) == MacBytes - (length % MacBytes)
Padding(length) == (MacBytes - (length % MacBytes)) % MacBytes
Message(bytes, length) ==
  LET filled == bytes \o Zeros(Padding(length) + MacBytes)
      place == length + Padding(length) + MacBytes \div 2
  IN [filled EXCEPT ![place + 1] = Constant(length % Base),
                    ![place + 2] = Constant((length \div Base) % Base)]

encryptAndSeal(n, plain) ==
  LET cipher == Stream(plain, n, 1)
  IN cipher \o poly1305(Message(cipher, Len(plain)), polykey(n))

\* Its length is a uint8_t.
verifyAndDecrypt(n, record) ==
  LET clength == Len(record) - MacBytes
      cipher == SubSeq(record, 1, clength % Base)
      mac == SubSeq(record, clength + 1, Len(record))
  IN IF poly1305(Message(cipher, Len(cipher)), polykey(n)) # mac THEN <<"refused">>
     ELSE <<"opened", Stream(cipher, n, 1)>>

\* for (i = 0; i < 8 && !++nonce[i]; i++)
NextNonce(nonce) ==
  [j \in 1..IvBytes |-> IF \A l \in 1..(j - 1) : nonce[l] = Base - 1
                           THEN (nonce[j] + 1) % Base ELSE nonce[j]]

transportEncrypt(length) ==
  LET plain == [i \in 1..length |-> {<<"text", Len(sealed) + 1, i>>}]
  IN /\ Len(sealed) < MaxSealed
     /\ sealed' = Append(sealed, encryptAndSeal(nonces.seal, plain))
     /\ texts' = Append(texts, plain)
     /\ nonces' = [nonces EXCEPT !.seal = NextNonce(@)]
     /\ UNCHANGED opened

transportDecrypt(record) ==
  /\ opened' = Append(opened, [record |-> record,
                               result |-> verifyAndDecrypt(nonces.open, record)])
  /\ nonces' = [nonces EXCEPT !.open = NextNonce(@)]
  /\ UNCHANGED <<sealed, texts>>

\* What may arrive for a record: it, one byte of it changed, its last byte
\* missing, or a byte more.
Changed(record, i) == [record EXCEPT ![i] = Xor(@, {<<"damage">>})]
Arriving(record) ==
  {record, Append(record, {}), SubSeq(record, 1, Len(record) - 1)}
    \cup {Changed(record, i) : i \in {1, Len(record)}}

RecordsNext ==
  \/ \E length \in TextLengths : transportEncrypt(length)
  \/ /\ Len(opened) < Len(sealed)
     /\ \E record \in Arriving(sealed[Len(opened) + 1]) : transportDecrypt(record)

RecordsSpec == RecordsInit /\ [][RecordsNext]_records
----------------------------------------------------------------------------
Records == DOMAIN sealed
Drawn(r) == [i \in DOMAIN texts[r] |-> Xor(sealed[r][i], texts[r][i])]

(***************************************************************************)
(* No byte of the keystream is used twice, in one record or in two of one  *)
(* key, however long they are, and none of those that encrypt is part of a *)
(* key of the authenticator: the counter starts at 1 for them and carries  *)
(* into its higher bytes, the nonce moves on (tweetnacl.c:123-151;         *)
(* crypto.c:94-134, 159-164).                                              *)
(***************************************************************************)
KeystreamUsedOnce ==
  \A r, r2 \in Records :
    /\ \A i \in DOMAIN Drawn(r), i2 \in DOMAIN Drawn(r2) :
         Drawn(r)[i] = Drawn(r2)[i2] => r = r2 /\ i = i2
    /\ ToSet(Drawn(r)) \cap ToSet(polykey(LittleEndian(r2 - 1, IvBytes))) = {}

\* The construction of RFC 8439 without additional data, for the r-th record.
Pad16(bytes) == bytes \o Zeros((-Len(bytes)) % MacBytes)
Rfc8439(r) ==
  LET n == LittleEndian(r - 1, IvBytes)
      Key(i, counter) == {<<"key", n, LittleEndian(counter, CounterBytes), i % Block>>}
      bytes == [i \in DOMAIN texts[r] |->
                  Xor(texts[r][i], Key(i - 1, 1 + (i - 1) \div Block))]
      lengths == LittleEndian(Len(bytes), MacBytes \div 2)
  IN bytes \o poly1305(Pad16(bytes) \o Zeros(MacBytes \div 2)
                         \o [j \in DOMAIN lengths |-> Constant(lengths[j])],
                       [i \in 1..Block |-> Key(i - 1, 0)])

(***************************************************************************)
(* Every record is the one of RFC 8439, so a peer opens it, and one that   *)
(* arrives opens exactly if it is the sealed one and shorter than a uint8_t*)
(* allows, to the very text, whatever arrived or was refused before it     *)
(* (crypto.c:94-173).                                                      *)
(***************************************************************************)
OpensWhatWasSealed ==
  /\ \A r \in Records : sealed[r] = Rfc8439(r)
  /\ \A r \in DOMAIN opened :
       opened[r].result =
         IF opened[r].record = sealed[r] /\ Len(texts[r]) < Base
         THEN <<"opened", texts[r]>> ELSE <<"refused">>
=============================================================================
