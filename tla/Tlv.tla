-------------------------------- MODULE Tlv --------------------------------
(***************************************************************************)
(* The TLV codec (homekit/crypto/tlv.c) over one buffer: a message is      *)
(* encoded into the buffer, by tlv_encode_next or by a correct peer, and   *)
(* then taken apart by the loop on tlv_decode_next.  The decoder returns   *)
(* pointers into the buffer and closes the gaps between the pieces of a    *)
(* long value by moving the rest of the buffer, so the buffer is state.    *)
(*                                                                         *)
(* A byte is a number.  MaxPiece stands for 255.                           *)
(***************************************************************************)
EXTENDS Integers, Sequences, SequencesExt

CONSTANTS MaxPiece,     \* longest value of one piece
          Types,
          Messages,     \* sequences of [type, value]
          Encoders      \* who encodes: among "peer", "accessory"

ASSUME PieceAssumption == MaxPiece \in Nat \ {0}
ASSUME MessagesAssumption ==
  /\ Messages \subseteq Seq([type : Types, value : Seq(Nat)])
  /\ \A m \in Messages : \A i \in 2..Len(m) : m[i].type # m[i - 1].type

VARIABLES
  encoder,    \* who encodes this message
  pc,         \* "encode", "next", "merge" or "done"
  message,    \* what is sent
  item,       \* the TLV being encoded
  value,      \* what tlv_encode_next will copy from
  left,       \* its length: bytes still to encode
  buf,        \* the buffer
  data,       \* index of the first byte not decoded
  dlength,    \* how many bytes follow, as the decoder counts them
  out         \* what was decoded: [type, value (an index), length]

vars == <<encoder, pc, message, item, value, left, buf, data, dlength, out>>
encoding == <<encoder, message, item, value, left>>
----------------------------------------------------------------------------
\* The accessory has no empty value to send.
NoneEmpty(m) == \A i \in DOMAIN m : m[i].value # <<>>

Init ==
  /\ encoder \in Encoders /\ message \in Messages
  /\ encoder = "accessory" => NoneEmpty(message)
  /\ item = 1 /\ out = <<>> /\ data = 1
  /\ pc = "encode" /\ buf = <<>> /\ dlength = 0
  /\ value = <<>> /\ left = 0
----------------------------------------------------------------------------
\* The bytes of a value: every piece is its type, its length and its bytes.
PieceCount(n) == IF n = 0 THEN 1 ELSE (n + MaxPiece - 1) \div MaxPiece
EncodedBy(type, v) ==
  LET pieces == PieceCount(Len(v))
      byte(q, r) ==
        IF r = 0 THEN type
        ELSE IF r = 1 THEN IF q < pieces - 1 THEN MaxPiece
                                             ELSE Len(v) - q * MaxPiece
        ELSE v[q * MaxPiece + r - 1]
  IN [k \in 1..(Len(v) + 2 * pieces) |->
        byte((k - 1) \div (MaxPiece + 2), (k - 1) % (MaxPiece + 2))]

\* A controller encodes a value.
PeerEncodes ==
  /\ pc = "encode" /\ encoder = "peer" /\ item <= Len(message)
  /\ buf' = buf \o EncodedBy(message[item].type, message[item].value)
  /\ item' = item + 1
  /\ UNCHANGED <<encoder, pc, message, value, left, data, dlength, out>>

\* A call of tlv_encode_next, and one round of its loop, which copies from
\* the start of the value every time.
EncodeNext ==
  /\ pc = "encode" /\ encoder = "accessory"
  /\ item <= Len(message) /\ left = 0
  /\ value' = message[item].value /\ left' = Len(value')
  /\ item' = item + 1
  /\ UNCHANGED <<encoder, pc, message, buf, data, dlength, out>>

Size(length) == IF length > MaxPiece THEN MaxPiece ELSE length

EncodePiece ==
  /\ pc = "encode" /\ left > 0
  /\ LET piece == Size(left)
     IN /\ buf' = buf \o <<message[item - 1].type, piece>>
                      \o SubSeq(value, 1, piece)
        /\ left' = left - piece
  /\ UNCHANGED <<encoder, pc, message, item, value, data, dlength, out>>

\* The buffer is handed to the decoder.
Deliver ==
  /\ pc = "encode" /\ left = 0 /\ item > Len(message)
  /\ pc' = "next"
  /\ dlength' = Len(buf)
  /\ UNCHANGED <<encoding, buf, data, out>>
----------------------------------------------------------------------------
\* memcpy(iptr, iptr + 2, n), upwards.
MoveDown(b, iptr, n) ==
  [k \in DOMAIN b |-> IF k \in iptr..(iptr + n - 1) THEN b[k + 2] ELSE b[k]]

NoneLeft == dlength < 2

Taken(ilen) == 2 + ilen

\* tlv_decode_next up to its loop; a buffer used up ends the caller's loop.
\* (With dlength < 2 the second half of the guard of tlv.c:21 always holds.)
DecodeNext ==
  /\ pc = "next" /\ ~NoneLeft
  /\ LET ilen == buf[data + 1]
     IN /\ out' = Append(out, [type |-> buf[data], value |-> data + 2,
                               length |-> ilen])
        /\ data' = data + 2 + ilen
        /\ dlength' = dlength - Taken(ilen)
        /\ pc' = IF ilen = MaxPiece THEN "merge" ELSE "next"
  /\ UNCHANGED <<encoding, buf>>

DecodeEnd == /\ pc = "next" /\ NoneLeft
             /\ pc' = "done"
             /\ UNCHANGED <<encoding, buf, data, dlength, out>>

\* The loop of tlv_decode_next: another piece of the same value follows.
Continues_anyType == dlength >= 2
Continues == dlength >= 2 /\ buf[data] = Last(out).type

Moved_pieceOnly(iptr, ilen) == MoveDown(buf, iptr, ilen)
Moved(iptr, ilen) == MoveDown(buf, iptr, dlength - 2)

MergePiece ==
  /\ pc = "merge" /\ Continues
  /\ LET iptr == data
         ilen == buf[data + 1]
     IN /\ buf' = Moved(iptr, ilen)
        /\ out' = [out EXCEPT ![Len(out)].length = @ + ilen]
        /\ data' = iptr + ilen
        /\ dlength' = dlength - Taken(ilen)
        /\ pc' = IF ilen = MaxPiece THEN "merge" ELSE "next"
  /\ UNCHANGED encoding

MergeEnd == /\ pc = "merge" /\ ~Continues
            /\ pc' = "next"
            /\ UNCHANGED <<encoding, buf, data, dlength, out>>

Next == \/ PeerEncodes \/ EncodeNext \/ EncodePiece \/ Deliver
        \/ DecodeNext \/ DecodeEnd \/ MergePiece \/ MergeEnd

Spec == Init /\ [][Next]_vars
----------------------------------------------------------------------------
Read(o) == [type |-> o.type,
            value |-> SubSeq(buf, o.value, o.value + o.length - 1)]
Decoded == [i \in DOMAIN out |-> Read(out[i])]

(***************************************************************************)
(* What was decoded so far reads as what a peer sent, and stays so when    *)
(* later values are joined by moving bytes: the pointers given out stay    *)
(* good until the buffer is used up, nothing is lost, and the decoder never*)
(* counts a byte that is not there (tlv.c:21-36).                          *)
(***************************************************************************)
ValuesStand ==
  encoder = "peer" =>
  LET whole == IF pc = "merge" THEN Len(out) - 1 ELSE Len(out)
  IN /\ data + dlength <= Len(buf) + 1
     /\ whole <= Len(message)
     /\ \A i \in 1..whole : Decoded[i] = message[i]
     /\ pc = "done" => Len(out) = Len(message)

\* Where the encoding of each value of a message ends.
Ends(m) ==
  LET end[i \in 0..Len(m)] ==
        IF i = 0 THEN 0
        ELSE end[i - 1] + Len(m[i].value) + 2 * PieceCount(Len(m[i].value))
  IN end

(***************************************************************************)
(* tlv_encode_next emits, for values of any length, as many bytes as a     *)
(* peer's encoder, type and length bytes where they belong (the 409 bytes  *)
(* of M2 in README.md), and every value that fits in one piece comes back  *)
(* whole, also among longer ones (tlv.c:41-53).                            *)
(***************************************************************************)
ShortRoundTrip ==
  pc # "encode" /\ encoder = "accessory" =>
    /\ Len(buf) = Ends(message)[Len(message)]
    /\ pc = "done" =>
         /\ Len(out) = Len(message)
         /\ \A i \in DOMAIN out :
              Len(message[i].value) <= MaxPiece => Decoded[i] = message[i]

\* TLV decode and encode are each other's inverse, which README.md ticks off
\* as done ("TLV Decode/Encode").
RoundTrip == pc = "done" => Decoded = message
=============================================================================
