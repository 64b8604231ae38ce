--------------------------- MODULE KeyDerivation ---------------------------
(***************************************************************************)
(* crypto_sha512hmac and crypto_hkdf of crypto.c, as session_genkeys of    *)
(* session.c calls them: two keys of a connection are cut from one buffer  *)
(* that is salt, result and scratch in turn.  SHA-512 is one to one; bytes *)
(* of its results, of labels and of secrets are symbols.                   *)
(***************************************************************************)
EXTENDS Integers, Sequences

CONSTANTS HashBytes,      \* 64
          HmacBlock,      \* 128
          KeyBytes,       \* 32
          Symbols,        \* bytes of labels and secrets
          SharedSecrets,
          ControlSalt, ReadInfo, WriteInfo,     \* the labels
          Renewals        \* bound on the connections

\* What crypto.h and session.c give them.
ASSUME DerivationAssumption ==
  /\ HashBytes \in Nat \ {0} /\ HmacBlock \in Nat /\ KeyBytes \in 1..HashBytes
  /\ SharedSecrets \subseteq Seq(Symbols)
  /\ {ControlSalt, ReadInfo, WriteInfo} \subseteq Seq(Symbols)
  /\ ReadInfo # WriteInfo

VARIABLES
  havekeys,
  secret,                 \* session_keys.shared
  keys,                   \* [read, write] of session_keys.transport
  key,                    \* the buffer of session_genkeys
  message1, message2,     \* those of crypto_sha512hmac
  todo,                   \* calls of crypto_sha512hmac to come
  step,
  renewed

derivation == <<havekeys, secret, keys, key, message1, message2, todo, step, renewed>>
buffers == <<key, message1, message2>>

sha512(bytes) == [j \in 1..HashBytes |-> <<"sha", bytes, j>>]
Garbage == [j \in 1..HashBytes |-> <<"any", j>>]
XorByte(pad, byte) == <<pad, byte>>
ZeroByte == <<"zero">>

DerivationInit ==
  /\ havekeys = FALSE /\ secret \in SharedSecrets /\ renewed = 0
  /\ keys = [read |-> Garbage, write |-> Garbage]
  /\ key = Garbage /\ message1 = <<>> /\ message2 = <<>>
  /\ todo = <<>> /\ step = "idle"
----------------------------------------------------------------------------
\* A call: how much of the buffer is the salt, if it is not the label, the
\* data, and the key that the result is cut for.
Extract(none) == [buffer |-> 0, data |-> secret, for |-> none]
Expand_short(info, for) == [buffer |-> KeyBytes, data |-> info, for |-> for]
Expand(info, for) == [buffer |-> HashBytes, data |-> info, for |-> for]

\* Another connection agrees on a secret.
NewSecret ==
  /\ step = "idle" /\ renewed < Renewals
  /\ secret' \in SharedSecrets /\ havekeys' = FALSE /\ renewed' = renewed + 1
  /\ UNCHANGED <<keys, buffers, todo, step>>

session_genkeys ==
  /\ step = "idle" /\ ~havekeys
  /\ havekeys' = TRUE
  /\ key' = Garbage
  /\ todo' = <<Extract("none"), Expand(ReadInfo, "read"),
               Extract("none"), Expand(WriteInfo, "write")>>
  /\ step' = "pads"
  /\ UNCHANGED <<secret, keys, message1, message2, renewed>>

SaltOf(call) == IF call.buffer > 0 THEN SubSeq(key, 1, call.buffer) ELSE ControlSalt
Pad(pad, salt) ==
  [j \in 1..HmacBlock |-> XorByte(pad, IF j <= Len(salt) THEN salt[j] ELSE ZeroByte)]

Pads ==
  /\ step = "pads" /\ todo # <<>>
  /\ message1' = Pad("36", SaltOf(Head(todo))) \o Head(todo).data
  /\ message2' = Pad("5c", SaltOf(Head(todo))) \o Garbage
  /\ step' = "inner"
  /\ UNCHANGED <<havekeys, secret, keys, key, todo, renewed>>

Inner ==
  /\ step = "inner"
  /\ message2' = SubSeq(message2, 1, HmacBlock) \o sha512(message1)
  /\ step' = "outer"
  /\ UNCHANGED <<havekeys, secret, keys, key, message1, todo, renewed>>

\* The result goes over the salt; a finished key is copied from it.
Outer ==
  /\ step = "outer"
  /\ key' = sha512(message2)
  /\ keys' = IF Head(todo).for = "none" THEN keys
             ELSE [keys EXCEPT ![Head(todo).for] = SubSeq(key', 1, KeyBytes)]
  /\ todo' = Tail(todo)
  /\ step' = IF todo' = <<>> THEN "idle" ELSE "pads"
  /\ UNCHANGED <<havekeys, secret, message1, message2, renewed>>

DerivationNext == NewSecret \/ session_genkeys \/ Pads \/ Inner \/ Outer

DerivationSpec == DerivationInit /\ [][DerivationNext]_derivation
----------------------------------------------------------------------------
\* RFC 2104 and the one round of RFC 5869.
HMAC(k, text) ==
  LET K0 == [j \in 1..HmacBlock |-> IF j <= Len(k) THEN k[j] ELSE ZeroByte]
      Xored(pad) == [j \in 1..HmacBlock |-> <<pad, K0[j]>>]
  IN sha512(Xored("5c") \o sha512(Xored("36") \o text))
HKDF(salt, ikm, info) == HMAC(HMAC(salt, ikm), info)

(***************************************************************************)
(* Keys in use are those HKDF derives from the secret of the connection,   *)
(* each with its own label, though both come out of one buffer and the     *)
(* second half of HKDF writes its result over its own salt                 *)
(* (crypto.c:136-157; session.c:47-60).                                    *)
(***************************************************************************)
DerivesHkdf ==
  havekeys /\ step = "idle" =>
    /\ keys.read = SubSeq(HKDF(ControlSalt, secret, ReadInfo), 1, KeyBytes)
    /\ keys.write = SubSeq(HKDF(ControlSalt, secret, WriteInfo), 1, KeyBytes)
    /\ keys.read # keys.write
=============================================================================
