----------------------------- MODULE MCSession -----------------------------
(***************************************************************************)
(* The record layer for TLC, one of three views of it per behaviour: the   *)
(* connections of Session, the bytes of the records of one key (Aead), and *)
(* the derivation of the keys (KeyDerivation).                             *)
(***************************************************************************)
EXTENDS Session, Aead, KeyDerivation

VARIABLE view

Text(name) == <<<<name, 1>>, <<name, 2>>>>
MCSymbols == {"first", "second", "salt", "read", "write"} \X (1..3)
MCSharedSecrets == {Text("first"), Text("second")}
MCControlSalt == Text("salt")
MCReadInfo == Text("read")
MCWriteInfo == Append(Text("write"), <<"write", 3>>)

MCInit ==
  /\ Init /\ RecordsInit /\ DerivationInit
  /\ view \in {"connections", "bytes", "keys"}
  /\ view # "keys" => secret = Text("first")

Connections == view = "connections" /\ Next /\ UNCHANGED <<records, derivation>>
Bytes == view = "bytes" /\ RecordsNext /\ UNCHANGED <<vars, derivation>>
Keys == view = "keys" /\ DerivationNext /\ UNCHANGED <<vars, records>>
MCNext == view' = view /\ (Connections \/ Bytes \/ Keys)
MCSpec == MCInit /\ [][MCNext]_<<view, vars, records, derivation>>
=============================================================================
