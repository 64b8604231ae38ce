------------------------------- MODULE MCTlv -------------------------------
(* Instances of Tlv for TLC: every message of up to three values, of types *)
(* that differ from their neighbours', of 0..MaxLength distinct bytes.     *)
EXTENDS Tlv

CONSTANTS MinLength, MaxLength, MaxItems

Value(n, k) == [i \in 1..n |-> 10 * k + i]

MCMessages ==
  {m \in UNION {[1..n -> [type : Types, length : MinLength..MaxLength]]
                  : n \in 1..MaxItems} :
     \A i \in 2..Len(m) : m[i].type # m[i - 1].type}

AllMessages ==
  {[i \in DOMAIN m |-> [type |-> m[i].type, value |-> Value(m[i].length, i)]]
     : m \in MCMessages}
=============================================================================
