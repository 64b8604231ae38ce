------------------------------- MODULE Powers -------------------------------
(***************************************************************************)
(* Powers as functions on the natural numbers, which can be reasoned about *)
(* by induction.                                                           *)
(***************************************************************************)
EXTENDS Integers

PowersOf(base) ==
  LET power[n \in Nat] == IF n = 0 THEN 1 ELSE base * power[n - 1]
  IN power

TwoTo == PowersOf(2)

\* The k-th digit of a number, from the least significant one, number 0.
Digit(base, number, k) == (number \div PowersOf(base)[k]) % base
=============================================================================
