------------------------------- MODULE MCMpi -------------------------------
(* Instances of MpiRegisters for TLC. *)
EXTENDS MpiRegisters

MCDigits == {-3, 0, 1, 2}
MCMaxLimbs == <<3, 2>>
MCBufs == UNION {[1..n -> 0..(TwoTo[CharBits] - 1)] : n \in 0..3}
=============================================================================
