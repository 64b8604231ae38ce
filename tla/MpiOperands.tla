---------------------------- MODULE MpiOperands ----------------------------
(***************************************************************************)
(* The operands A and B that mpi_mod_mpi and mpi_montmul of bignum.c work  *)
(* on, and how far the one that runs has got.                              *)
(***************************************************************************)
EXTENDS Mpi

VARIABLES pc, A, B
=============================================================================
