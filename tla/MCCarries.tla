----------------------------- MODULE MCCarries -----------------------------
(***************************************************************************)
(* The arithmetic that everything else is built on, for TLC, one of five   *)
(* tasks per behaviour: mpi_mul_hlp with the kernels of bn_mul.h, and of   *)
(* tweetnacl.c Poly1305, chains of field operations, a block of ChaCha20   *)
(* and SHA-512.  A variable that no task of the behaviour has is 0.        *)
(***************************************************************************)
EXTENDS MulKernels

VARIABLES task,
          r, m, n, h, out,          \* Poly1305, with s
          o, residue, length,       \* FieldChain
          in, k, x, q,              \* ChaCha20, with c and out
          rest, w, a, z, i          \* Sha512, with m and pc

MCKernels ==
  {"i386", "sse2", "amd64", "m68k", "ppc", "sparc", "microblaze", "tricore",
   "thumb", "arm", "alpha", "mips", "msvc", "msvc_sse2", "udbl", "generic"}

\* Limbs, and two above them for the carry.
Sums(l, ss, ds, bs) ==
  [s : [1..l -> ss], b : bs, d : {p \o <<above, 0>> : p \in [1..l -> ds], above \in {0, 15}}]
MCCalls ==
  Sums(1, {0, 1, 9, 15}, {0, 1, 9, 15}, 0..15)
    \cup Sums(2, {1, 9, 15}, {0, 9, 15}, {1, 9, 15})
    \cup Sums(3, {0, 15}, {0, 15}, {9, 15})
    \cup Sums(4, {15}, {0, 15}, {15}) \cup Sums(5, {15}, {0, 15}, {7, 15})

\* Messages of less than a block, of one, and of two or three.
Poly == INSTANCE Poly1305 WITH
  PolyBytes <- 3, PolyBits <- 3, Rs <- [1..3 -> {0, 2, 7}],
  Ss <- {<<7, 7, 7>>, <<3, 5, 0>>},
  Messages <- [1..2 -> {0, 7}] \cup [1..3 -> {0, 3, 7}] \cup [1..4 -> {0, 7}]
                \cup {[j \in 1..7 |-> IF j \in ones THEN 7 ELSE 6] :
                        ones \in SUBSET {1, 3, 4, 7}}

Chain == INSTANCE FieldChain WITH
  GfLimbs <- 3, GfBits <- 6, Depth <- 3,
  Operands <- {0, 1, 18, 2 ^ 17 - 20, 2 ^ 18 - 1, 2 ^ 17 - 1, 64 * 63}

Argument(bytes, step, first) == [j \in 1..bytes |-> (first + step * j) % 4]
ChaCha == INSTANCE ChaCha20 WITH
  ByteBits <- 2, Rotations <- <<4, 3, 2, 1>>, DoubleRounds <- 3,
  Blocks <- {[in |-> Argument(16, p, f), k |-> Argument(32, p + f, 1),
              c |-> Argument(16, 1, f)] : p \in 0..2, f \in {0, 1, 3}}

Round(j) == ((37 * j) + 11) % 256
Hash == INSTANCE Sha512 WITH
  ByteBits <- 4, WordBytes <- 2, NRounds <- 32, K <- Round,
  iv <- <<7, 103, 60, 165, 81, 31, 91, 224>>,
  Rot <- <<<<2, 3, 7>>, <<1, 4, 5>>, <<1, 6, 3>>, <<5, 3, 2>>>>,
  Hashed <- {[j \in 1..l |-> ((5 * j) + (j \div 3)) % 16] :
               l \in {0, 5, 27, 28, 29, 31, 32, 40, 60, 64}}
----------------------------------------------------------------------------
noKernel == <<kernel, b, d, d0, at, strayed>>
noPoly == <<r, n, h>>
noChain == <<o, residue, length>>
noChaCha == <<in, k, x, q>>
noHash == <<rest, w, a, z, i>>

NoKernel == kernel = 0 /\ b = 0 /\ d = 0 /\ d0 = 0 /\ at = 0 /\ strayed = 0
NoPoly == r = 0 /\ n = 0 /\ h = 0
NoChain == o = 0 /\ residue = 0 /\ length = 0
NoChaCha == in = 0 /\ k = 0 /\ x = 0 /\ q = 0
NoHash == rest = 0 /\ w = 0 /\ a = 0 /\ z = 0 /\ i = 0

MCInit ==
  \/ /\ task = "kernel" /\ Init /\ NoPoly /\ NoChain /\ NoChaCha /\ NoHash
     /\ m = 0 /\ out = 0
  \/ /\ task = "poly1305" /\ Poly!Init /\ NoKernel /\ NoChain /\ NoChaCha /\ NoHash
     /\ c = 0 /\ pc = 0
  \/ /\ task = "chain" /\ Chain!Init /\ NoKernel /\ NoPoly /\ NoChaCha /\ NoHash
     /\ s = 0 /\ c = 0 /\ pc = 0 /\ m = 0 /\ out = 0
  \/ /\ task = "chacha20" /\ ChaCha!Init /\ NoKernel /\ NoPoly /\ NoChain /\ NoHash
     /\ s = 0 /\ pc = 0 /\ m = 0
  \/ /\ task = "sha512" /\ Hash!Init /\ NoKernel /\ NoPoly /\ NoChain /\ NoChaCha
     /\ s = 0 /\ c = 0 /\ out = 0

Multiplies == /\ task = "kernel" /\ Next
              /\ UNCHANGED <<noPoly, noChain, noChaCha, noHash, m, out>>
Authenticates == /\ task = "poly1305" /\ Poly!Next
                 /\ UNCHANGED <<noKernel, noChain, noChaCha, noHash, c, pc>>
Computes == /\ task = "chain" /\ Chain!Next
            /\ UNCHANGED <<noKernel, noPoly, noChaCha, noHash, s, c, pc, m, out>>
Encrypts == /\ task = "chacha20" /\ ChaCha!Next
            /\ UNCHANGED <<noKernel, noPoly, noChain, noHash, s, pc, m>>
Hashes == /\ task = "sha512" /\ Hash!Next
          /\ UNCHANGED <<noKernel, noPoly, noChain, noChaCha, s, c, out>>

MCvars == <<task, vars, noPoly, noChain, noChaCha, noHash, m, out>>
MCNext == /\ task' = task
          /\ Multiplies \/ Authenticates \/ Computes \/ Encrypts \/ Hashes
MCSpec == MCInit /\ [][MCNext]_MCvars
----------------------------------------------------------------------------
\* MulKernels: d and c always hold d + s * b for the limbs done, and a carry is
\* passed on until it is gone (bn_mul.h; bignum.c:1083-1142).
MCKernelsMultiply == task = "kernel" => KernelsMultiply

\* Poly1305: after every block h is the polynomial in limbs that fit, and the
\* tag is its residue plus s (tweetnacl.c:176-217).
TagIsPoly1305 == task = "poly1305" => Poly!TagIsPoly1305

\* FieldChain: a gf stands for the right residue however it was made, and packs
\* to the one encoding of it (tweetnacl.c:237-442).
FieldKeepsResidue == task = "chain" => Chain!FieldKeepsResidue

\* ChaCha20: after every quarter the words are those of ChaCha20, and so is the
\* block (tweetnacl.c:88-121).
BlockIsChaCha20 == task = "chacha20" => ChaCha!BlockIsChaCha20

\* Sha512: the digest of FIPS 180-4 at every length about a block, with a
\* schedule that is folded into 16 words (tweetnacl.c:556-623).
HashIsSha512 == task = "sha512" => Hash!HashIsSha512
=============================================================================
