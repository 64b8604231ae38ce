------------------------------ MODULE ChaCha20 ------------------------------
(***************************************************************************)
(* crypto_core_chacha20 of tweetnacl.c, one quarter of a round per step,   *)
(* on words of four bytes of ByteBits bits.  Four words are taken out into *)
(* t, mixed and put back; which four depends on the half of the round.     *)
(***************************************************************************)
EXTENDS Integers, Sequences, SequencesExt, Bitwise

CONSTANTS ByteBits,      \* 8
          Rotations,     \* <<16, 12, 8, 7>>
          DoubleRounds,  \* 10
          Blocks         \* [in, k, c]: nonce and counter, key, sigma

WordBits == 4 * ByteBits
Word == 2 ^ WordBits

VARIABLES in, k, c,      \* arguments, 16, 32 and 16 bytes
          x,             \* the 16 words
          q,             \* quarters done
          out            \* the 64 bytes

vars == <<in, k, c, x, q, out>>

ld32(bytes, i) ==
  FoldLeft(LAMBDA u, j : u * 2 ^ ByteBits + bytes[i + j], 0, <<4, 3, 2, 1>>)
st32(u) == [j \in 1..4 |-> (u \div 2 ^ (ByteBits * (j - 1))) % 2 ^ ByteBits]
L32(u, n) == ((u * 2 ^ n) % Word) + (u \div 2 ^ (WordBits - n))

\* Where word i comes from; the counter, last in in, goes before the nonce.
Nonce(i) == ld32(in, 4 * ((i - 12 + 2) % 4))
Loaded ==
  [i \in 0..15 |-> IF i < 4 THEN ld32(c, 4 * i)
                   ELSE IF i < 12 THEN ld32(k, 4 * (i - 4))
                   ELSE Nonce(i)]

Init == /\ \E block \in Blocks : in = block.in /\ k = block.k /\ c = block.c
        /\ x = Loaded /\ q = 0 /\ out = <<>>
----------------------------------------------------------------------------
\* t[i] = L32(t[i] ^ (t[j] += t[l]), n)
Mix(t, i, j, l, n) ==
  LET sum == (t[j] + t[l]) % Word
  IN [t EXCEPT ![j] = sum, ![i] = L32(t[i] ^^ sum, Rotations[n])]
Mixed(t) ==
  Mix(Mix(Mix(Mix(t, 3, 0, 1, 1), 1, 2, 3, 2), 3, 0, 1, 3), 1, 2, 3, 4)

\* The quarter of a column or of a diagonal, for m = 0..3.
Column(j, m) == (j + 4 * m) % 16
Diagonal_back(j, m) == (4 * m + ((j + 3 * m) % 4)) % 16
Diagonal(j, m) == (4 * m + ((j + m) % 4)) % 16

Quarter(Index(_, _)) ==
  LET j == q % 4
      t == Mixed([m \in 0..3 |-> x[Index(j, m)]])
  IN x' = [i \in 0..15 |-> IF \E m \in 0..3 : Index(j, m) = i
                           THEN t[CHOOSE m \in 0..3 : Index(j, m) = i] ELSE x[i]]

Columns == /\ q < 8 * DoubleRounds /\ q % 8 < 4
           /\ Quarter(Column) /\ q' = q + 1
           /\ UNCHANGED <<in, k, c, out>>

Diagonals == /\ q < 8 * DoubleRounds /\ q % 8 >= 4
             /\ Quarter(Diagonal) /\ q' = q + 1
             /\ UNCHANGED <<in, k, c, out>>

Store == /\ q = 8 * DoubleRounds /\ out = <<>>
         /\ out' = FlattenSeq([i \in 1..16 |->
                                 st32((x[i - 1] + Loaded[i - 1]) % Word)])
         /\ UNCHANGED <<in, k, c, x, q>>

Next == Columns \/ Diagonals \/ Store

Spec == Init /\ [][Next]_vars
----------------------------------------------------------------------------
\* The block function of RFC 8439 with the 64-bit counter and nonce of its
\* inventor: constants, key, counter, nonce; eight quarter rounds per double
\* round.
LittleEndian(bytes) == [i \in 1..(Len(bytes) \div 4) |-> ld32(bytes, 4 * (i - 1))]
State == LittleEndian(c \o k \o SubSeq(in, 9, 16) \o SubSeq(in, 1, 8))

QuarterRounds ==
  << <<0, 4, 8, 12>>, <<1, 5, 9, 13>>, <<2, 6, 10, 14>>, <<3, 7, 11, 15>>,
     <<0, 5, 10, 15>>, <<1, 6, 11, 12>>, <<2, 7, 8, 13>>, <<3, 4, 9, 14>> >>

QUARTERROUND(w, at) ==
  LET a1 == (w[at[1] + 1] + w[at[2] + 1]) % Word
      d1 == L32(w[at[4] + 1] ^^ a1, Rotations[1])
      c1 == (w[at[3] + 1] + d1) % Word
      b1 == L32(w[at[2] + 1] ^^ c1, Rotations[2])
      a2 == (a1 + b1) % Word
      d2 == L32(d1 ^^ a2, Rotations[3])
      c2 == (c1 + d2) % Word
      b2 == L32(b1 ^^ c2, Rotations[4])
  IN [w EXCEPT ![at[1] + 1] = a2, ![at[2] + 1] = b2, ![at[3] + 1] = c2,
               ![at[4] + 1] = d2]

Rounds == FoldLeft(LAMBDA w, n : QUARTERROUND(w, QuarterRounds[((n - 1) % 8) + 1]),
                   State, [n \in 1..q |-> n])

(***************************************************************************)
(* After every quarter the words are those of ChaCha20, and the block that *)
(* comes out is its keystream, counter and nonce in their places           *)
(* (tweetnacl.c:88-121).                                                   *)
(***************************************************************************)
BlockIsChaCha20 ==
  LET words == Rounds
  IN /\ x = [i \in 0..15 |-> words[i + 1]]
     /\ out # <<>> =>
          LittleEndian(out) = [i \in 1..16 |-> (words[i] + State[i]) % Word]
=============================================================================
