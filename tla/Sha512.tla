------------------------------- MODULE Sha512 -------------------------------
(***************************************************************************)
(* crypto_hash_sha512 of tweetnacl.c, a round of crypto_hashblocks_sha512  *)
(* per step.  Only 16 words of the schedule are kept, renewed in place     *)
(* after every 16 rounds.  Words have WordBytes bytes, a block 16 words.   *)
(***************************************************************************)
EXTENDS Integers, Sequences, SequencesExt, Bitwise

CONSTANTS ByteBits,       \* 8
          WordBytes,      \* 8
          Hashed,         \* messages
          NRounds,        \* 80
          K(_), iv,       \* round constants, initial words
          Rot             \* the amounts of Sigma0, Sigma1, sigma0 and sigma1

WordBits == ByteBits * WordBytes
Word == 2 ^ WordBits
Block == 16 * WordBytes

VARIABLES m,              \* the message
          rest,           \* bytes of this call still to be hashed
          w,              \* 16 words of the schedule
          a, z,           \* the working words, and those the block began with
          i,              \* rounds done
          pc

vars == <<m, rest, w, a, z, i, pc>>

dl64(x, at) == FoldLeft(LAMBDA u, j : u * 2 ^ ByteBits + x[at + j], 0,
                        [j \in 1..WordBytes |-> j])
ts64(u) == [j \in 1..WordBytes |->
              (u \div 2 ^ (ByteBits * (WordBytes - j))) % 2 ^ ByteBits]

R(x, n) == (x \div 2 ^ n) + ((x * 2 ^ (WordBits - n)) % Word)
Complement(x) == Word - 1 - x
Ch(x, y, u) == (x & y) ^^ (Complement(x) & u)
Maj(x, y, u) == ((x & y) ^^ (x & u)) ^^ (y & u)
Rotated(x, by) == (R(x, by[1]) ^^ R(x, by[2])) ^^ R(x, by[3])
Shifted(x, by) == (R(x, by[1]) ^^ R(x, by[2])) ^^ (x \div 2 ^ by[3])
Sigma0(x) == Rotated(x, Rot[1])
Sigma1(x) == Rotated(x, Rot[2])
sigma0(x) == Shifted(x, Rot[3])
sigma1(x) == Shifted(x, Rot[4])
----------------------------------------------------------------------------
Init == /\ m \in Hashed /\ rest = m
        /\ z = iv /\ a = iv /\ w = <<>> /\ i = 0 /\ pc = "whole"

Load ==
  /\ pc \in {"whole", "padded"} /\ Len(rest) >= Block /\ w = <<>>
  /\ w' = [j \in 0..15 |-> dl64(rest, j * WordBytes)]
  /\ i' = 0
  /\ UNCHANGED <<m, rest, a, z, pc>>

\* One round on the eight words a[0..7], kept as a[1..8].
Turned(t) ==
  [j \in 1..8 |->
     CASE j = 1 -> (t + Sigma0(a[1]) + Maj(a[1], a[2], a[3])) % Word
       [] j = 5 -> (a[4] + t) % Word
       [] OTHER -> a[j - 1]]

\* w[j] += w[j + 9] + sigma0(w[j + 1]) + sigma1(w[j + 14]), j from 0 up, so
\* that later words see the renewed ones.
Renewed(old) ==
  FoldLeft(LAMBDA v, j : [v EXCEPT ![j] = (@ + v[(j + 9) % 16]
                            + sigma0(v[(j + 1) % 16]) + sigma1(v[(j + 14) % 16])) % Word],
           old, [j \in 1..16 |-> j - 1])

Round ==
  /\ w # <<>> /\ i < NRounds
  /\ a' = Turned((a[8] + Sigma1(a[5]) + Ch(a[5], a[6], a[7]) + K(i) + w[i % 16]) % Word)
  /\ w' = IF i % 16 = 15 THEN Renewed(w) ELSE w
  /\ i' = i + 1
  /\ UNCHANGED <<m, rest, z, pc>>

EndBlock ==
  /\ w # <<>> /\ i = NRounds
  /\ z' = [j \in 1..8 |-> (z[j] + a[j]) % Word] /\ a' = z'
  /\ rest' = SubSeq(rest, Block + 1, Len(rest))
  /\ w' = <<>> /\ i' = 0
  /\ UNCHANGED <<m, pc>>

\* What is left, a one bit, zeros, and the length in bits: the highest three
\* bits of it and a word.
Room_for_word(n) == IF n < Block - WordBytes THEN Block ELSE 2 * Block
Room(n) == IF n < Block - 2 * WordBytes THEN Block ELSE 2 * Block
Padded(x, b) ==
  LET n == Room(Len(x))
      low == ts64((b * 8) % Word)
  IN [j \in 1..n |->
        IF j <= Len(x) THEN x[j]
        ELSE IF j = Len(x) + 1 THEN 2 ^ (ByteBits - 1)
        ELSE IF j = n - WordBytes THEN b \div 2 ^ (WordBits - 3)
        ELSE IF j > n - WordBytes THEN low[j - n + WordBytes] ELSE 0]

Pad ==
  /\ pc = "whole" /\ w = <<>> /\ Len(rest) < Block
  /\ rest' = Padded(rest, Len(m))
  /\ pc' = "padded"
  /\ UNCHANGED <<m, w, a, z, i>>

Return ==
  /\ pc = "padded" /\ w = <<>> /\ rest = <<>>
  /\ pc' = "done"
  /\ UNCHANGED <<m, rest, w, a, z, i>>

Next == Load \/ Round \/ EndBlock \/ Pad \/ Return

Spec == Init /\ [][Next]_vars
----------------------------------------------------------------------------
(***************************************************************************)
(* FIPS 180-4: the message with its padding, as many zeros as fill a block,*)
(* and its length in bits in two words; a schedule of all rounds.          *)
(***************************************************************************)
FipsPadded(x) ==
  LET zeros == (-(Len(x) + 1 + 2 * WordBytes)) % Block
      bits == 8 * Len(x)
  IN x \o <<2 ^ (ByteBits - 1)>> \o [j \in 1..zeros |-> 0]
       \o ts64(bits \div Word) \o ts64(bits % Word)

Schedule(block) ==
  FoldLeft(LAMBDA W, t : Append(W, (sigma1(W[t - 2]) + W[t - 7] + sigma0(W[t - 15])
                                      + W[t - 16]) % Word),
           [j \in 1..16 |-> dl64(block, (j - 1) * WordBytes)],
           [j \in 1..(NRounds - 16) |-> j + 16])

\* The words a..h after the first n rounds.
Working(H, block, n) ==
  LET W == Schedule(block)
      Step(v, t) ==
        LET T1 == v[8] + Sigma1(v[5]) + Ch(v[5], v[6], v[7]) + K(t - 1) + W[t]
            T2 == Sigma0(v[1]) + Maj(v[1], v[2], v[3])
        IN <<(T1 + T2) % Word, v[1], v[2], v[3], (v[4] + T1) % Word, v[5], v[6], v[7]>>
  IN FoldLeft(Step, H, [t \in 1..n |-> t])

Digest(x) ==
  LET padded == FipsPadded(x)
      Compress(H, k) ==
        LET v == Working(H, SubSeq(padded, k * Block + 1, (k + 1) * Block), NRounds)
        IN [j \in 1..8 |-> (H[j] + v[j]) % Word]
  IN FoldLeft(Compress, iv, [k \in 1..(Len(padded) \div Block) |-> k - 1])

(***************************************************************************)
(* What comes out is the digest of FIPS 180-4 for messages of every length *)
(* about a block and the place of the length, and within a block the words *)
(* are those of a schedule that was never folded into 16 words: the renewed*)
(* words take from renewed and from old ones as they must, and the second  *)
(* call goes on from the first (tweetnacl.c:556-623).                      *)
(***************************************************************************)
HashIsSha512 ==
  /\ w # <<>> /\ i % 16 = 0 => a = Working(z, SubSeq(rest, 1, Block), i)
  /\ pc = "padded" /\ w = <<>> /\ rest # <<>> =>
       LET padded == FipsPadded(m)
       IN rest = SubSeq(padded, Len(padded) - Len(rest) + 1, Len(padded))
  /\ pc = "done" => z = Digest(m)
=============================================================================
