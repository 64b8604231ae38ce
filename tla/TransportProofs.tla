-------------------------- MODULE TransportProofs --------------------------
(***************************************************************************)
(* Theorems about the bytes of records and of keys and about the sessions  *)
(* that use them.  Aead, for every size of bytes, blocks, counters, nonces *)
(* and authenticators: no byte of the keystream is used twice, and what is *)
(* opened is what was sealed.  KeyDerivation, for every set of secrets,    *)
(* every pair of labels and every size of hashes, blocks and keys: what    *)
(* the buffer holds whenever it is used as a salt or cut into a key.       *)
(* Session, for every set of secrets and lengths, every size of nonces and *)
(* every bound on the records: which key seals and opens, and that the     *)
(* nonces of both ends agree.                                              *)
(***************************************************************************)
EXTENDS Session, Aead, KeyDerivation, Lemmas

----------------------------------------------------------------------------
(* The block counter and the nonce count. *)

LEMMA CounterCounts ==
  ASSUME NEW c \in Nat
  PROVE  Counted(LittleEndian(c, CounterBytes)) = LittleEndian(c + 1, CounterBytes)
<1> DEFINE z == LittleEndian(c, CounterBytes)
           High(j) == AllHigh(Base, c, j)
           Is(f) == f = [j \in 0..CounterBytes |->
                           IF j = 0 THEN 1 ELSE (z[j] + f[j - 1]) \div Base]
           u == CHOOSE f : Is(f)
           v == [j \in 0..CounterBytes |-> IF High(j) THEN 1 ELSE 0]
<1>1. Base \in Nat /\ Base >= 2 /\ CounterBytes \in Nat
  BY AeadAssumption
<1>2. ASSUME NEW j \in 1..CounterBytes
      PROVE  /\ z[j] = Digit(Base, c, j - 1) /\ z[j] \in 0..(Base - 1)
             /\ High(j) <=> High(j - 1) /\ z[j] = Base - 1
             /\ (IF High(j - 1) THEN (z[j] + 1) % Base ELSE z[j])
                  = Digit(Base, c + 1, j - 1)
  <2>1. j - 1 \in Nat /\ j \in 1..CounterBytes
    BY <1>1
  <2>2. z[j] = Digit(Base, c, j - 1) /\ z[j] \in 0..(Base - 1)
    <3>1. z[j] = Digit(Base, c, j - 1)
      BY DEF LittleEndian
    <3>2. Base \in Nat \ {0} /\ j - 1 \in Nat
      BY <1>1, <2>1
    <3>3. Digit(Base, c, j - 1) \in 0..(Base - 1)
      BY <3>2, DigitIsSmall
    <3> QED BY <3>1, <3>3
  <2>3. 0..(j - 1) = 0..((j - 1) - 1) \cup {j - 1}
    BY <1>1
  <2>4. High(j) <=> High(j - 1) /\ Digit(Base, c, j - 1) = Base - 1
    BY <2>3 DEF AllHigh
  <2>5. Digit(Base, c + 1, j - 1) =
          IF High(j - 1) THEN (Digit(Base, c, j - 1) + 1) % Base
          ELSE Digit(Base, c, j - 1)
    BY <1>1, <2>1, NextDigit
  <2> QED BY <2>2, <2>4, <2>5
<1>3. High(0)
  BY DEF AllHigh
<1> HIDE DEF High, z
<1>4. ASSUME NEW x \in 0..(Base - 1)
      PROVE  /\ (x + 1) \div Base = IF x = Base - 1 THEN 1 ELSE 0
             /\ (x + 0) \div Base = 0 /\ x % Base = x
  BY <1>1
<1>5. Is(v)
  <2>1. ASSUME NEW j \in 1..CounterBytes
        PROVE  (IF High(j) THEN 1 ELSE 0) = (z[j] + v[j - 1]) \div Base
    <3>1. j - 1 \in 0..CounterBytes
      BY <1>1
    <3>2. v[j - 1] = IF High(j - 1) THEN 1 ELSE 0
      BY <3>1
    <3> QED BY <1>2, <1>4, <3>2
  <2> QED BY <1>1, <1>3, <2>1
<1>6. Is(u)
  <2> HIDE DEF Is, v
  <2> QED BY <1>5
<1>7. ASSUME NEW j \in 0..CounterBytes  PROVE u[j] = v[j]
  <2> DEFINE S == {k \in Nat : k <= CounterBytes => u[k] = v[k]}
  <2>1. 0 \in S
    <3>1. 0 \in 0..CounterBytes
      BY <1>1
    <3>2. u[0] = 1
      <4> HIDE DEF u
      <4> QED BY <1>6, <3>1
    <3>3. v[0] = 1
      BY <1>3, <3>1
    <3> QED BY <3>2, <3>3
  <2>2. ASSUME NEW k \in Nat, k \in S  PROVE k + 1 \in S
    <3>1. SUFFICES ASSUME k + 1 <= CounterBytes  PROVE u[k + 1] = v[k + 1]
      OBVIOUS
    <3>2. /\ k + 1 \in 0..CounterBytes /\ k + 1 # 0 /\ (k + 1) - 1 = k
          /\ u[k] = v[k]
      BY <1>1, <2>2, <3>1
    <3>3. u[k + 1] = (z[k + 1] + u[k]) \div Base
      <4> HIDE DEF u
      <4> QED BY <1>6, <3>2
    <3>4. v[k + 1] = (z[k + 1] + v[k]) \div Base
      <4> HIDE DEF v
      <4> QED BY <1>5, <3>2
    <3> QED BY <3>2, <3>3, <3>4
  <2>3. Nat \subseteq S
    <3> HIDE DEF S
    <3> QED BY <2>1, <2>2, Induction
  <2> HIDE DEF u, v
  <2> QED BY <1>1, <2>3
<1>8. ASSUME NEW j \in 1..CounterBytes
      PROVE  (z[j] + u[j - 1]) % Base = Digit(Base, c + 1, j - 1)
  <2>1. j - 1 \in 0..CounterBytes
    BY <1>1
  <2>2. u[j - 1] = IF High(j - 1) THEN 1 ELSE 0
    BY <1>7, <2>1
  <2> HIDE DEF u
  <2> QED BY <1>2, <1>4, <2>2
<1>9. Counted(z) = [j \in 1..CounterBytes |-> (z[j] + u[j - 1]) % Base]
  BY DEF Counted
<1>10. Counted(z) = LittleEndian(c + 1, CounterBytes)
  <2> HIDE DEF u
  <2> QED BY <1>8, <1>9 DEF LittleEndian
<1> QED BY <1>10 DEF z

LEMMA NonceCounts ==
  ASSUME NEW c \in Nat
  PROVE  NextNonce(LittleEndian(c, IvBytes)) = LittleEndian(c + 1, IvBytes)
<1> DEFINE nonce == LittleEndian(c, IvBytes)
<1>1. Base \in Nat /\ Base >= 2 /\ IvBytes \in Nat
  BY AeadAssumption
<1>2. \A j \in 1..IvBytes : nonce[j] = Digit(Base, c, j - 1)
  BY DEF LittleEndian
<1> HIDE DEF nonce
<1>3. ASSUME NEW j \in 1..IvBytes
      PROVE  (IF \A l \in 1..(j - 1) : nonce[l] = Base - 1
              THEN (nonce[j] + 1) % Base ELSE nonce[j]) = Digit(Base, c + 1, j - 1)
  <2>1. j - 1 \in Nat /\ \A l \in 1..(j - 1) : l \in 1..IvBytes
    BY <1>1
  <2>2. ASSUME \A l \in 1..(j - 1) : nonce[l] = Base - 1, NEW k \in 0..((j - 1) - 1)
        PROVE  Digit(Base, c, k) = Base - 1
    <3>1. k + 1 \in 1..(j - 1) /\ k + 1 \in 1..IvBytes /\ (k + 1) - 1 = k
      BY <1>1
    <3> QED BY <1>2, <2>2, <3>1
  <2>3. ASSUME AllHigh(Base, c, j - 1), NEW l \in 1..(j - 1)
        PROVE  nonce[l] = Base - 1
    <3>1. l - 1 \in 0..((j - 1) - 1) /\ l \in 1..IvBytes
      BY <1>1
    <3> QED BY <1>2, <2>3, <3>1 DEF AllHigh
  <2>4. (\A l \in 1..(j - 1) : nonce[l] = Base - 1) <=> AllHigh(Base, c, j - 1)
    BY <2>2, <2>3 DEF AllHigh
  <2>5. Digit(Base, c + 1, j - 1) =
          IF AllHigh(Base, c, j - 1) THEN (Digit(Base, c, j - 1) + 1) % Base
          ELSE Digit(Base, c, j - 1)
    BY <1>1, <2>1, NextDigit
  <2> QED BY <1>2, <2>4, <2>5
<1>4. NextNonce(nonce) = LittleEndian(c + 1, IvBytes)
  BY <1>3 DEF NextNonce, LittleEndian
<1> QED BY <1>4 DEF nonce

\* Numbers that fit are told apart by their bytes.
LEMMA BytesDetermine ==
  ASSUME NEW bytes \in Nat, NEW m \in Nat, NEW n \in Nat,
         m < PowersOf(Base)[bytes], n < PowersOf(Base)[bytes],
         LittleEndian(m, bytes) = LittleEndian(n, bytes)
  PROVE  m = n
<1>1. Base \in Nat \ {0}
  BY AeadAssumption
<1>2. ASSUME NEW j \in 0..(bytes - 1)  PROVE Digit(Base, m, j) = Digit(Base, n, j)
  <2>1. j + 1 \in 1..bytes /\ (j + 1) - 1 = j
    OBVIOUS
  <2>2. LittleEndian(m, bytes)[j + 1] = LittleEndian(n, bytes)[j + 1]
    OBVIOUS
  <2> QED BY <2>1, <2>2 DEF LittleEndian
<1>3. m % PowersOf(Base)[bytes] = n % PowersOf(Base)[bytes]
  BY <1>1, <1>2, DigitsDetermine DEF SameDigits
<1>4. ASSUME NEW p \in Nat, NEW x \in Nat, x < p  PROVE x % p = x
  BY <1>4
<1>5. PowersOf(Base)[bytes] \in Nat
  BY <1>1, PowerAt
<1> QED BY <1>3, <1>4, <1>5

\* The counter of the blocks starts at 0 or at 1.
LEMMA FirstCounter ==
  ASSUME NEW v \in {0, 1}
  PROVE  [j \in 1..CounterBytes |-> IF j = 1 THEN v ELSE 0] = LittleEndian(v, CounterBytes)
<1>1. Base \in Nat /\ Base >= 2 /\ CounterBytes \in Nat
  BY AeadAssumption
<1>2. ASSUME NEW j \in 1..CounterBytes
      PROVE  Digit(Base, v, j - 1) = IF j = 1 THEN v ELSE 0
  <2> DEFINE p == PowersOf(Base)[j - 1]
  <2>1. CASE j = 1
    <3>1. p = 1
      BY <1>1, <2>1, PowersAreDefined
    <3>2. (v \div 1) % Base = v
      BY <1>1
    <3> QED BY <2>1, <3>1, <3>2 DEF Digit
  <2>2. CASE j # 1
    <3>1. j - 2 \in Nat /\ (j - 2) + 1 = j - 1
      BY <1>1, <2>2
    <3>2. PowersOf(Base)[j - 2] \in Nat \ {0} /\ p = Base * PowersOf(Base)[j - 2]
      BY <1>1, <3>1, PowerAt
    <3>3. ASSUME NEW q \in Nat \ {0}  PROVE Base * q \in Nat /\ Base * q >= 2
      BY <1>1
    <3>4. p \in Nat /\ p >= 2
      BY <3>2, <3>3
    <3> HIDE DEF p
    <3>5. v \div p = 0
      BY <3>4
    <3>6. 0 % Base = 0
      BY <1>1
    <3> QED BY <2>2, <3>5, <3>6 DEF Digit, p
  <2> QED BY <2>1, <2>2
<1> QED BY <1>2 DEF LittleEndian
----------------------------------------------------------------------------
(* The keystream. *)

\* Byte i of what the nonce n and the counter of a block are encrypted to.
KeyByte(n, counter, i) ==
  {<<"key", n, LittleEndian(counter, CounterBytes), i % Block>>}

LEMMA Blocks ==
  ASSUME NEW last \in Nat, NEW v \in {0, 1}, NEW z,
         z = [q \in 0..last |->
                IF q = 0 THEN [j \in 1..CounterBytes |-> IF j = 1 THEN v ELSE 0]
                ELSE Counted(z[q - 1])]
  PROVE  \A q \in 0..last : z[q] = LittleEndian(v + q, CounterBytes)
<1> DEFINE LE(c) == LittleEndian(c, CounterBytes)
           S == {k \in Nat : k <= last => z[k] = LE(v + k)}
<1>1. z[0] = LE(v)
  BY FirstCounter
<1>2. ASSUME NEW k \in Nat, k + 1 <= last  PROVE z[k + 1] = Counted(z[k])
  <2>1. k + 1 \in 0..last /\ k + 1 # 0 /\ (k + 1) - 1 = k
    BY <1>2
  <2> QED BY <2>1
<1>3. ASSUME NEW c \in Nat  PROVE Counted(LE(c)) = LE(c + 1)
  BY CounterCounts
<1> HIDE DEF LE
<1>4. 0 \in S
  BY <1>1
<1>5. ASSUME NEW k \in Nat, k \in S  PROVE k + 1 \in S
  <2>1. SUFFICES ASSUME k + 1 <= last  PROVE z[k + 1] = LE(v + (k + 1))
    OBVIOUS
  <2>2. z[k] = LE(v + k) /\ v + k \in Nat /\ (v + k) + 1 = v + (k + 1)
    BY <1>5, <2>1
  <2>3. z[k + 1] = Counted(LE(v + k))
    BY <1>2, <2>1, <2>2
  <2>4. Counted(LE(v + k)) = LE((v + k) + 1)
    BY <1>3, <2>2
  <2> QED BY <2>2, <2>3, <2>4
<1>6. Nat \subseteq S
  <2> HIDE DEF S
  <2> QED BY <1>4, <1>5, Induction
<1>7. ASSUME NEW q \in 0..last  PROVE z[q] = LE(v + q)
  <2>1. q \in S
    <3>1. q \in Nat
      OBVIOUS
    <3> HIDE DEF S
    <3> QED BY <1>6, <3>1
  <2> QED BY <2>1
<1> QED BY <1>7 DEF LE

LEMMA Streams ==
  ASSUME NEW m, IsSeq(m), NEW n, NEW v \in {0, 1}
  PROVE  /\ IsSeq(Stream(m, n, v)) /\ Len(Stream(m, n, v)) = Len(m)
         /\ \A i \in 1..Len(m) :
              Stream(m, n, v)[i] = Xor(m[i], KeyByte(n, v + (i - 1) \div Block, i - 1))
<1> DEFINE last == Len(m) \div Block
           First == [j \in 1..CounterBytes |-> IF j = 1 THEN v ELSE 0]
           Is(f) == f = [q \in 0..last |-> IF q = 0 THEN First ELSE Counted(f[q - 1])]
           z == CHOOSE f : Is(f)
           g == [q \in 0..last |-> LittleEndian(v + q, CounterBytes)]
<1>1. Block \in Nat \ {0} /\ Len(m) \in Nat /\ DOMAIN m = 1..Len(m)
  BY AeadAssumption, Elements
<1>2. last \in Nat
  BY <1>1
<1>3. ASSUME NEW i \in 1..Len(m)  PROVE (i - 1) \div Block \in 0..last
  BY <1>1
<1> HIDE DEF last
<1>4. Is(g)
  <2>1. ASSUME NEW q \in 0..last
        PROVE  LittleEndian(v + q, CounterBytes) = IF q = 0 THEN First ELSE Counted(g[q - 1])
    <3>1. CASE q = 0
      BY <3>1, FirstCounter
    <3>2. CASE q # 0
      <4>1. q - 1 \in 0..last /\ v + (q - 1) \in Nat /\ (v + (q - 1)) + 1 = v + q
        BY <1>2, <3>2
      <4>2. g[q - 1] = LittleEndian(v + (q - 1), CounterBytes)
        BY <4>1
      <4>3. Counted(LittleEndian(v + (q - 1), CounterBytes))
              = LittleEndian((v + (q - 1)) + 1, CounterBytes)
        BY <4>1, CounterCounts
      <4> QED BY <3>2, <4>1, <4>2, <4>3
    <3> QED BY <3>1, <3>2
  <2> HIDE DEF First
  <2> QED BY <2>1
<1>5. Is(z)
  <2> HIDE DEF Is, g
  <2> QED BY <1>4
<1>6. \A q \in 0..last : z[q] = LittleEndian(v + q, CounterBytes)
  <2>1. z = [q \in 0..last |-> IF q = 0 THEN First ELSE Counted(z[q - 1])]
    BY <1>5
  <2> HIDE DEF z
  <2> QED BY <1>2, <2>1, Blocks
<1>7. Stream(m, n, v) =
        [i \in DOMAIN m |-> Xor(m[i], {<<"key", n, z[(i - 1) \div Block], (i - 1) % Block>>})]
  BY DEF Stream, last
<1> HIDE DEF z
<1>8. ASSUME NEW i \in 1..Len(m)
      PROVE  Stream(m, n, v)[i] = Xor(m[i], KeyByte(n, v + (i - 1) \div Block, i - 1))
  BY <1>1, <1>3, <1>6, <1>7 DEF KeyByte
<1>9. Stream(m, n, v) = [i \in 1..Len(m) |-> Stream(m, n, v)[i]]
  BY <1>1, <1>7
<1> QED BY <1>1, <1>8, <1>9, Tabulated

\* Bytes of the keystream are told apart by record, block and place.
LEMMA KeyBytesDiffer ==
  ASSUME NEW n \in Nat, n < PowersOf(Base)[IvBytes],
         NEW n2 \in Nat, n2 < PowersOf(Base)[IvBytes],
         NEW i \in Nat, NEW c \in Nat, c + i \div Block < PowersOf(Base)[CounterBytes],
         NEW i2 \in Nat, NEW c2 \in Nat, c2 + i2 \div Block < PowersOf(Base)[CounterBytes],
         KeyByte(LittleEndian(n, IvBytes), c + i \div Block, i)
           = KeyByte(LittleEndian(n2, IvBytes), c2 + i2 \div Block, i2)
  PROVE  n = n2 /\ c + i \div Block = c2 + i2 \div Block /\ (c = c2 => i = i2)
<1>1. Block \in Nat \ {0} /\ IvBytes \in Nat /\ CounterBytes \in Nat
  BY AeadAssumption
<1> DEFINE q == i \div Block
           q2 == i2 \div Block
<1>2. /\ q \in Nat /\ i % Block \in 0..(Block - 1) /\ i = Block * q + (i % Block)
      /\ q2 \in Nat /\ i2 % Block \in 0..(Block - 1) /\ i2 = Block * q2 + (i2 % Block)
  <2>1. ASSUME NEW x \in Nat
        PROVE  /\ x \div Block \in Nat /\ x % Block \in 0..(Block - 1)
               /\ x = Block * (x \div Block) + (x % Block)
    <3>1. x \in Int /\ x >= 0
      OBVIOUS
    <3>2. /\ x \div Block \in Int /\ x % Block \in 0..(Block - 1)
          /\ x = Block * (x \div Block) + (x % Block)
          /\ x >= 0 => x \div Block >= 0
      BY <1>1, <3>1, QuotientRemainder
    <3> QED BY <3>1, <3>2
  <2> QED BY <2>1
<1>3. /\ LittleEndian(n, IvBytes) = LittleEndian(n2, IvBytes)
      /\ LittleEndian(c + q, CounterBytes) = LittleEndian(c2 + q2, CounterBytes)
      /\ i % Block = i2 % Block
  <2>1. {<<"key", LittleEndian(n, IvBytes), LittleEndian(c + q, CounterBytes), i % Block>>}
          = {<<"key", LittleEndian(n2, IvBytes), LittleEndian(c2 + q2, CounterBytes), i2 % Block>>}
    BY DEF KeyByte
  <2> DEFINE a == LittleEndian(n, IvBytes)
             b == LittleEndian(c + q, CounterBytes)
             d == i % Block
             a2 == LittleEndian(n2, IvBytes)
             b2 == LittleEndian(c2 + q2, CounterBytes)
             d2 == i2 % Block
  <2>2. {<<"key", a, b, d>>} = {<<"key", a2, b2, d2>>}
    BY <2>1
  <2> HIDE DEF a, b, d, a2, b2, d2
  <2>3. <<"key", a, b, d>> = <<"key", a2, b2, d2>>
    BY <2>2
  <2>4. a = a2 /\ b = b2 /\ d = d2
    BY <2>3
  <2> QED BY <2>4 DEF a, b, d, a2, b2, d2
<1> HIDE DEF q, q2
<1>4. n = n2
  BY <1>1, <1>3, BytesDetermine
<1>5. c + q \in Nat /\ c2 + q2 \in Nat
  BY <1>2
<1>6. c + q = c2 + q2
  BY <1>1, <1>3, <1>5, BytesDetermine DEF q, q2
<1>7. c = c2 => q = q2
  BY <1>2, <1>6
<1>8. c = c2 => i = i2
  BY <1>2, <1>3, <1>7
<1> QED BY <1>4, <1>6, <1>8 DEF q, q2
----------------------------------------------------------------------------
(* Exclusive or, and what records are made of. *)

LEMMA XorFacts ==
  ASSUME NEW x, NEW y
  PROVE  Xor(Xor(x, y), x) = y /\ Xor(Xor(x, y), y) = x /\ Xor({}, y) = y
<1>1. ASSUME NEW e
      PROVE  /\ e \in Xor(Xor(x, y), x) <=> e \in y
             /\ e \in Xor(Xor(x, y), y) <=> e \in x
             /\ e \in Xor({}, y) <=> e \in y
  BY DEF Xor
<1> QED BY <1>1

Nonce(r) == LittleEndian(r - 1, IvBytes)
TextOf(r, length) == [i \in 1..length |-> {<<"text", r, i>>}]
Cipher(r, length) == Stream(TextOf(r, length), Nonce(r), 1)
Mac(n, cipher) == poly1305(Message(cipher, Len(cipher)), polykey(n))

LEMMA Plains ==
  ASSUME NEW r, NEW length \in Nat
  PROVE  /\ IsSeq(TextOf(r, length)) /\ Len(TextOf(r, length)) = length
         /\ \A i \in 1..length : TextOf(r, length)[i] = {<<"text", r, i>>}
<1>1. TextOf(r, length) = [i \in 1..length |-> TextOf(r, length)[i]]
  BY DEF TextOf
<1>2. \A i \in 1..length : TextOf(r, length)[i] = {<<"text", r, i>>}
  BY DEF TextOf
<1> QED BY <1>1, <1>2, Tabulated

LEMMA Ciphers ==
  ASSUME NEW r, NEW length \in Nat
  PROVE  /\ IsSeq(Cipher(r, length)) /\ Len(Cipher(r, length)) = length
         /\ \A i \in 1..length :
              Cipher(r, length)[i] =
                Xor({<<"text", r, i>>}, KeyByte(Nonce(r), 1 + (i - 1) \div Block, i - 1))
<1> DEFINE m == TextOf(r, length)
<1>1. IsSeq(m) /\ Len(m) = length /\ \A i \in 1..length : m[i] = {<<"text", r, i>>}
  BY Plains
<1> HIDE DEF m
<1>2. /\ IsSeq(Stream(m, Nonce(r), 1)) /\ Len(Stream(m, Nonce(r), 1)) = Len(m)
      /\ \A i \in 1..Len(m) :
           Stream(m, Nonce(r), 1)[i]
             = Xor(m[i], KeyByte(Nonce(r), 1 + (i - 1) \div Block, i - 1))
  BY <1>1, Streams
<1> QED BY <1>1, <1>2 DEF Cipher, m

LEMMA Macs ==
  ASSUME NEW message, NEW k
  PROVE  /\ IsSeq(poly1305(message, k)) /\ Len(poly1305(message, k)) = MacBytes
         /\ \A j \in 1..MacBytes : poly1305(message, k)[j] = {<<"mac", message, k, j>>}
<1>1. poly1305(message, k) = [j \in 1..MacBytes |-> poly1305(message, k)[j]]
  BY DEF poly1305
<1>2. \A j \in 1..MacBytes : poly1305(message, k)[j] = {<<"mac", message, k, j>>}
  BY DEF poly1305
<1>3. MacBytes \in Nat
  BY AeadAssumption
<1> QED BY <1>1, <1>2, <1>3, Tabulated

LEMMA RecordsAre ==
  ASSUME NEW r, NEW length \in Nat
  PROVE  LET record == encryptAndSeal(Nonce(r), TextOf(r, length))
         IN /\ record = Cipher(r, length) \o Mac(Nonce(r), Cipher(r, length))
            /\ IsSeq(record) /\ Len(record) = length + MacBytes
            /\ \A i \in 1..length : record[i] = Cipher(r, length)[i]
            /\ \A j \in 1..MacBytes : record[length + j] = Mac(Nonce(r), Cipher(r, length))[j]
<1> DEFINE cipher == Cipher(r, length)
           mac == Mac(Nonce(r), cipher)
           record == encryptAndSeal(Nonce(r), TextOf(r, length))
<1>1. IsSeq(cipher) /\ Len(cipher) = length
  BY Ciphers
<1>2. IsSeq(mac) /\ Len(mac) = MacBytes
  BY Macs DEF Mac
<1>3. record = cipher \o mac
  BY <1>1, Plains DEF encryptAndSeal, Cipher, Mac
<1> HIDE DEF cipher, mac, record
<1>4. /\ IsSeq(cipher \o mac) /\ Len(cipher \o mac) = Len(cipher) + Len(mac)
      /\ \A j \in 1..Len(cipher) : (cipher \o mac)[j] = cipher[j]
      /\ \A j \in 1..Len(mac) : (cipher \o mac)[Len(cipher) + j] = mac[j]
  BY <1>1, <1>2, Concatenated
<1>5. /\ record = cipher \o mac /\ IsSeq(record) /\ Len(record) = length + MacBytes
      /\ \A i \in 1..length : record[i] = cipher[i]
      /\ \A j \in 1..MacBytes : record[length + j] = mac[j]
  BY <1>1, <1>2, <1>3, <1>4
<1> QED BY <1>5 DEF cipher, mac, record

LEMMA PolyKeys ==
  ASSUME NEW n
  PROVE  /\ IsSeq(polykey(n)) /\ Len(polykey(n)) = Block
         /\ \A i \in 1..Block : polykey(n)[i] = KeyByte(n, 0, i - 1)
<1>1. Block \in Nat \ {0}
  BY AeadAssumption
<1> DEFINE m == Zeros(Block)
<1>2. m = [j \in 1..Block |-> m[j]] /\ \A i \in 1..Block : m[i] = {}
  BY DEF Zeros
<1>3. IsSeq(m) /\ Len(m) = Block
  BY <1>1, <1>2, Tabulated
<1> HIDE DEF m
<1>4. /\ IsSeq(Stream(m, n, 0)) /\ Len(Stream(m, n, 0)) = Len(m)
      /\ \A i \in 1..Len(m) :
           Stream(m, n, 0)[i] = Xor(m[i], KeyByte(n, 0 + (i - 1) \div Block, i - 1))
  BY <1>3, Streams
<1>5. ASSUME NEW i \in 1..Block  PROVE Stream(m, n, 0)[i] = KeyByte(n, 0, i - 1)
  <2>1. (i - 1) \div Block = 0 /\ 0 + 0 = 0
    BY <1>1
  <2>2. Stream(m, n, 0)[i] = Xor({}, KeyByte(n, 0, i - 1))
    BY <1>2, <1>3, <1>4, <2>1
  <2> QED BY <2>2, XorFacts
<1> QED BY <1>3, <1>4, <1>5 DEF polykey, m
----------------------------------------------------------------------------
(* The records of one key. *)

RecordsStand ==
  /\ IsSeq(sealed) /\ IsSeq(texts) /\ IsSeq(opened)
  /\ Len(texts) = Len(sealed) /\ Len(sealed) <= MaxSealed /\ Len(opened) <= Len(sealed)

\* Each end counts what it has seen, whatever came of it.
NoncesCount ==
  nonces = [seal |-> LittleEndian(Len(sealed), IvBytes),
            open |-> LittleEndian(Len(opened), IvBytes)]

SealedInv ==
  \A r \in 1..Len(sealed) : \E length \in TextLengths :
    /\ texts[r] = TextOf(r, length)
    /\ sealed[r] = encryptAndSeal(Nonce(r), TextOf(r, length))

OpenedInv ==
  \A r \in 1..Len(opened) :
    /\ opened[r].record \in Arriving(sealed[r])
    /\ opened[r].result = verifyAndDecrypt(Nonce(r), opened[r].record)

AeadInv == RecordsStand /\ NoncesCount /\ SealedInv /\ OpenedInv

LEMMA InitSeals ==
  ASSUME RecordsInit  PROVE  AeadInv
<1>1. sealed = <<>> /\ texts = <<>> /\ opened = <<>>
  BY DEF RecordsInit
<1>2. IsSeq(<<>>) /\ Len(<<>>) = 0
  <2>1. <<>> \in Seq(Nat) /\ Len(<<>>) = 0
    OBVIOUS
  <2> QED BY <2>1 DEF IsSeq
<1>3. RecordsStand
  BY AeadAssumption, <1>1, <1>2 DEF RecordsStand
<1>4. NoncesCount
  BY <1>1, <1>2 DEF RecordsInit, NoncesCount
<1>5. SealedInv /\ OpenedInv
  BY <1>1, <1>2 DEF SealedInv, OpenedInv
<1> QED BY <1>3, <1>4, <1>5 DEF AeadInv

LEMMA EncryptSeals ==
  ASSUME AeadInv, NEW length \in TextLengths, transportEncrypt(length)
  PROVE  AeadInv'
<1> DEFINE n == Len(sealed)
           plain == TextOf(n + 1, length)
           record == encryptAndSeal(nonces.seal, plain)
<1>1. /\ IsSeq(sealed) /\ IsSeq(texts) /\ IsSeq(opened) /\ n \in Nat
      /\ Len(texts) = n /\ n <= MaxSealed /\ Len(opened) <= n /\ Len(opened) \in Nat
  BY Elements DEF AeadInv, RecordsStand
<1>2. /\ n < MaxSealed
      /\ sealed' = Append(sealed, record) /\ texts' = Append(texts, plain)
      /\ nonces' = [nonces EXCEPT !.seal = NextNonce(nonces.seal)] /\ opened' = opened
  BY DEF transportEncrypt, TextOf
<1>3. /\ nonces.seal = LittleEndian(n, IvBytes)
      /\ nonces.open = LittleEndian(Len(opened), IvBytes)
      /\ nonces = [seal |-> nonces.seal, open |-> nonces.open]
  BY DEF AeadInv, NoncesCount
<1>4. record = encryptAndSeal(Nonce(n + 1), plain)
  BY <1>1, <1>3 DEF Nonce
<1> HIDE DEF record, plain
<1>5. /\ IsSeq(sealed') /\ Len(sealed') = n + 1 /\ sealed'[n + 1] = record
      /\ \A r \in 1..n : sealed'[r] = sealed[r]
  BY <1>1, <1>2, Appended
<1>6. /\ IsSeq(texts') /\ Len(texts') = n + 1 /\ texts'[n + 1] = plain
      /\ \A r \in 1..n : texts'[r] = texts[r]
  BY <1>1, <1>2, Appended
<1> HIDE DEF n
<1>7. RecordsStand'
  <2>1. MaxSealed \in Nat
    BY AeadAssumption
  <2>2. n + 1 <= MaxSealed /\ Len(opened) <= n + 1
    BY <1>1, <1>2, <2>1
  <2> QED BY <1>1, <1>2, <1>5, <1>6, <2>2 DEF RecordsStand
<1>8. NoncesCount'
  <2>1. NextNonce(nonces.seal) = LittleEndian(n + 1, IvBytes)
    BY <1>1, <1>3, NonceCounts
  <2>2. nonces' = [seal |-> LittleEndian(n + 1, IvBytes), open |-> nonces.open]
    BY <1>2, <1>3, <2>1
  <2> QED BY <1>2, <1>3, <1>5, <2>2 DEF NoncesCount
<1>9. ASSUME NEW r \in 1..(n + 1)
      PROVE  \E l \in TextLengths : /\ texts'[r] = TextOf(r, l)
                                /\ sealed'[r] = encryptAndSeal(Nonce(r), TextOf(r, l))
  <2>1. CASE r = n + 1
    BY <1>4, <1>5, <1>6, <2>1 DEF plain
  <2>2. CASE r # n + 1
    <3>1. r \in 1..n
      BY <1>1, <2>2
    <3> QED BY <1>5, <1>6, <3>1 DEF AeadInv, SealedInv, n
  <2> QED BY <2>1, <2>2
<1>10. SealedInv'
  BY <1>5, <1>9 DEF SealedInv
<1>11. ASSUME NEW r \in 1..Len(opened)
       PROVE  /\ opened[r].record \in Arriving(sealed'[r])
              /\ opened[r].result = verifyAndDecrypt(Nonce(r), opened[r].record)
  <2>1. r \in 1..n
    BY <1>1
  <2> QED BY <1>5, <2>1 DEF AeadInv, OpenedInv
<1>12. OpenedInv'
  BY <1>2, <1>11 DEF OpenedInv
<1> QED BY <1>7, <1>8, <1>10, <1>12 DEF AeadInv

LEMMA DecryptSeals ==
  ASSUME AeadInv, Len(opened) < Len(sealed),
         NEW record \in Arriving(sealed[Len(opened) + 1]), transportDecrypt(record)
  PROVE  AeadInv'
<1> DEFINE n == Len(opened)
           entry == [record |-> record, result |-> verifyAndDecrypt(nonces.open, record)]
<1>1. /\ IsSeq(sealed) /\ IsSeq(texts) /\ IsSeq(opened) /\ n \in Nat /\ Len(sealed) \in Nat
      /\ Len(texts) = Len(sealed) /\ Len(sealed) <= MaxSealed /\ n < Len(sealed)
  BY Elements DEF AeadInv, RecordsStand
<1>2. /\ sealed' = sealed /\ texts' = texts /\ opened' = Append(opened, entry)
      /\ nonces' = [nonces EXCEPT !.open = NextNonce(nonces.open)]
  BY DEF transportDecrypt
<1>3. /\ nonces.seal = LittleEndian(Len(sealed), IvBytes)
      /\ nonces.open = LittleEndian(n, IvBytes)
      /\ nonces = [seal |-> nonces.seal, open |-> nonces.open]
  BY DEF AeadInv, NoncesCount
<1>4. entry.record = record /\ entry.result = verifyAndDecrypt(Nonce(n + 1), record)
  BY <1>1, <1>3 DEF Nonce
<1> HIDE DEF entry
<1>5. /\ IsSeq(opened') /\ Len(opened') = n + 1 /\ opened'[n + 1] = entry
      /\ \A r \in 1..n : opened'[r] = opened[r]
  BY <1>1, <1>2, Appended
<1>6. record \in Arriving(sealed[n + 1])
  OBVIOUS
<1> HIDE DEF n
<1>7. RecordsStand'
  BY <1>1, <1>2, <1>5 DEF RecordsStand
<1>8. NoncesCount'
  <2>1. NextNonce(nonces.open) = LittleEndian(n + 1, IvBytes)
    BY <1>1, <1>3, NonceCounts
  <2>2. nonces' = [seal |-> nonces.seal, open |-> LittleEndian(n + 1, IvBytes)]
    BY <1>2, <1>3, <2>1
  <2> QED BY <1>2, <1>3, <1>5, <2>2 DEF NoncesCount
<1>9. SealedInv'
  BY <1>2 DEF AeadInv, SealedInv
<1>10. ASSUME NEW r \in 1..(n + 1)
       PROVE  /\ opened'[r].record \in Arriving(sealed[r])
              /\ opened'[r].result = verifyAndDecrypt(Nonce(r), opened'[r].record)
  <2>1. CASE r = n + 1
    BY <1>4, <1>5, <1>6, <2>1
  <2>2. CASE r # n + 1
    <3>1. r \in 1..n
      BY <1>1, <2>2
    <3> QED BY <1>5, <3>1 DEF AeadInv, OpenedInv, n
  <2> QED BY <2>1, <2>2
<1>11. OpenedInv'
  BY <1>2, <1>5, <1>10 DEF OpenedInv
<1> QED BY <1>7, <1>8, <1>9, <1>11 DEF AeadInv

LEMMA AlwaysSeals == RecordsSpec => []AeadInv
<1>1. AeadInv /\ UNCHANGED records => AeadInv'
  BY DEF records, AeadInv, RecordsStand, NoncesCount, SealedInv, OpenedInv
<1>2. AeadInv /\ [RecordsNext]_records => AeadInv'
  BY <1>1, EncryptSeals, DecryptSeals DEF RecordsNext
<1> QED BY <1>2, InitSeals, PTL DEF RecordsSpec
----------------------------------------------------------------------------
(* The keystream is used once. *)

\* The r-th record and its nonce.
LEMMA SealedRecord ==
  ASSUME AeadInv, NEW r \in Records
  PROVE  /\ r \in Nat \ {0} /\ r - 1 \in Nat /\ r - 1 < PowersOf(Base)[IvBytes]
         /\ \E length \in TextLengths :
              /\ texts[r] = TextOf(r, length)
              /\ sealed[r] = encryptAndSeal(Nonce(r), TextOf(r, length))
<1>1. /\ DOMAIN sealed = 1..Len(sealed) /\ Len(sealed) \in Nat
      /\ Len(sealed) <= MaxSealed
  BY Elements DEF AeadInv, RecordsStand
<1>2. r \in 1..Len(sealed)
  BY <1>1 DEF Records
<1>3. MaxSealed \in Nat /\ MaxSealed <= PowersOf(Base)[IvBytes]
      /\ PowersOf(Base)[IvBytes] \in Nat
  BY AeadAssumption, PowerAt
<1>4. r \in Nat \ {0} /\ r - 1 \in Nat /\ r - 1 < PowersOf(Base)[IvBytes]
  BY <1>1, <1>2, <1>3
<1> QED BY <1>2, <1>4 DEF AeadInv, SealedInv

LEMMA DrawnBytes ==
  ASSUME AeadInv, NEW r \in Records
  PROVE  \E length \in TextLengths :
           /\ DOMAIN Drawn(r) = 1..length
           /\ \A i \in 1..length :
                Drawn(r)[i] = KeyByte(Nonce(r), 1 + (i - 1) \div Block, i - 1)
<1>1. PICK length \in TextLengths :
        texts[r] = TextOf(r, length) /\ sealed[r] = encryptAndSeal(Nonce(r), TextOf(r, length))
  BY SealedRecord
<1>2. length \in Nat
  BY AeadAssumption
<1>3. /\ DOMAIN texts[r] = 1..length
      /\ \A i \in 1..length : texts[r][i] = {<<"text", r, i>>}
  BY <1>1, <1>2, Plains, Elements
<1>4. ASSUME NEW i \in 1..length
      PROVE  sealed[r][i] = Xor(texts[r][i], KeyByte(Nonce(r), 1 + (i - 1) \div Block, i - 1))
  <2>1. sealed[r][i] = Cipher(r, length)[i]
    BY <1>1, <1>2, RecordsAre
  <2> QED BY <1>2, <1>3, <2>1, Ciphers
<1>5. ASSUME NEW i \in 1..length
      PROVE  Xor(sealed[r][i], texts[r][i]) = KeyByte(Nonce(r), 1 + (i - 1) \div Block, i - 1)
  BY <1>4, XorFacts
<1> QED BY <1>3, <1>5 DEF Drawn

LEMMA UsesKeystreamOnce ==
  ASSUME AeadInv  PROVE  KeystreamUsedOnce
<1>1. ASSUME NEW length \in TextLengths, NEW i \in 1..length
      PROVE  i - 1 \in Nat /\ 1 + (i - 1) \div Block < PowersOf(Base)[CounterBytes]
  <2>1. /\ length \in Nat /\ Block \in Nat \ {0}
        /\ 1 + (length - 1) \div Block < PowersOf(Base)[CounterBytes]
        /\ PowersOf(Base)[CounterBytes] \in Nat
    BY AeadAssumption, PowerAt
  <2>2. ASSUME NEW x \in Nat, NEW y \in Nat, x <= y  PROVE x \div Block <= y \div Block
    <3> DEFINE q == x \div Block
               q2 == y \div Block
    <3>1. q \in Int /\ x % Block \in 0..(Block - 1) /\ x = Block * q + (x % Block)
      BY <2>1, QuotientRemainder
    <3>2. q2 \in Int /\ y % Block \in 0..(Block - 1) /\ y = Block * q2 + (y % Block)
      BY <2>1, QuotientRemainder
    <3> HIDE DEF q, q2
    <3>3. ASSUME q >= q2 + 1  PROVE FALSE
      <4>1. Block * q >= Block * (q2 + 1)
        BY <2>1, <3>1, <3>2, <3>3
      <4>2. Block * (q2 + 1) = Block * q2 + Block
        BY <2>1, <3>2
      <4> QED BY <2>1, <2>2, <3>1, <3>2, <4>1, <4>2
    <3>4. q <= q2
      BY <3>1, <3>2, <3>3
    <3> QED BY <3>4 DEF q, q2
  <2>3. i - 1 \in Nat /\ length - 1 \in Nat /\ i - 1 <= length - 1
    BY <2>1
  <2>4. (i - 1) \div Block <= (length - 1) \div Block
    BY <2>2, <2>3
  <2>5. (i - 1) \div Block \in Int /\ (length - 1) \div Block \in Int
    BY <2>1, <2>3, QuotientRemainder
  <2> QED BY <2>1, <2>3, <2>4, <2>5
<1>2. SUFFICES ASSUME NEW r \in Records, NEW r2 \in Records
      PROVE  /\ \A i \in DOMAIN Drawn(r), i2 \in DOMAIN Drawn(r2) :
                  Drawn(r)[i] = Drawn(r2)[i2] => r = r2 /\ i = i2
             /\ ToSet(Drawn(r)) \cap ToSet(polykey(LittleEndian(r2 - 1, IvBytes))) = {}
  BY DEF KeystreamUsedOnce
<1>3. PICK length \in TextLengths :
        /\ DOMAIN Drawn(r) = 1..length
        /\ \A i \in 1..length :
             Drawn(r)[i] = KeyByte(Nonce(r), 1 + (i - 1) \div Block, i - 1)
  BY DrawnBytes
<1>4. PICK length2 \in TextLengths :
        /\ DOMAIN Drawn(r2) = 1..length2
        /\ \A i \in 1..length2 :
             Drawn(r2)[i] = KeyByte(Nonce(r2), 1 + (i - 1) \div Block, i - 1)
  BY DrawnBytes
<1>5. /\ r \in Nat \ {0} /\ r - 1 \in Nat /\ r - 1 < PowersOf(Base)[IvBytes]
      /\ r2 \in Nat \ {0} /\ r2 - 1 \in Nat /\ r2 - 1 < PowersOf(Base)[IvBytes]
  BY SealedRecord
<1>6. ASSUME NEW i \in 1..length, NEW i2 \in 1..length2, Drawn(r)[i] = Drawn(r2)[i2]
      PROVE  r = r2 /\ i = i2
  <2>1. KeyByte(LittleEndian(r - 1, IvBytes), 1 + (i - 1) \div Block, i - 1)
          = KeyByte(LittleEndian(r2 - 1, IvBytes), 1 + (i2 - 1) \div Block, i2 - 1)
    BY <1>3, <1>4, <1>6 DEF Nonce
  <2>2. /\ i - 1 \in Nat /\ 1 + (i - 1) \div Block < PowersOf(Base)[CounterBytes]
        /\ i2 - 1 \in Nat /\ 1 + (i2 - 1) \div Block < PowersOf(Base)[CounterBytes]
    BY <1>1
  <2>3. r - 1 = r2 - 1 /\ i - 1 = i2 - 1
    BY <1>5, <2>1, <2>2, KeyBytesDiffer
  <2> QED BY <1>5, <2>3, <2>2
<1>7. ASSUME NEW i \in 1..length, NEW j \in 1..Block,
             Drawn(r)[i] = polykey(LittleEndian(r2 - 1, IvBytes))[j]
      PROVE  FALSE
  <2>1. Block \in Nat \ {0} /\ j - 1 \in Nat /\ (j - 1) \div Block = 0
    BY AeadAssumption
  <2>2. PICK zero \in Nat, one \in Nat : zero = 0 /\ one = 1
    OBVIOUS
  <2>3. KeyByte(LittleEndian(r - 1, IvBytes), one + (i - 1) \div Block, i - 1)
          = KeyByte(LittleEndian(r2 - 1, IvBytes), zero + (j - 1) \div Block, j - 1)
    BY <1>3, <1>7, <2>1, <2>2, PolyKeys DEF Nonce
  <2>4. i - 1 \in Nat /\ one + (i - 1) \div Block < PowersOf(Base)[CounterBytes]
    BY <1>1, <2>2
  <2>5. PowersOf(Base)[CounterBytes] \in Nat \ {0}
    BY AeadAssumption, PowerAt
  <2>6. j - 1 \in Nat /\ zero + (j - 1) \div Block < PowersOf(Base)[CounterBytes]
    BY <2>1, <2>2, <2>5
  <2>7. one + (i - 1) \div Block = zero + (j - 1) \div Block
    BY <1>5, <2>3, <2>4, <2>6, KeyBytesDiffer
  <2>8. ASSUME NEW x \in Nat  PROVE x \div Block \in Nat
    BY <2>1
  <2> QED BY <2>1, <2>2, <2>4, <2>7, <2>8
<1>8. DOMAIN polykey(LittleEndian(r2 - 1, IvBytes)) = 1..Block
  BY PolyKeys, Elements
<1>9. ToSet(Drawn(r)) \cap ToSet(polykey(LittleEndian(r2 - 1, IvBytes))) = {}
  BY <1>3, <1>7, <1>8 DEF ToSet
<1> QED BY <1>3, <1>4, <1>6, <1>9
----------------------------------------------------------------------------
(* What the authenticator is computed of. *)

Half == MacBytes \div 2
LastBlock(length) == length + Padding(length)

LEMMA Sizes ==
  ASSUME NEW length \in Nat
  PROVE  /\ MacBytes \in Nat /\ Half \in Nat /\ Half >= 2 /\ MacBytes = Half + Half
         /\ Padding(length) \in Nat /\ LastBlock(length) \in Nat
         /\ LastBlock(length) >= length
         /\ Padding(length) = (-length) % MacBytes
<1>1. MacBytes \in Nat /\ MacBytes >= 4 /\ MacBytes % 2 = 0
  BY AeadAssumption
<1>2. Half \in Nat /\ Half >= 2 /\ MacBytes = Half + Half
  BY <1>1 DEF Half
<1> DEFINE q == length \div MacBytes
           r == length % MacBytes
<1>3. MacBytes \in Nat \ {0} /\ length \in Int /\ -length \in Int
  BY <1>1
<1>4. q \in Int /\ r \in 0..(MacBytes - 1) /\ length = MacBytes * q + r
  BY <1>3, QuotientRemainder
<1> HIDE DEF q, r
<1>5. (MacBytes - r) % MacBytes = IF r = 0 THEN 0 ELSE MacBytes - r
  BY <1>3, <1>4
<1>6. (-length) % MacBytes = IF r = 0 THEN 0 ELSE MacBytes - r
  <2>1. CASE r = 0
    <3>1. -length = MacBytes * (-q) + 0 /\ -q \in Int /\ 0 \in 0..(MacBytes - 1)
      BY <1>3, <1>4, <2>1
    <3>2. (MacBytes * (-q) + 0) % MacBytes = 0
      BY <1>3, <3>1, QuotientUnique
    <3> QED BY <2>1, <3>1, <3>2
  <2>2. CASE r # 0
    <3>1. /\ -length = MacBytes * (-q - 1) + (MacBytes - r)
          /\ -q - 1 \in Int /\ MacBytes - r \in 0..(MacBytes - 1)
      BY <1>3, <1>4, <2>2
    <3>2. (MacBytes * (-q - 1) + (MacBytes - r)) % MacBytes = MacBytes - r
      BY <1>3, <3>1, QuotientUnique
    <3> QED BY <2>2, <3>1, <3>2
  <2> QED BY <2>1, <2>2
<1>7. Padding(length) = (MacBytes - r) % MacBytes
  BY DEF Padding, r
<1>8. Padding(length) \in Nat
  BY <1>3, <1>4, <1>5, <1>7
<1>9. LastBlock(length) \in Nat /\ LastBlock(length) >= length
  BY <1>8 DEF LastBlock
<1>10. Padding(length) = (-length) % MacBytes
  BY <1>5, <1>6, <1>7
<1> QED BY <1>2, <1>3, <1>8, <1>9, <1>10

\* The bytes of a message, however they are put together.
IsMessage(m, bytes, length) ==
  /\ IsSeq(m) /\ Len(m) = LastBlock(length) + MacBytes
  /\ \A i \in 1..length : m[i] = bytes[i]
  /\ \A i \in (length + 1)..(LastBlock(length) + MacBytes) :
       m[i] = IF i = LastBlock(length) + Half + 1 THEN Constant(length % Base)
              ELSE IF i = LastBlock(length) + Half + 2
                   THEN Constant((length \div Base) % Base) ELSE {}

LEMMA ZerosStand ==
  ASSUME NEW n \in Nat
  PROVE  IsSeq(Zeros(n)) /\ Len(Zeros(n)) = n /\ \A i \in 1..n : Zeros(n)[i] = {}
<1>1. Zeros(n) = [j \in 1..n |-> Zeros(n)[j]] /\ \A i \in 1..n : Zeros(n)[i] = {}
  BY DEF Zeros
<1> QED BY <1>1, Tabulated

LEMMA MessageStands ==
  ASSUME NEW bytes, IsSeq(bytes)
  PROVE  IsMessage(Message(bytes, Len(bytes)), bytes, Len(bytes))
<1> DEFINE L == Len(bytes)
           P == Padding(L)
           filled == bytes \o Zeros(P + MacBytes)
           place == L + P + MacBytes \div 2
           first == Constant(L % Base)
           second == Constant((L \div Base) % Base)
           m == [filled EXCEPT ![place + 1] = first, ![place + 2] = second]
<1>1. L \in Nat
  BY Elements
<1>2. /\ MacBytes \in Nat /\ Half \in Nat /\ Half >= 2 /\ MacBytes = Half + Half
      /\ P \in Nat /\ LastBlock(L) = L + P /\ place = L + P + Half
  BY <1>1, Sizes DEF LastBlock, Half
<1>3. Message(bytes, L) = m
  BY DEF Message
<1> HIDE DEF first, second, P, place
<1>4. /\ IsSeq(filled) /\ Len(filled) = L + (P + MacBytes)
      /\ \A i \in 1..L : filled[i] = bytes[i]
      /\ \A j \in 1..(P + MacBytes) : filled[L + j] = {}
  <2>1. P + MacBytes \in Nat
    BY <1>2
  <2>2. /\ IsSeq(Zeros(P + MacBytes)) /\ Len(Zeros(P + MacBytes)) = P + MacBytes
        /\ \A j \in 1..(P + MacBytes) : Zeros(P + MacBytes)[j] = {}
    BY <2>1, ZerosStand
  <2> QED BY <2>2, Concatenated
<1> HIDE DEF filled, L
<1>5. filled = [i \in 1..(L + P + MacBytes) |-> filled[i]]
  <2>1. L + (P + MacBytes) = L + P + MacBytes
    BY <1>1, <1>2
  <2> QED BY <1>4, <2>1, Elements
<1>6. m = [i \in 1..(L + P + MacBytes) |-> m[i]]
  BY <1>5
<1>7. L + P + MacBytes \in Nat
  BY <1>1, <1>2
<1>8. IsSeq(m) /\ Len(m) = L + P + MacBytes
  <2> HIDE DEF m
  <2> QED BY <1>6, <1>7, Tabulated
<1>9. ASSUME NEW i \in 1..(L + P + MacBytes)
      PROVE  m[i] = IF i = place + 2 THEN second
                    ELSE IF i = place + 1 THEN first ELSE filled[i]
  BY <1>1, <1>2, <1>5, <1>9
<1> HIDE DEF m
<1>10. ASSUME NEW i \in 1..L  PROVE m[i] = bytes[i]
  BY <1>1, <1>2, <1>4, <1>9
<1>11. ASSUME NEW i \in (L + 1)..(L + P + MacBytes)
       PROVE  m[i] = IF i = L + P + Half + 1 THEN first
                     ELSE IF i = L + P + Half + 2 THEN second ELSE {}
  <2>1. i - L \in 1..(P + MacBytes) /\ L + (i - L) = i /\ i \in 1..(L + P + MacBytes)
    BY <1>1, <1>2
  <2>2. filled[i] = {}
    BY <1>4, <2>1
  <2> QED BY <1>1, <1>2, <1>9, <2>1, <2>2
<1>12. IsMessage(m, bytes, L)
  BY <1>2, <1>8, <1>10, <1>11 DEF IsMessage, first, second
<1> QED BY <1>3, <1>12 DEF L

LEMMA TwoMessages ==
  ASSUME NEW m, NEW m2, NEW bytes, NEW length \in Nat, LastBlock(length) \in Nat,
         LastBlock(length) >= length, MacBytes \in Nat,
         IsMessage(m, bytes, length), IsMessage(m2, bytes, length)
  PROVE  m = m2
<1>1. IsSeq(m) /\ IsSeq(m2) /\ Len(m) = Len(m2) /\ Len(m) = LastBlock(length) + MacBytes
  BY DEF IsMessage
<1>2. ASSUME NEW i \in 1..Len(m)  PROVE m[i] = m2[i]
  <2>1. CASE i \in 1..length
    BY <2>1 DEF IsMessage
  <2>2. CASE i \in (length + 1)..(LastBlock(length) + MacBytes)
    BY <2>2 DEF IsMessage
  <2>3. i \in 1..length \/ i \in (length + 1)..(LastBlock(length) + MacBytes)
    BY <1>1
  <2> QED BY <2>1, <2>2, <2>3
<1> QED BY <1>1, <1>2, SameSequences

\* Messages give away what was padded, since its length is in them.
LEMMA MessagesDiffer ==
  ASSUME NEW a, NEW b, IsSeq(a), IsSeq(b),
         Len(a) < Base * Base, Len(b) < Base * Base,
         Message(a, Len(a)) = Message(b, Len(b))
  PROVE  a = b
<1> DEFINE m == Message(a, Len(a))
           la == Len(a)
           lb == Len(b)
           E == LastBlock(la)
           F == LastBlock(lb)
<1>1. IsMessage(m, a, la) /\ IsMessage(m, b, lb)
  BY MessageStands
<1>2. la \in Nat /\ lb \in Nat
  BY Elements
<1>3. /\ MacBytes \in Nat /\ Half \in Nat /\ Half >= 2 /\ MacBytes = Half + Half
      /\ E \in Nat /\ E >= la /\ F \in Nat /\ F >= lb
  BY <1>2, Sizes
<1>4. Len(m) = E + MacBytes /\ Len(m) = F + MacBytes
  BY <1>1 DEF IsMessage
<1> HIDE DEF m, E, F, la, lb
<1>5. E = F
  BY <1>3, <1>4
<1>6. /\ m[E + Half + 1] = Constant(la % Base)
      /\ m[E + Half + 2] = Constant((la \div Base) % Base)
  <2>1. /\ E + Half + 1 \in (la + 1)..(E + MacBytes)
        /\ E + Half + 2 \in (la + 1)..(E + MacBytes)
        /\ E + Half + 2 # E + Half + 1
    BY <1>2, <1>3
  <2> QED BY <1>1, <2>1 DEF IsMessage, E
<1>7. /\ m[F + Half + 1] = Constant(lb % Base)
      /\ m[F + Half + 2] = Constant((lb \div Base) % Base)
  <2>1. /\ F + Half + 1 \in (lb + 1)..(F + MacBytes)
        /\ F + Half + 2 \in (lb + 1)..(F + MacBytes)
        /\ F + Half + 2 # F + Half + 1
    BY <1>2, <1>3
  <2> QED BY <1>1, <2>1 DEF IsMessage, F
<1>8. ASSUME NEW x, NEW y, Constant(x) = Constant(y)  PROVE x = y
  <2>1. ASSUME NEW v, NEW w, <<"number", v>> = <<"number", w>>  PROVE v = w
    BY <2>1
  <2>2. ASSUME NEW v  PROVE v # 0 <=> Constant(v) # {}
    BY DEF Constant
  <2>3. CASE x = 0 \/ y = 0
    BY <1>8, <2>2, <2>3
  <2>4. CASE x # 0 /\ y # 0
    <3>1. {<<"number", x>>} = {<<"number", y>>}
      BY <1>8, <2>4 DEF Constant
    <3>2. <<"number", x>> = <<"number", y>>
      BY <3>1
    <3> QED BY <2>1, <3>2
  <2> QED BY <2>3, <2>4
<1>9. la % Base = lb % Base /\ (la \div Base) % Base = (lb \div Base) % Base
  BY <1>5, <1>6, <1>7, <1>8
<1>10. la = lb
  <2>1. Base \in Nat /\ Base >= 2 /\ la < Base * Base /\ lb < Base * Base
    BY AeadAssumption DEF la, lb
  <2>2. ASSUME NEW x \in Nat, x < Base * Base
        PROVE  /\ x \div Base \in 0..(Base - 1) /\ (x \div Base) % Base = x \div Base
               /\ x = Base * (x \div Base) + (x % Base)
    <3> DEFINE q == x \div Base
    <3>1. /\ q \in Int /\ x % Base \in 0..(Base - 1) /\ x = Base * q + (x % Base)
          /\ x >= 0 => q >= 0
      <4>1. x \in Int /\ Base \in Nat \ {0}
        BY <2>1
      <4> QED BY <4>1, QuotientRemainder
    <3> HIDE DEF q
    <3>2. ASSUME q >= Base  PROVE FALSE
      <4>1. Base * q >= Base * Base
        BY <2>1, <3>1, <3>2
      <4> QED BY <2>1, <2>2, <3>1, <4>1
    <3>3. q \in 0..(Base - 1)
      BY <2>1, <3>1, <3>2
    <3>4. q % Base = q
      BY <2>1, <3>3
    <3> QED BY <3>1, <3>3, <3>4 DEF q
  <2>3. la \div Base = lb \div Base
    BY <1>2, <1>9, <2>1, <2>2
  <2>4. /\ la = Base * (la \div Base) + (la % Base)
        /\ lb = Base * (lb \div Base) + (lb % Base)
    BY <1>2, <2>1, <2>2
  <2> QED BY <1>9, <2>3, <2>4
<1>11. \A i \in 1..la : a[i] = b[i]
  BY <1>1, <1>10 DEF IsMessage
<1> QED BY <1>10, <1>11, SameSequences DEF la, lb
----------------------------------------------------------------------------
(* Records are those of RFC 8439. *)

LEMMA LengthBytes ==
  ASSUME NEW length \in Nat, length < Base * Base
  PROVE  LET lengths == LittleEndian(length, Half)
             constants == [j \in DOMAIN lengths |-> Constant(lengths[j])]
         IN /\ IsSeq(constants) /\ Len(constants) = Half
            /\ \A j \in 1..Half :
                 constants[j] = IF j = 1 THEN Constant(length % Base)
                                ELSE IF j = 2 THEN Constant((length \div Base) % Base)
                                ELSE {}
<1> DEFINE lengths == LittleEndian(length, Half)
           constants == [j \in DOMAIN lengths |-> Constant(lengths[j])]
           P(k) == PowersOf(Base)[k]
<1>1. Base \in Nat /\ Base >= 2 /\ Half \in Nat /\ Half >= 2
  BY AeadAssumption, Sizes
<1>2. DOMAIN lengths = 1..Half /\ \A j \in 1..Half : lengths[j] = Digit(Base, length, j - 1)
  BY DEF LittleEndian
<1>3. ASSUME NEW k \in Nat  PROVE P(k) \in Nat \ {0} /\ P(k + 1) = Base * P(k)
  BY <1>1, PowerAt
<1>4. P(0) = 1 /\ P(1) = Base /\ P(2) = Base * Base
  <2>1. P(0) = 1
    BY <1>1, PowersAreDefined
  <2>2. P(0 + 1) = Base * P(0) /\ P(1 + 1) = Base * P(1)
    BY <1>3
  <2>3. 0 + 1 = 1 /\ 1 + 1 = 2 /\ Base * 1 = Base
    BY <1>1
  <2> QED BY <2>1, <2>2, <2>3
<1>5. ASSUME NEW k \in Nat, k >= 2  PROVE length < P(k)
  <2> DEFINE S == {i \in Nat : i >= 2 => length < P(i)}
  <2>1. 0 \in S
    OBVIOUS
  <2>2. ASSUME NEW i \in Nat, i \in S  PROVE i + 1 \in S
    <3>1. CASE i + 1 < 2
      BY <3>1
    <3>2. CASE i = 1
      BY <1>4, <3>2
    <3>3. CASE i >= 2
      <4>1. length < P(i) /\ P(i) \in Nat \ {0} /\ P(i + 1) = Base * P(i)
        BY <1>3, <2>2, <3>3
      <4> HIDE DEF P
      <4>2. Base * P(i) >= P(i)
        BY <1>1, <4>1
      <4>3. length < P(i + 1)
        BY <1>1, <4>1, <4>2
      <4> QED BY <4>3
    <3> QED BY <3>1, <3>2, <3>3
  <2>3. Nat \subseteq S
    <3> HIDE DEF S
    <3> QED BY <2>1, <2>2, Induction
  <2>4. k \in S
    <3> HIDE DEF S
    <3> QED BY <2>3
  <2> QED BY <1>5, <2>4
<1>6. ASSUME NEW j \in 1..Half
      PROVE  lengths[j] = IF j = 1 THEN length % Base
                          ELSE IF j = 2 THEN (length \div Base) % Base ELSE 0
  <2>1. lengths[j] = (length \div P(j - 1)) % Base /\ j - 1 \in Nat
    BY <1>1, <1>2 DEF Digit
  <2>2. CASE j = 1
    <3>1. length \div 1 = length
      OBVIOUS
    <3> QED BY <1>4, <2>1, <2>2, <3>1
  <2>3. CASE j = 2
    BY <1>4, <2>1, <2>3
  <2>4. CASE j # 1 /\ j # 2
    <3>1. length < P(j - 1) /\ P(j - 1) \in Nat \ {0}
      BY <1>1, <1>3, <1>5, <2>1, <2>4
    <3> HIDE DEF P
    <3>2. length \div P(j - 1) = 0 /\ 0 % Base = 0
      BY <1>1, <3>1
    <3> QED BY <2>1, <2>4, <3>2
  <2> QED BY <2>2, <2>3, <2>4
<1> HIDE DEF lengths
<1>7. constants = [j \in 1..Half |-> constants[j]]
  BY <1>2
<1>8. Constant(0) = {}
  BY DEF Constant
<1>9. ASSUME NEW j \in 1..Half
      PROVE  constants[j] = IF j = 1 THEN Constant(length % Base)
                            ELSE IF j = 2 THEN Constant((length \div Base) % Base)
                            ELSE {}
  BY <1>2, <1>6, <1>8
<1>10. IsSeq(constants) /\ Len(constants) = Half
  <2> HIDE DEF constants
  <2> QED BY <1>1, <1>7, Tabulated
<1> QED BY <1>9, <1>10 DEF lengths

LEMMA RfcMessage ==
  ASSUME NEW bytes, IsSeq(bytes), Len(bytes) < Base * Base
  PROVE  LET lengths == LittleEndian(Len(bytes), Half)
         IN Message(bytes, Len(bytes)) =
              Pad16(bytes) \o Zeros(Half) \o [j \in DOMAIN lengths |-> Constant(lengths[j])]
<1> DEFINE L == Len(bytes)
           P == Padding(L)
           lengths == LittleEndian(L, Half)
           constants == [j \in DOMAIN lengths |-> Constant(lengths[j])]
           front == bytes \o Zeros(P)
           middle == front \o Zeros(Half)
           m == middle \o constants
<1>1. L \in Nat
  BY Elements
<1>2. /\ MacBytes \in Nat /\ Half \in Nat /\ Half >= 2 /\ MacBytes = Half + Half
      /\ P \in Nat /\ LastBlock(L) = L + P /\ P = (-L) % MacBytes
      /\ LastBlock(L) \in Nat /\ LastBlock(L) >= L
  BY <1>1, Sizes DEF LastBlock
<1>3. /\ IsSeq(constants) /\ Len(constants) = Half
      /\ \A j \in 1..Half :
           constants[j] = IF j = 1 THEN Constant(L % Base)
                          ELSE IF j = 2 THEN Constant((L \div Base) % Base) ELSE {}
  BY <1>1, LengthBytes
<1>4. Pad16(bytes) = front
  BY <1>2 DEF Pad16
<1> HIDE DEF P, constants
<1>5. /\ IsSeq(front) /\ Len(front) = L + P
      /\ \A i \in 1..L : front[i] = bytes[i]
      /\ \A j \in 1..P : front[L + j] = {}
  <2>1. /\ IsSeq(Zeros(P)) /\ Len(Zeros(P)) = P /\ \A j \in 1..P : Zeros(P)[j] = {}
    BY <1>2, ZerosStand
  <2> QED BY <2>1, Concatenated
<1> HIDE DEF front
<1>6. /\ IsSeq(middle) /\ Len(middle) = L + P + Half
      /\ \A i \in 1..(L + P) : middle[i] = front[i]
      /\ \A j \in 1..Half : middle[L + P + j] = {}
  <2>1. /\ IsSeq(Zeros(Half)) /\ Len(Zeros(Half)) = Half
        /\ \A j \in 1..Half : Zeros(Half)[j] = {}
    BY <1>2, ZerosStand
  <2> QED BY <1>5, <2>1, Concatenated
<1> HIDE DEF middle
<1>7. /\ IsSeq(m) /\ Len(m) = L + P + Half + Half
      /\ \A i \in 1..(L + P + Half) : m[i] = middle[i]
      /\ \A j \in 1..Half : m[L + P + Half + j] = constants[j]
  <2>1. /\ IsSeq(m) /\ Len(m) = Len(middle) + Len(constants)
        /\ \A i \in 1..Len(middle) : m[i] = middle[i]
        /\ \A j \in 1..Len(constants) : m[Len(middle) + j] = constants[j]
    <3>1. IsSeq(middle) /\ IsSeq(constants)
      BY <1>3, <1>6
    <3> QED BY <3>1, Concatenated
  <2>2. /\ Len(middle) = L + P + Half /\ Len(constants) = Half
        /\ L + P + Half + Half = Len(middle) + Len(constants)
    BY <1>3, <1>6
  <2> HIDE DEF m
  <2> QED BY <2>1, <2>2
<1> HIDE DEF m, L
<1>8. ASSUME NEW i \in 1..L  PROVE m[i] = bytes[i]
  <2>1. i \in 1..(L + P) /\ i \in 1..(L + P + Half)
    BY <1>1, <1>2
  <2> QED BY <1>5, <1>6, <1>7, <2>1
<1>9. ASSUME NEW i \in (L + 1)..(L + P + MacBytes)
      PROVE  m[i] = IF i = L + P + Half + 1 THEN Constant(L % Base)
                    ELSE IF i = L + P + Half + 2 THEN Constant((L \div Base) % Base)
                    ELSE {}
  <2>1. CASE i <= L + P
    <3>1. /\ i - L \in 1..P /\ L + (i - L) = i /\ i \in 1..(L + P)
          /\ i \in 1..(L + P + Half) /\ i # L + P + Half + 1 /\ i # L + P + Half + 2
      BY <1>1, <1>2, <2>1
    <3> QED BY <1>5, <1>6, <1>7, <3>1
  <2>2. CASE i > L + P /\ i <= L + P + Half
    <3>1. /\ i - (L + P) \in 1..Half /\ L + P + (i - (L + P)) = i
          /\ i \in 1..(L + P + Half) /\ i # L + P + Half + 1 /\ i # L + P + Half + 2
      BY <1>1, <1>2, <2>2
    <3> QED BY <1>6, <1>7, <3>1
  <2>3. CASE i > L + P + Half
    <3> DEFINE j == i - (L + P + Half)
    <3>1. /\ j \in 1..Half /\ L + P + Half + j = i
          /\ (j = 1 <=> i = L + P + Half + 1) /\ (j = 2 <=> i = L + P + Half + 2)
      BY <1>1, <1>2, <2>3
    <3> HIDE DEF j
    <3>2. m[i] = constants[j]
      BY <1>7, <3>1
    <3> QED BY <1>3, <3>1, <3>2
  <2> QED BY <1>1, <1>2, <2>1, <2>2, <2>3
<1>10. L + P + Half + Half = LastBlock(L) + MacBytes
  BY <1>1, <1>2
<1>11. IsMessage(m, bytes, L)
  BY <1>2, <1>7, <1>8, <1>9, <1>10 DEF IsMessage
<1>12. IsMessage(Message(bytes, L), bytes, L)
  BY MessageStands DEF L
<1>13. Message(bytes, L) = m
  BY <1>1, <1>2, <1>11, <1>12, TwoMessages
<1> QED BY <1>4, <1>13 DEF m, middle, constants, L

LEMMA SealsAsRfc ==
  ASSUME AeadInv, NEW r \in Records
  PROVE  sealed[r] = Rfc8439(r)
<1>1. PICK length \in TextLengths :
        texts[r] = TextOf(r, length) /\ sealed[r] = encryptAndSeal(Nonce(r), TextOf(r, length))
  BY SealedRecord
<1>2. length \in Nat /\ length < Base * Base
  BY AeadAssumption
<1> DEFINE n == Nonce(r)
           cipher == Cipher(r, length)
           Key(i, counter) == {<<"key", n, LittleEndian(counter, CounterBytes), i % Block>>}
           bytes == [i \in DOMAIN texts[r] |->
                       Xor(texts[r][i], Key(i - 1, 1 + (i - 1) \div Block))]
           lengths == LittleEndian(Len(bytes), MacBytes \div 2)
           k == [i \in 1..Block |-> Key(i - 1, 0)]
<1>3. /\ DOMAIN texts[r] = 1..length
      /\ \A i \in 1..length : texts[r][i] = {<<"text", r, i>>}
  BY <1>1, <1>2, Plains, Elements
<1>4. bytes = cipher
  <2>1. cipher = [i \in 1..length |-> cipher[i]]
    BY <1>2, Ciphers, Elements
  <2>2. ASSUME NEW i \in 1..length
        PROVE  cipher[i] = Xor(texts[r][i], Key(i - 1, 1 + (i - 1) \div Block))
    BY <1>2, <1>3, Ciphers DEF KeyByte
  <2> HIDE DEF cipher, Key
  <2> QED BY <1>3, <2>1, <2>2
<1>5. k = polykey(n)
  <2>1. polykey(n) = [i \in 1..Block |-> polykey(n)[i]]
    BY PolyKeys, Elements
  <2>2. ASSUME NEW i \in 1..Block  PROVE polykey(n)[i] = Key(i - 1, 0)
    BY PolyKeys DEF KeyByte
  <2> HIDE DEF Key, n
  <2> QED BY <2>1, <2>2
<1>6. IsSeq(cipher) /\ Len(cipher) = length
  BY <1>2, Ciphers
<1>7. Rfc8439(r) =
        bytes \o poly1305(Pad16(bytes) \o Zeros(MacBytes \div 2)
                            \o [j \in DOMAIN lengths |-> Constant(lengths[j])], k)
  BY DEF Rfc8439, Nonce
<1> HIDE DEF bytes, k, cipher
<1>8. Message(cipher, Len(cipher)) =
        Pad16(cipher) \o Zeros(MacBytes \div 2) \o [j \in DOMAIN lengths |-> Constant(lengths[j])]
  BY <1>2, <1>4, <1>6, RfcMessage DEF Half
<1>9. Rfc8439(r) = cipher \o poly1305(Message(cipher, Len(cipher)), polykey(n))
  <2> HIDE DEF lengths
  <2> QED BY <1>4, <1>5, <1>7, <1>8
<1>10. sealed[r] = cipher \o poly1305(Message(cipher, Len(cipher)), polykey(n))
  BY <1>1, <1>2, RecordsAre DEF cipher, Mac
<1> QED BY <1>9, <1>10
----------------------------------------------------------------------------
(* What arrives. *)

\* The last byte of a record that opens is one of an authenticator.
LEMMA LastByte ==
  ASSUME NEW n, NEW record, IsSeq(record), Len(record) >= MacBytes,
         verifyAndDecrypt(n, record) # <<"refused">>
  PROVE  \E m, k : record[Len(record)] = {<<"mac", m, k, MacBytes>>}
<1> DEFINE clength == Len(record) - MacBytes
           cipher == SubSeq(record, 1, clength % Base)
           mac == SubSeq(record, clength + 1, Len(record))
           m == Message(cipher, Len(cipher))
<1>1. MacBytes \in Nat /\ MacBytes >= 4 /\ Len(record) \in Nat
  BY AeadAssumption, Elements
<1>2. poly1305(m, polykey(n)) = mac
  BY DEF verifyAndDecrypt
<1>3. /\ clength + 1 \in Nat \ {0} /\ clength + 1 <= Len(record) + 1
      /\ Len(record) <= Len(record) /\ Len(record) \in Nat
      /\ MacBytes \in 1..(Len(record) - (clength + 1) + 1)
      /\ (clength + 1) + MacBytes - 1 = Len(record)
  BY <1>1
<1> HIDE DEF clength, m
<1>4. \A j \in 1..(Len(record) - (clength + 1) + 1) : mac[j] = record[(clength + 1) + j - 1]
  BY <1>3, Piece
<1> HIDE DEF mac
<1>5. mac[MacBytes] = record[Len(record)]
  BY <1>3, <1>4
<1>6. poly1305(m, polykey(n))[MacBytes] = {<<"mac", m, polykey(n), MacBytes>>}
  BY <1>1, Macs
<1> QED BY <1>2, <1>5, <1>6

\* With the authenticator that was sent, what was sent opens and no other.
LEMMA SameMac ==
  ASSUME NEW r, NEW length \in TextLengths, NEW record, IsSeq(record),
         Len(record) = length + MacBytes,
         \A j \in 1..MacBytes :
           record[length + j] = Mac(Nonce(r), Cipher(r, length))[j]
  PROVE  verifyAndDecrypt(Nonce(r), record) =
           IF SubSeq(record, 1, length % Base) = Cipher(r, length)
           THEN <<"opened", TextOf(r, length)>> ELSE <<"refused">>
<1> DEFINE n == Nonce(r)
           sent == Cipher(r, length)
           cipher == SubSeq(record, 1, length % Base)
           mac == SubSeq(record, length + 1, Len(record))
<1>1. /\ MacBytes \in Nat /\ length \in Nat /\ length < Base * Base /\ Base \in Nat \ {0, 1}
  BY AeadAssumption
<1>2. IsSeq(sent) /\ Len(sent) = length
  BY <1>1, Ciphers
<1>3. /\ IsSeq(Mac(n, sent)) /\ Len(Mac(n, sent)) = MacBytes
  BY Macs DEF Mac
<1>4. mac = Mac(n, sent)
  <2>1. /\ length + 1 \in Nat \ {0} /\ length + MacBytes \in Nat
        /\ length + 1 <= (length + MacBytes) + 1
        /\ (length + MacBytes) - (length + 1) + 1 = MacBytes
        /\ \A j \in 1..MacBytes : (length + 1) + j - 1 = length + j
    BY <1>1
  <2>2. /\ IsSeq(mac) /\ Len(mac) = (length + MacBytes) - (length + 1) + 1
        /\ \A j \in 1..((length + MacBytes) - (length + 1) + 1) :
             mac[j] = record[(length + 1) + j - 1]
    BY <2>1, Piece
  <2> HIDE DEF mac, n, sent
  <2>3. Len(mac) = MacBytes /\ \A j \in 1..MacBytes : mac[j] = record[length + j]
    BY <2>1, <2>2
  <2>4. \A j \in 1..MacBytes : mac[j] = Mac(n, sent)[j]
    BY <2>3 DEF n, sent
  <2> QED BY <1>3, <2>2, <2>3, <2>4, SameSequences
<1>5. length % Base \in Nat /\ length % Base <= length /\ length % Base < Base
  <2>1. length % Base \in 0..(Base - 1)
    BY <1>1
  <2>2. length % Base <= length
    <3> DEFINE q == length \div Base
               t == length % Base
    <3>1. /\ q \in Int /\ length = Base * q + t /\ (length >= 0 => q >= 0)
      <4>1. length \in Int /\ Base \in Nat \ {0}
        BY <1>1
      <4> QED BY <4>1, QuotientRemainder
    <3> HIDE DEF q, t
    <3>2. q \in Nat
      BY <1>1, <3>1
    <3>3. Base * q \in Nat
      BY <1>1, <3>2
    <3>4. t \in Nat
      BY <2>1 DEF t
    <3>5. t <= length
      BY <1>1, <3>1, <3>3, <3>4
    <3> QED BY <3>5 DEF t
  <2> QED BY <1>1, <2>1, <2>2
<1>6. IsSeq(cipher) /\ Len(cipher) = length % Base
  BY <1>1, <1>5, FirstPart
<1>7. (Len(record) - MacBytes) = length
  BY <1>1
<1>8. verifyAndDecrypt(n, record) =
        IF poly1305(Message(cipher, Len(cipher)), polykey(n)) # mac THEN <<"refused">>
        ELSE <<"opened", Stream(cipher, n, 1)>>
  BY <1>7 DEF verifyAndDecrypt
<1> HIDE DEF cipher, mac
<1>9. ASSUME poly1305(Message(cipher, Len(cipher)), polykey(n)) = mac  PROVE cipher = sent
  <2>1. poly1305(Message(cipher, Len(cipher)), polykey(n))
          = poly1305(Message(sent, Len(sent)), polykey(n))
    BY <1>4, <1>9 DEF Mac
  <2>2. ASSUME NEW a, NEW b, NEW k, poly1305(a, k) = poly1305(b, k)  PROVE a = b
    <3>1. poly1305(a, k)[1] = {<<"mac", a, k, 1>>} /\ poly1305(b, k)[1] = {<<"mac", b, k, 1>>}
      <4>1. 1 \in 1..MacBytes
        BY AeadAssumption
      <4> QED BY <4>1, Macs
    <3>2. {<<"mac", a, k, 1>>} = {<<"mac", b, k, 1>>}
      BY <2>2, <3>1
    <3>3. <<"mac", a, k, 1>> = <<"mac", b, k, 1>>
      BY <3>2
    <3> QED BY <3>3
  <2>3. Message(cipher, Len(cipher)) = Message(sent, Len(sent))
    BY <2>1, <2>2
  <2>4. Len(cipher) < Base * Base /\ Len(sent) < Base * Base
    BY <1>1, <1>2, <1>5, <1>6
  <2> HIDE DEF sent
  <2> QED BY <1>2, <1>6, <2>3, <2>4, MessagesDiffer
<1>10. Stream(sent, n, 1) = TextOf(r, length)
  <2>1. /\ IsSeq(Stream(sent, n, 1)) /\ Len(Stream(sent, n, 1)) = length
        /\ \A i \in 1..length :
             Stream(sent, n, 1)[i] = Xor(sent[i], KeyByte(n, 1 + (i - 1) \div Block, i - 1))
    BY <1>2, Streams
  <2>2. \A i \in 1..length :
          sent[i] = Xor({<<"text", r, i>>}, KeyByte(n, 1 + (i - 1) \div Block, i - 1))
    BY <1>1, Ciphers
  <2>3. /\ IsSeq(TextOf(r, length)) /\ Len(TextOf(r, length)) = length
        /\ \A i \in 1..length : TextOf(r, length)[i] = {<<"text", r, i>>}
    BY <1>1, Plains
  <2> HIDE DEF sent, n
  <2>4. ASSUME NEW i \in 1..length  PROVE Stream(sent, n, 1)[i] = {<<"text", r, i>>}
    <3> DEFINE drawn == KeyByte(n, 1 + (i - 1) \div Block, i - 1)
               byte == {<<"text", r, i>>}
    <3>1. Stream(sent, n, 1)[i] = Xor(Xor(byte, drawn), drawn)
      BY <2>1, <2>2
    <3> HIDE DEF drawn, byte
    <3>2. Stream(sent, n, 1)[i] = byte
      BY <3>1, XorFacts
    <3> QED BY <3>2 DEF byte
  <2> QED BY <2>1, <2>3, <2>4, SameSequences
<1>11. poly1305(Message(sent, Len(sent)), polykey(n)) = mac
  BY <1>4 DEF Mac
<1> HIDE DEF sent, n
<1>12. verifyAndDecrypt(n, record) =
         IF cipher = sent THEN <<"opened", TextOf(r, length)>> ELSE <<"refused">>
  BY <1>8, <1>9, <1>10, <1>11
<1> QED BY <1>12 DEF n, cipher, sent

LEMMA OpensExactly ==
  ASSUME NEW r, NEW length \in TextLengths, NEW sent,
         sent = encryptAndSeal(Nonce(r), TextOf(r, length)), NEW record \in Arriving(sent)
  PROVE  verifyAndDecrypt(Nonce(r), record) =
           IF record = sent /\ length < Base
           THEN <<"opened", TextOf(r, length)>> ELSE <<"refused">>
<1> DEFINE cipher == Cipher(r, length)
           mac == Mac(Nonce(r), cipher)
           refused == verifyAndDecrypt(Nonce(r), record) = <<"refused">>
           size == length + MacBytes
<1>1. /\ MacBytes \in Nat /\ MacBytes >= 4 /\ length \in Nat \ {0}
      /\ Base \in Nat \ {0, 1} /\ size \in Nat
  BY AeadAssumption
<1>2. IsSeq(cipher) /\ Len(cipher) = length /\ IsSeq(mac) /\ Len(mac) = MacBytes
  BY <1>1, Ciphers, Macs DEF Mac
<1>3. /\ sent = cipher \o mac /\ IsSeq(sent) /\ Len(sent) = size
      /\ \A i \in 1..length : sent[i] = cipher[i]
      /\ \A j \in 1..MacBytes : sent[length + j] = mac[j]
  BY <1>1, RecordsAre
<1>4. PICK m0, k0 : \A j \in 1..MacBytes : mac[j] = {<<"mac", m0, k0, j>>}
  <2> DEFINE m0 == Message(cipher, Len(cipher))
             k0 == polykey(Nonce(r))
  <2>1. mac = poly1305(m0, k0)
    BY DEF Mac
  <2> HIDE DEF m0, k0, mac
  <2>2. \A j \in 1..MacBytes : mac[j] = {<<"mac", m0, k0, j>>}
    BY <2>1, Macs
  <2> QED BY <2>2
<1>5. SubSeq(sent, 1, length) = cipher
  BY <1>2, <1>3, Beginning
<1>6. length % Base \in 0..(Base - 1) /\ (length < Base => length % Base = length)
  BY <1>1
<1> HIDE DEF cipher, mac
<1>7. CASE record = sent
  <2>1. verifyAndDecrypt(Nonce(r), record) =
          IF SubSeq(record, 1, length % Base) = cipher
          THEN <<"opened", TextOf(r, length)>> ELSE <<"refused">>
    BY <1>3, <1>7, SameMac DEF mac, cipher
  <2>2. CASE length < Base
    BY <1>5, <1>6, <1>7, <2>1, <2>2
  <2>3. CASE ~(length < Base)
    <3>1. length % Base \in Nat /\ length % Base < length /\ length % Base <= Len(sent)
      BY <1>1, <1>3, <1>6, <2>3
    <3>2. Len(SubSeq(sent, 1, length % Base)) = length % Base
      BY <1>3, <3>1, FirstPart
    <3>3. SubSeq(record, 1, length % Base) # cipher
      BY <1>1, <1>2, <1>7, <3>1, <3>2
    <3> QED BY <2>1, <2>3, <3>3
  <2> QED BY <2>2, <2>3
<1>8. CASE record = Append(sent, {})
  <2>1. IsSeq(record) /\ Len(record) = size + 1 /\ record[size + 1] = {}
    BY <1>3, <1>8, Appended
  <2>2. record # sent /\ Len(record) >= MacBytes
    BY <1>1, <1>3, <2>1
  <2>3. refused
    <3>1. \A m, k : {} # {<<"mac", m, k, MacBytes>>}
      OBVIOUS
    <3> QED BY <2>1, <2>2, <3>1, LastByte
  <2> QED BY <2>2, <2>3
<1>9. CASE record = SubSeq(sent, 1, Len(sent) - 1)
  <2>1. size - 1 \in Nat /\ size - 1 <= Len(sent) /\ size - 1 \in 1..(size - 1)
    BY <1>1, <1>3
  <2>2. IsSeq(record) /\ Len(record) = size - 1 /\ record[size - 1] = sent[size - 1]
    BY <1>3, <1>9, <2>1, FirstPart
  <2>3. record # sent /\ Len(record) >= MacBytes
    BY <1>1, <1>3, <2>2
  <2>4. MacBytes - 1 \in 1..MacBytes /\ length + (MacBytes - 1) = size - 1
    BY <1>1
  <2>5. \E m, k : record[size - 1] = {<<"mac", m, k, MacBytes - 1>>}
    <3>1. record[size - 1] = mac[MacBytes - 1]
      BY <1>3, <2>2, <2>4
    <3>2. mac[MacBytes - 1] = {<<"mac", m0, k0, MacBytes - 1>>}
      BY <1>4, <2>4
    <3> QED BY <3>1, <3>2
  <2>6. refused
    <3>1. ASSUME NEW m, NEW k, NEW m2, NEW k2
          PROVE  {<<"mac", m, k, MacBytes - 1>>} # {<<"mac", m2, k2, MacBytes>>}
      <4>1. <<"mac", m, k, MacBytes - 1>> # <<"mac", m2, k2, MacBytes>>
        BY <1>1
      <4> QED BY <4>1
    <3>2. SUFFICES ASSUME ~refused  PROVE FALSE
      OBVIOUS
    <3>3. PICK m, k : record[size - 1] = {<<"mac", m, k, MacBytes - 1>>}
      BY <2>5
    <3>4. \E m2, k2 : record[Len(record)] = {<<"mac", m2, k2, MacBytes>>}
      BY <2>2, <2>3, <3>2, LastByte
    <3>5. PICK m2, k2 : record[size - 1] = {<<"mac", m2, k2, MacBytes>>}
      BY <2>2, <3>4
    <3> QED BY <3>1, <3>3, <3>5
  <2> QED BY <2>3, <2>6
<1>10. ASSUME NEW i \in 1..size, record = Changed(sent, i)
       PROVE  /\ IsSeq(record) /\ Len(record) = size
              /\ \A j \in 1..size :
                   record[j] = IF j = i THEN Xor(sent[i], {<<"damage">>}) ELSE sent[j]
  <2>1. sent = [j \in 1..size |-> sent[j]]
    BY <1>3, Elements
  <2>2. record = [sent EXCEPT ![i] = Xor(sent[i], {<<"damage">>})]
    BY <1>10 DEF Changed
  <2>3. record = [j \in 1..size |-> record[j]]
    BY <2>1, <2>2
  <2>4. ASSUME NEW j \in 1..size
        PROVE  record[j] = IF j = i THEN Xor(sent[i], {<<"damage">>}) ELSE sent[j]
    BY <2>1, <2>2
  <2> QED BY <1>1, <2>3, <2>4, Tabulated
<1>11. CASE record = Changed(sent, 1)
  <2>1. 1 \in 1..size /\ 1 \in 1..length /\ \A j \in 1..MacBytes : length + j \in 1..size /\ length + j # 1
    BY <1>1
  <2>2. /\ IsSeq(record) /\ Len(record) = size /\ record[1] = Xor(sent[1], {<<"damage">>})
        /\ \A j \in 1..MacBytes : record[length + j] = mac[j]
    BY <1>3, <1>10, <1>11, <2>1
  <2>3. ASSUME NEW x  PROVE Xor(x, {<<"damage">>}) # x
    <3>1. <<"damage">> \in x <=> <<"damage">> \notin Xor(x, {<<"damage">>})
      BY DEF Xor
    <3> QED BY <3>1
  <2>4. record[1] # cipher[1] /\ record # sent
    BY <1>3, <2>1, <2>2, <2>3
  <2>5. verifyAndDecrypt(Nonce(r), record) =
          IF SubSeq(record, 1, length % Base) = cipher
          THEN <<"opened", TextOf(r, length)>> ELSE <<"refused">>
    BY <2>2, SameMac DEF mac, cipher
  <2>6. ASSUME SubSeq(record, 1, length % Base) = cipher  PROVE FALSE
    <3>1. length % Base \in Nat /\ length % Base <= Len(record)
      <4>1. CASE length < Base
        BY <1>1, <1>6, <2>2, <4>1
      <4>2. CASE ~(length < Base)
        BY <1>1, <1>6, <2>2, <4>2
      <4> QED BY <4>1, <4>2
    <3>2. /\ Len(SubSeq(record, 1, length % Base)) = length % Base
          /\ \A j \in 1..(length % Base) : SubSeq(record, 1, length % Base)[j] = record[j]
      BY <2>2, <3>1, FirstPart
    <3>3. 1 \in 1..(length % Base)
      BY <1>1, <1>2, <2>6, <3>2
    <3>4. cipher[1] = record[1]
      BY <2>6, <3>2, <3>3
    <3> QED BY <2>4, <3>4
  <2> QED BY <2>4, <2>5, <2>6
<1>12. CASE record = Changed(sent, Len(sent))
  <2>1. size \in 1..size /\ MacBytes \in 1..MacBytes /\ length + MacBytes = size
    BY <1>1
  <2>2. IsSeq(record) /\ Len(record) = size /\ record[size] = Xor(sent[size], {<<"damage">>})
    BY <1>3, <1>10, <1>12, <2>1
  <2>3. \E m, k : sent[size] = {<<"mac", m, k, MacBytes>>}
    BY <1>3, <1>4, <2>1
  <2>4. ASSUME NEW m, NEW k  PROVE <<"damage">> # <<"mac", m, k, MacBytes>>
    <3>1. "damage" # "mac"
      OBVIOUS
    <3> QED BY <3>1
  <2>5. <<"damage">> \in record[size]
    BY <2>2, <2>3, <2>4 DEF Xor
  <2>6. <<"damage">> \notin sent[size]
    BY <2>3, <2>4
  <2>7. record # sent /\ Len(record) >= MacBytes
    BY <1>1, <2>2, <2>5, <2>6
  <2>8. refused
    BY <2>2, <2>4, <2>5, <2>7, LastByte
  <2> QED BY <2>7, <2>8
<1>13. \/ record = sent \/ record = Append(sent, {}) \/ record = SubSeq(sent, 1, Len(sent) - 1)
       \/ record = Changed(sent, 1) \/ record = Changed(sent, Len(sent))
  BY DEF Arriving
<1> QED BY <1>7, <1>8, <1>9, <1>11, <1>12, <1>13

LEMMA OpensSealed ==
  ASSUME AeadInv  PROVE  OpensWhatWasSealed
<1>1. ASSUME NEW r \in DOMAIN opened
      PROVE  opened[r].result =
               IF opened[r].record = sealed[r] /\ Len(texts[r]) < Base
               THEN <<"opened", texts[r]>> ELSE <<"refused">>
  <2>1. /\ DOMAIN opened = 1..Len(opened) /\ Len(opened) \in Nat /\ Len(opened) <= Len(sealed)
        /\ DOMAIN sealed = 1..Len(sealed) /\ Len(sealed) \in Nat
    BY Elements DEF AeadInv, RecordsStand
  <2>2. r \in 1..Len(opened) /\ r \in Records
    BY <2>1 DEF Records
  <2>3. /\ opened[r].record \in Arriving(sealed[r])
        /\ opened[r].result = verifyAndDecrypt(Nonce(r), opened[r].record)
    BY <2>2 DEF AeadInv, OpenedInv
  <2>4. PICK length \in TextLengths :
          texts[r] = TextOf(r, length) /\ sealed[r] = encryptAndSeal(Nonce(r), TextOf(r, length))
    BY <2>2, SealedRecord
  <2>5. length \in Nat
    BY AeadAssumption
  <2>6. Len(texts[r]) = length
    BY <2>4, <2>5, Plains
  <2>7. verifyAndDecrypt(Nonce(r), opened[r].record) =
          IF opened[r].record = sealed[r] /\ length < Base
          THEN <<"opened", TextOf(r, length)>> ELSE <<"refused">>
    BY <2>3, <2>4, OpensExactly
  <2> QED BY <2>3, <2>4, <2>6, <2>7
<1> QED BY <1>1, SealsAsRfc DEF OpensWhatWasSealed
----------------------------------------------------------------------------
(***************************************************************************)
(* However long records are, as long as their counters do not run over, no *)
(* byte of the keystream is used twice, nor for a key of the authenticator *)
(* (tweetnacl.c:123-151; crypto.c:94-134, 159-164).                        *)
(***************************************************************************)
THEOREM KeystreamIsUsedOnce == RecordsSpec => []KeystreamUsedOnce
BY AlwaysSeals, UsesKeystreamOnce, PTL

(***************************************************************************)
(* Every record is the one of RFC 8439, and one that arrives opens exactly *)
(* if it is the sealed one and shorter than its length field allows, to    *)
(* the very text, whatever arrived before it (crypto.c:94-173).            *)
(***************************************************************************)
THEOREM RecordsOpenExactly == RecordsSpec => []OpensWhatWasSealed
BY AlwaysSeals, OpensSealed, PTL
----------------------------------------------------------------------------
(* KeyDerivation. *)

Calls1 == <<Expand(WriteInfo, "write")>>
Calls2 == <<Extract("none"), Expand(WriteInfo, "write")>>
Calls3 == <<Expand(ReadInfo, "read"), Extract("none"), Expand(WriteInfo, "write")>>
Calls4 ==
  <<Extract("none"), Expand(ReadInfo, "read"),
    Extract("none"), Expand(WriteInfo, "write")>>

PRK == HMAC(ControlSalt, secret)
ReadKey == SubSeq(HKDF(ControlSalt, secret, ReadInfo), 1, KeyBytes)
WriteKey == SubSeq(HKDF(ControlSalt, secret, WriteInfo), 1, KeyBytes)

StepInv ==
  /\ step \in {"idle", "pads", "inner", "outer"}
  /\ secret \in SharedSecrets
  /\ todo \in {<<>>, Calls1, Calls2, Calls3, Calls4}
  /\ step = "idle" <=> todo = <<>>
  /\ step # "idle" => havekeys

\* The salt and the data of the call under way.
MessagesInv ==
  /\ step = "inner" =>
       /\ message1 = Pad("36", SaltOf(Head(todo))) \o Head(todo).data
       /\ message2 = Pad("5c", SaltOf(Head(todo))) \o Garbage
  /\ step = "outer" =>
       message2 = Pad("5c", SaltOf(Head(todo)))
                    \o sha512(Pad("36", SaltOf(Head(todo))) \o Head(todo).data)

KeysInv ==
  /\ keys = [read |-> keys.read, write |-> keys.write]
  /\ todo \in {Calls1, Calls3} => key = PRK
  /\ havekeys /\ todo \in {<<>>, Calls1, Calls2} => keys.read = ReadKey
  /\ havekeys /\ todo = <<>> => keys.write = WriteKey

DerivationInv == StepInv /\ MessagesInv /\ KeysInv
----------------------------------------------------------------------------
(* HMAC. *)

LEMMA Hashes ==
  ASSUME NEW bytes
  PROVE  IsSeq(sha512(bytes)) /\ Len(sha512(bytes)) = HashBytes
<1>1. sha512(bytes) = [j \in 1..HashBytes |-> sha512(bytes)[j]]
  BY DEF sha512
<1>2. HashBytes \in Nat
  BY DerivationAssumption
<1> QED BY <1>1, <1>2, Tabulated

LEMMA PadsAreSequences ==
  ASSUME NEW pad, NEW salt
  PROVE  IsSeq(Pad(pad, salt)) /\ Len(Pad(pad, salt)) = HmacBlock
<1>1. Pad(pad, salt) = [j \in 1..HmacBlock |-> Pad(pad, salt)[j]]
  BY DEF Pad
<1>2. HmacBlock \in Nat
  BY DerivationAssumption
<1> QED BY <1>1, <1>2, Tabulated

\* Two calls of crypto_sha512hmac, if the salt is the key of HMAC.
LEMMA IsHmac ==
  ASSUME NEW salt, NEW text
  PROVE  sha512(Pad("5c", salt) \o sha512(Pad("36", salt) \o text)) = HMAC(salt, text)
<1> DEFINE K0 == [j \in 1..HmacBlock |-> IF j <= Len(salt) THEN salt[j] ELSE ZeroByte]
<1>1. \A pad : Pad(pad, salt) = [j \in 1..HmacBlock |-> <<pad, K0[j]>>]
  BY DEF Pad, XorByte
<1> HIDE DEF K0
<1> QED BY <1>1 DEF HMAC, K0
----------------------------------------------------------------------------
\* A prefix of HMAC's result as long as a hash is all of it.
LEMMA WholeHmac ==
  ASSUME NEW salt, NEW text
  PROVE  SubSeq(HMAC(salt, text), 1, HashBytes) = HMAC(salt, text)
BY Hashes, WholePiece DEF HMAC

\* What crypto_sha512hmac leaves after a pad is not read.
LEMMA Buffers ==
  ASSUME NEW salt
  PROVE  SubSeq(Pad("5c", salt) \o Garbage, 1, HmacBlock) = Pad("5c", salt)
<1>1. Garbage = [j \in 1..HashBytes |-> Garbage[j]] /\ HashBytes \in Nat
  BY DerivationAssumption DEF Garbage
<1>2. IsSeq(Garbage)
  BY <1>1, Tabulated
<1> QED BY <1>2, PadsAreSequences, Beginning

LEMMA CallsAreSequences ==
  ASSUME NEW c1, NEW c2, NEW c3, NEW c4
  PROVE  /\ <<c1>> # <<>> /\ <<c1, c2>> # <<>> /\ <<c1, c2, c3>> # <<>> /\ <<c1, c2, c3, c4>> # <<>>
         /\ Len(<<c1>>) = 1 /\ Len(<<c1, c2>>) = 2 /\ Len(<<c1, c2, c3>>) = 3
         /\ Len(<<c1, c2, c3, c4>>) = 4 /\ Len(<<>>) = 0
         /\ Head(<<c1>>) = c1 /\ Tail(<<c1>>) = <<>>
         /\ Head(<<c1, c2>>) = c1 /\ Tail(<<c1, c2>>) = <<c2>>
         /\ Head(<<c1, c2, c3>>) = c1 /\ Tail(<<c1, c2, c3>>) = <<c2, c3>>
         /\ Head(<<c1, c2, c3, c4>>) = c1 /\ Tail(<<c1, c2, c3, c4>>) = <<c2, c3, c4>>
OBVIOUS

LEMMA CallsStand ==
  /\ Head(Calls1) = Expand(WriteInfo, "write") /\ Tail(Calls1) = <<>>
  /\ Head(Calls2) = Extract("none") /\ Tail(Calls2) = Calls1
  /\ Head(Calls3) = Expand(ReadInfo, "read") /\ Tail(Calls3) = Calls2
  /\ Head(Calls4) = Extract("none") /\ Tail(Calls4) = Calls3
  /\ Len(Calls1) = 1 /\ Len(Calls2) = 2 /\ Len(Calls3) = 3 /\ Len(Calls4) = 4
  /\ Len(<<>>) = 0
BY CallsAreSequences DEF Calls1, Calls2, Calls3, Calls4

LEMMA CallsDiffer ==
  /\ Calls1 # <<>> /\ Calls2 # <<>> /\ Calls3 # <<>> /\ Calls4 # <<>>
  /\ Calls1 # Calls2 /\ Calls1 # Calls3 /\ Calls1 # Calls4
  /\ Calls2 # Calls3 /\ Calls2 # Calls4 /\ Calls3 # Calls4
<1>1. Len(Calls1) = 1 /\ Len(Calls2) = 2 /\ Len(Calls3) = 3 /\ Len(Calls4) = 4
  BY CallsStand
<1>2. Calls1 # <<>> /\ Calls2 # <<>> /\ Calls3 # <<>> /\ Calls4 # <<>>
  BY CallsAreSequences DEF Calls1, Calls2, Calls3, Calls4
<1>3. Calls1 # Calls2 /\ Calls1 # Calls3 /\ Calls1 # Calls4
  BY <1>1
<1>4. Calls2 # Calls3 /\ Calls2 # Calls4 /\ Calls3 # Calls4
  BY <1>1
<1> QED BY <1>2, <1>3, <1>4
----------------------------------------------------------------------------
(* The buffer. *)

LEMMA InitDerives ==
  ASSUME DerivationInit  PROVE  DerivationInv
<1>1. StepInv
  BY DEF DerivationInit, StepInv
<1>2. MessagesInv
  BY DEF DerivationInit, MessagesInv
<1>3. todo = <<>> /\ havekeys = FALSE /\ keys = [read |-> Garbage, write |-> Garbage]
  BY DEF DerivationInit
<1>4. todo \notin {Calls1, Calls3}
  BY <1>3, CallsDiffer
<1> QED BY <1>1, <1>2, <1>3, <1>4 DEF DerivationInv, KeysInv

LEMMA GenKeysDerives ==
  ASSUME DerivationInv, session_genkeys  PROVE  DerivationInv'
<1>1. /\ todo' = Calls4 /\ step' = "pads" /\ havekeys' = TRUE
      /\ secret' = secret /\ keys' = keys
      /\ Calls1' = Calls1 /\ Calls2' = Calls2 /\ Calls3' = Calls3 /\ Calls4' = Calls4
  BY DEF session_genkeys, Calls1, Calls2, Calls3, Calls4, Extract, Expand
<1>2. StepInv'
  BY <1>1, CallsDiffer DEF DerivationInv, StepInv
<1>3. MessagesInv'
  BY <1>1 DEF MessagesInv
<1>4. todo' \notin {<<>>, Calls1', Calls2', Calls3'}
  BY <1>1, CallsDiffer
<1> QED BY <1>1, <1>2, <1>3, <1>4 DEF DerivationInv, KeysInv

LEMMA NewSecretDerives ==
  ASSUME DerivationInv, NewSecret  PROVE  DerivationInv'
<1>1. /\ todo = <<>> /\ todo' = <<>> /\ step' = "idle" /\ havekeys' = FALSE
      /\ secret' \in SharedSecrets /\ keys' = keys
  BY DEF NewSecret, DerivationInv, StepInv
<1>2. StepInv'
  BY <1>1 DEF StepInv
<1>3. MessagesInv'
  BY <1>1 DEF MessagesInv
<1>4. Len(Calls1') = 1 /\ Len(Calls3') = 3 /\ Len(<<>>) = 0
  BY CallsAreSequences DEF Calls1, Calls3
<1>5. todo' \notin {Calls1', Calls3'}
  BY <1>1, <1>4
<1> QED BY <1>1, <1>2, <1>3, <1>5 DEF DerivationInv, KeysInv

LEMMA PadsDerives ==
  ASSUME DerivationInv, Pads  PROVE  DerivationInv'
<1>1. /\ todo' = todo /\ step' = "inner" /\ havekeys' = havekeys /\ key' = key
      /\ secret' = secret /\ keys' = keys /\ step = "pads"
      /\ Calls1' = Calls1 /\ Calls2' = Calls2 /\ Calls3' = Calls3 /\ Calls4' = Calls4
  BY DEF Pads, Calls1, Calls2, Calls3, Calls4, Extract, Expand
<1>2. StepInv'
  BY <1>1 DEF DerivationInv, StepInv
<1>3. SaltOf(Head(todo))' = SaltOf(Head(todo))
  BY <1>1 DEF SaltOf
<1>4. MessagesInv'
  BY <1>1, <1>3 DEF MessagesInv, Pads, Pad
<1>5. KeysInv'
  BY <1>1 DEF DerivationInv, KeysInv, PRK, ReadKey, WriteKey
<1> QED BY <1>2, <1>4, <1>5 DEF DerivationInv

LEMMA InnerDerives ==
  ASSUME DerivationInv, Inner  PROVE  DerivationInv'
<1>1. /\ todo' = todo /\ step' = "outer" /\ havekeys' = havekeys /\ key' = key
      /\ secret' = secret /\ keys' = keys /\ step = "inner" /\ message1' = message1
      /\ message2' = SubSeq(message2, 1, HmacBlock) \o sha512(message1)
      /\ Calls1' = Calls1 /\ Calls2' = Calls2 /\ Calls3' = Calls3 /\ Calls4' = Calls4
  BY DEF Inner, Calls1, Calls2, Calls3, Calls4, Extract, Expand
<1>2. StepInv'
  BY <1>1 DEF DerivationInv, StepInv
<1>3. SaltOf(Head(todo))' = SaltOf(Head(todo))
  BY <1>1 DEF SaltOf
<1>4. /\ SubSeq(message2, 1, HmacBlock) = Pad("5c", SaltOf(Head(todo)))
      /\ message1 = Pad("36", SaltOf(Head(todo))) \o Head(todo).data
  BY <1>1, Buffers DEF DerivationInv, MessagesInv
<1>5. message2' = Pad("5c", SaltOf(Head(todo)))
                    \o sha512(Pad("36", SaltOf(Head(todo))) \o Head(todo).data)
  BY <1>1, <1>4
<1>6. MessagesInv'
  BY <1>1, <1>3, <1>5 DEF MessagesInv, Pad
<1>7. KeysInv'
  BY <1>1 DEF DerivationInv, KeysInv, PRK, ReadKey, WriteKey
<1> QED BY <1>2, <1>6, <1>7 DEF DerivationInv

LEMMA OuterDerives ==
  ASSUME DerivationInv, Outer  PROVE  DerivationInv'
<1>1. /\ step = "outer" /\ step # "idle" /\ havekeys' = havekeys /\ secret' = secret
      /\ message1' = message1 /\ message2' = message2
      /\ key' = sha512(message2) /\ todo' = Tail(todo)
      /\ keys' = IF Head(todo).for = "none" THEN keys
                 ELSE [keys EXCEPT ![Head(todo).for] = SubSeq(key', 1, KeyBytes)]
      /\ step' = IF todo' = <<>> THEN "idle" ELSE "pads"
      /\ Calls1' = Calls1 /\ Calls2' = Calls2 /\ Calls3' = Calls3 /\ Calls4' = Calls4
      /\ PRK' = PRK /\ ReadKey' = ReadKey /\ WriteKey' = WriteKey
  BY DEF Outer, Calls1, Calls2, Calls3, Calls4, Extract, Expand, PRK, ReadKey, WriteKey
<1>2. todo \in {Calls1, Calls2, Calls3, Calls4} /\ havekeys /\ secret \in SharedSecrets
  BY <1>1 DEF DerivationInv, StepInv
<1>3. todo' \in {<<>>, Calls1, Calls2, Calls3}
  BY <1>1, <1>2, CallsStand
<1>4. StepInv'
  BY <1>1, <1>2, <1>3 DEF StepInv
<1>5. MessagesInv'
  BY <1>1 DEF MessagesInv
<1>6. key' = HMAC(SaltOf(Head(todo)), Head(todo).data)
  BY <1>1, IsHmac DEF DerivationInv, MessagesInv
<1>7. CASE todo \in {Calls2, Calls4}
  <2>1. Head(todo) = Extract("none")
    BY <1>7, CallsStand
  <2>2. Head(todo).for = "none" /\ Head(todo).data = secret /\ SaltOf(Head(todo)) = ControlSalt
    BY <2>1 DEF Extract, SaltOf
  <2>3. key' = PRK /\ keys' = keys
    BY <1>1, <1>6, <2>2 DEF PRK
  <2>4. todo' \in {Calls1, Calls3} /\ todo' # <<>> /\ todo' # Calls2
    BY <1>1, <1>7, CallsStand, CallsDiffer
  <2>5. todo' = Calls1 => todo = Calls2
    BY <1>1, <1>7, CallsStand, CallsDiffer
  <2> QED BY <1>1, <1>2, <1>4, <1>5, <2>3, <2>4, <2>5 DEF DerivationInv, KeysInv
<1>8. CASE todo \in {Calls1, Calls3}
  <2> DEFINE call == Head(todo)
  <2>1. key = PRK
    BY <1>8 DEF DerivationInv, KeysInv
  <2>2. PRK = SubSeq(PRK, 1, HashBytes)
    BY WholeHmac DEF PRK
  <2>3. call \in {Expand(ReadInfo, "read"), Expand(WriteInfo, "write")}
    BY <1>8, CallsStand
  <2>4. call.buffer = HashBytes /\ call.for # "none"
    BY <2>3 DEF Expand
  <2>5. SaltOf(call) = PRK
    BY DerivationAssumption, <2>1, <2>2, <2>4 DEF SaltOf
  <2>6. key' = HMAC(PRK, call.data)
    BY <1>6, <2>5
  <2>7. keys' = [keys EXCEPT ![call.for] = SubSeq(key', 1, KeyBytes)]
    BY <1>1, <2>4
  <2>8. keys = [read |-> keys.read, write |-> keys.write]
    BY DEF DerivationInv, KeysInv
  <2>9. CASE todo = Calls3
    <3>1. call = Expand(ReadInfo, "read") /\ todo' = Calls2
      BY <1>1, <2>9, CallsStand
    <3>2. call.for = "read" /\ call.data = ReadInfo
      BY <3>1 DEF Expand
    <3>3. SubSeq(key', 1, KeyBytes) = ReadKey
      BY <2>6, <3>2 DEF ReadKey, HKDF, PRK
    <3>4. keys' = [read |-> ReadKey, write |-> keys.write]
      BY <2>7, <2>8, <3>2, <3>3
    <3>5. todo' # <<>> /\ todo' \notin {Calls1, Calls3}
      BY <3>1, CallsDiffer
    <3>6. keys'.read = ReadKey /\ keys' = [read |-> keys'.read, write |-> keys'.write]
      BY <3>4
    <3>7. KeysInv'
      BY <1>1, <3>5, <3>6 DEF KeysInv
    <3> QED BY <1>4, <1>5, <3>7 DEF DerivationInv
  <2>10. CASE todo = Calls1
    <3>1. call = Expand(WriteInfo, "write") /\ todo' = <<>>
      BY <1>1, <2>10, CallsStand
    <3>2. call.for = "write" /\ call.data = WriteInfo
      BY <3>1 DEF Expand
    <3>3. SubSeq(key', 1, KeyBytes) = WriteKey
      BY <2>6, <3>2 DEF WriteKey, HKDF, PRK
    <3>4. keys.read = ReadKey
      BY <1>2, <2>10 DEF DerivationInv, KeysInv
    <3>5. keys' = [read |-> ReadKey, write |-> WriteKey]
      BY <2>7, <2>8, <3>2, <3>3, <3>4
    <3>6. todo' \notin {Calls1, Calls3}
      BY <3>1, CallsDiffer
    <3>7. /\ keys'.read = ReadKey /\ keys'.write = WriteKey
          /\ keys' = [read |-> keys'.read, write |-> keys'.write]
      BY <3>5
    <3>8. KeysInv'
      BY <1>1, <3>6, <3>7 DEF KeysInv
    <3> QED BY <1>4, <1>5, <3>8 DEF DerivationInv
  <2> QED BY <1>8, <2>9, <2>10
<1> QED BY <1>2, <1>7, <1>8
----------------------------------------------------------------------------
(* Labels tell keys apart, since a hash gives away what it is a hash of.   *)

LEMMA HashesDiffer ==
  ASSUME NEW a, NEW b,
         SubSeq(sha512(a), 1, KeyBytes) = SubSeq(sha512(b), 1, KeyBytes)
  PROVE  a = b
<1>1. KeyBytes \in 1..HashBytes /\ HashBytes \in Nat /\ 1 \in 1..HashBytes
  BY DerivationAssumption
<1>2. ASSUME NEW s, IsSeq(s), Len(s) = HashBytes
      PROVE  SubSeq(s, 1, KeyBytes)[1] = s[1]
  BY <1>1, <1>2, Piece
<1>3. ASSUME NEW bytes  PROVE SubSeq(sha512(bytes), 1, KeyBytes)[1] = sha512(bytes)[1]
  BY <1>2, Hashes
<1>4. SubSeq(sha512(a), 1, KeyBytes)[1] = sha512(a)[1]
  BY <1>3
<1>5. SubSeq(sha512(b), 1, KeyBytes)[1] = sha512(b)[1]
  BY <1>3
<1>6. sha512(a)[1] = sha512(b)[1]
  BY <1>4, <1>5
<1>7. sha512(a)[1] = <<"sha", a, 1>> /\ sha512(b)[1] = <<"sha", b, 1>>
  BY <1>1 DEF sha512
<1>8. ASSUME NEW x, NEW y, <<"sha", x, 1>> = <<"sha", y, 1>>  PROVE x = y
  BY <1>8
<1> QED BY <1>6, <1>7, <1>8

LEMMA LabelsTellApart ==
  ASSUME NEW salt,
         ReadInfo \in Seq(Symbols), WriteInfo \in Seq(Symbols)
  PROVE  SubSeq(HMAC(salt, ReadInfo), 1, KeyBytes) # SubSeq(HMAC(salt, WriteInfo), 1, KeyBytes)
<1> DEFINE inner(text) == Pad("36", salt) \o text
           outer(text) == Pad("5c", salt) \o sha512(inner(text))
<1>1. ASSUME NEW text  PROVE HMAC(salt, text) = sha512(outer(text))
  BY IsHmac
<1>2. IsSeq(Pad("36", salt)) /\ IsSeq(Pad("5c", salt))
  BY PadsAreSequences
<1>3. ASSUME SubSeq(HMAC(salt, ReadInfo), 1, KeyBytes) = SubSeq(HMAC(salt, WriteInfo), 1, KeyBytes)
      PROVE  FALSE
  <2> HIDE DEF outer
  <2>1. SubSeq(sha512(outer(ReadInfo)), 1, KeyBytes) = SubSeq(sha512(outer(WriteInfo)), 1, KeyBytes)
    BY <1>1, <1>3
  <2>2. outer(ReadInfo) = outer(WriteInfo)
    BY <2>1, HashesDiffer
  <2> USE DEF outer
  <2>3. sha512(inner(ReadInfo)) = sha512(inner(WriteInfo))
    <3>1. Pad("5c", salt) \o sha512(inner(ReadInfo)) = Pad("5c", salt) \o sha512(inner(WriteInfo))
      BY <2>2
    <3>2. IsSeq(sha512(inner(ReadInfo))) /\ IsSeq(sha512(inner(WriteInfo)))
      BY Hashes
    <3> QED BY <1>2, <3>1, <3>2, SameEnds
  <2>4. inner(ReadInfo) = inner(WriteInfo)
    BY <2>3, HashesDiffer
  <2>5. ReadInfo = WriteInfo
    <3>1. IsSeq(ReadInfo) /\ IsSeq(WriteInfo)
      BY DEF IsSeq
    <3> QED BY <1>2, <2>4, <3>1, SameEnds
  <2> QED BY DerivationAssumption, <2>5
<1> QED BY <1>3
----------------------------------------------------------------------------
LEMMA DerivationIsInductive ==
  /\ DerivationInit => DerivationInv
  /\ DerivationInv /\ [DerivationNext]_derivation => DerivationInv'
  /\ DerivationInv => DerivesHkdf
<1>1. DerivationInit => DerivationInv
  BY InitDerives
<1>2. ASSUME DerivationInv, UNCHANGED derivation  PROVE DerivationInv'
  <2>1. /\ todo' = todo /\ step' = step /\ havekeys' = havekeys /\ secret' = secret
        /\ keys' = keys /\ key' = key /\ message1' = message1 /\ message2' = message2
    BY <1>2 DEF derivation
  <2>2. StepInv'
    BY <1>2, <2>1 DEF DerivationInv, StepInv, Calls1, Calls2, Calls3, Calls4, Extract, Expand
  <2>3. MessagesInv'
    BY <1>2, <2>1 DEF DerivationInv, MessagesInv, Pad, SaltOf
  <2>4. KeysInv'
    BY <1>2, <2>1 DEF DerivationInv, KeysInv, PRK, ReadKey, WriteKey,
                      Calls1, Calls2, Calls3, Calls4, Extract, Expand
  <2> QED BY <2>2, <2>3, <2>4 DEF DerivationInv
<1>3. DerivationInv /\ [DerivationNext]_derivation => DerivationInv'
  BY <1>2, NewSecretDerives, GenKeysDerives, PadsDerives, InnerDerives, OuterDerives DEF DerivationNext
<1>4. DerivationInv => DerivesHkdf
  <2>1. ASSUME DerivationInv, havekeys, step = "idle"
        PROVE  keys.read = ReadKey /\ keys.write = WriteKey
    BY <2>1 DEF DerivationInv, StepInv, KeysInv
  <2>2. ReadKey # WriteKey
    BY DerivationAssumption, LabelsTellApart DEF ReadKey, WriteKey, HKDF
  <2> QED BY <2>1, <2>2 DEF DerivesHkdf, ReadKey, WriteKey
<1> QED BY <1>1, <1>3, <1>4

(***************************************************************************)
(* Keys in use are those HKDF derives from the secret of the connection,   *)
(* each with its own label, and differ, whatever the sizes, the secrets    *)
(* and the labels are (crypto.c:136-157; session.c:47-60).                 *)
(***************************************************************************)
THEOREM KeysAreHkdf == DerivationSpec => []DerivesHkdf
<1>1. DerivationInit => DerivationInv
  BY DerivationIsInductive
<1>2. DerivationInv /\ [DerivationNext]_derivation => DerivationInv'
  BY DerivationIsInductive
<1>3. DerivationInv => DerivesHkdf
  BY DerivationIsInductive
<1> QED BY <1>1, <1>2, <1>3, PTL DEF DerivationSpec

----------------------------------------------------------------------------
(* The keys and the nonces of a session. *)

FieldsStand ==
  /\ session_state = [encrypting |-> session_state.encrypting,
                      havekeys |-> session_state.havekeys]
  /\ session_state.encrypting \in BOOLEAN /\ session_state.havekeys \in BOOLEAN
  /\ transport = [key |-> transport.key, read_nonce |-> transport.read_nonce,
                  write_nonce |-> transport.write_nonce]
  /\ peer = [secret |-> peer.secret, sent |-> peer.sent, opened |-> peer.opened]

\* Before the keys are derived, the secret they will come from is the latest.
SessionKeysInv ==
  /\ session_state.encrypting <=> peer.secret # None
  /\ session_state.encrypting => shared = peer.secret
  /\ peer.secret # None => peer.secret \in agreed
  /\ session_state.havekeys => session_state.encrypting /\ transport.key \in agreed

SessionInv == FieldsStand /\ SessionKeysInv
----------------------------------------------------------------------------
\* What sealing or opening a record leaves behind.
LEMMA KeysAreUsed ==
  ASSUME SessionInv, session_state.encrypting, GenKeys,
         UNCHANGED <<shared, peer, agreed>>, NEW nonce,
         \/ transport' = [Derived EXCEPT !.read_nonce = nonce]
         \/ transport' = [Derived EXCEPT !.write_nonce = nonce]
  PROVE  SessionInv'
<1>1. session_state' = [encrypting |-> session_state.encrypting, havekeys |-> TRUE]
  BY DEF SessionInv, FieldsStand, GenKeys
<1>2. /\ Derived = [key |-> Derived.key, read_nonce |-> Derived.read_nonce,
                    write_nonce |-> Derived.write_nonce]
      /\ Derived.key \in agreed
  <2>1. CASE session_state.havekeys
    BY <2>1 DEF SessionInv, FieldsStand, SessionKeysInv, Derived
  <2>2. CASE ~session_state.havekeys
    BY <2>2 DEF SessionInv, FieldsStand, SessionKeysInv, Derived
  <2> QED BY <2>1, <2>2 DEF SessionInv, FieldsStand
<1> HIDE DEF Derived
<1>3. /\ transport' = [key |-> transport'.key, read_nonce |-> transport'.read_nonce,
                       write_nonce |-> transport'.write_nonce]
      /\ transport'.key \in agreed
  BY <1>2
<1> QED BY <1>1, <1>3 DEF SessionInv, FieldsStand, SessionKeysInv

LEMMA SessionInitial == Init => SessionInv
<1> QED BY DEF Init, SessionInv, FieldsStand, SessionKeysInv

LEMMA SessionStep == SessionInv /\ [Next]_vars => SessionInv'
<1> SUFFICES ASSUME SessionInv, [Next]_vars PROVE SessionInv'
  OBVIOUS
<1>1. CASE session_init
  BY <1>1 DEF session_init, Initial, SessionInv, FieldsStand, SessionKeysInv
<1>2. CASE Verify
  <2>1. PICK latest \in Secrets :
          /\ shared' = latest /\ agreed' = agreed \cup {latest}
          /\ peer' = [peer EXCEPT !.secret = latest, !.sent = 0, !.opened = 0]
    BY <1>2 DEF Verify
  <2>2. peer' = [secret |-> latest, sent |-> 0, opened |-> 0]
    BY <2>1 DEF SessionInv, FieldsStand
  <2>3. /\ session_state' = IF session_state.encrypting THEN session_state
                            ELSE [encrypting |-> TRUE, havekeys |-> FALSE]
        /\ transport' = transport
    BY <1>2 DEF Verify, Encryption, SessionInv, FieldsStand
  <2>4. latest # None
    BY NoneAssumption
  <2>5. session_state.havekeys => transport.key \in agreed'
    BY <2>1 DEF SessionInv, SessionKeysInv
  <2> QED BY <2>1, <2>2, <2>3, <2>4, <2>5 DEF SessionInv, FieldsStand, SessionKeysInv
<1>3. CASE ReadEncrypted
  BY <1>3, KeysAreUsed DEF ReadEncrypted
<1>4. CASE WriteEncrypted
  BY <1>4, KeysAreUsed DEF WriteEncrypted
<1>5. CASE ReadPlain \/ WritePlain
  BY <1>5 DEF ReadPlain, WritePlain, SessionInv, FieldsStand, SessionKeysInv
<1>6. CASE PeerSends \/ PeerOpens
  <2>1. /\ UNCHANGED <<session_state, shared, transport, agreed>>
        /\ peer'.secret = peer.secret
        /\ peer' = [secret |-> peer'.secret, sent |-> peer'.sent, opened |-> peer'.opened]
    BY <1>6 DEF PeerSends, PeerOpens, SessionInv, FieldsStand
  <2> QED BY <2>1 DEF SessionInv, FieldsStand, SessionKeysInv
<1>7. CASE UNCHANGED vars
  BY <1>7 DEF vars, SessionInv, FieldsStand, SessionKeysInv
<1> QED
  BY <1>1, <1>2, <1>3, <1>4, <1>5, <1>6, <1>7 DEF Next

(***************************************************************************)
(* No record is ever sealed or opened with a key of another connection,    *)
(* however often this one agrees on a secret (session.c:23-40, 47-51).     *)
(***************************************************************************)
THEOREM UsesItsKeys == Spec => []KeysAreOfConnection
<1>1. SessionInv => KeysAreOfConnection
  BY DEF SessionInv, SessionKeysInv, KeysAreOfConnection, Once
<1> QED BY <1>1, SessionInitial, SessionStep, PTL DEF Spec
----------------------------------------------------------------------------
(* Nonces. *)

LEMMA NoncesAdvance ==
  /\ NonceOf(0) = Zero
  /\ \A n \in Nat : Incremented(NonceOf(n)) = NonceOf(n + 1)
<1>1. NonceOf(0) = Zero
  <2>1. \A k \in 1..NonceBytes : Digit(Radix, 0, k - 1) = 0
    <3> SUFFICES ASSUME NEW k \in 1..NonceBytes PROVE Digit(Radix, 0, k - 1) = 0
      OBVIOUS
    <3> DEFINE c == PowersOf(Radix)[k - 1]
    <3>1. c \in Nat \ {0} /\ Radix \in Nat \ {0}
      <4>1. k - 1 \in Nat
        BY BytesAssumption
      <4> QED BY <4>1, PowerAt, BytesAssumption
    <3> HIDE DEF c
    <3>2. (0 \div c) % Radix = 0
      BY <3>1
    <3> QED BY <3>2 DEF Digit, c
  <2> QED BY <2>1 DEF NonceOf, Zero
<1>2. ASSUME NEW n \in Nat PROVE Incremented(NonceOf(n)) = NonceOf(n + 1)
  <2> DEFINE nonce == NonceOf(n)
  <2>1. \A k \in 1..NonceBytes : nonce[k] = Digit(Radix, n, k - 1)
    BY DEF NonceOf
  <2> HIDE DEF nonce
  <2>2. ASSUME NEW k \in 1..NonceBytes
        PROVE  (IF \A j \in 1..(k - 1) : nonce[j] = Radix - 1
                THEN (nonce[k] + 1) % Radix ELSE nonce[k])
                 = Digit(Radix, n + 1, k - 1)
    <3>1. k - 1 \in Nat /\ \A j \in 1..(k - 1) : j \in 1..NonceBytes
      BY BytesAssumption
    <3>2. (\A j \in 1..(k - 1) : nonce[j] = Radix - 1) <=> AllHigh(Radix, n, k - 1)
      <4>1. ASSUME \A j \in 1..(k - 1) : nonce[j] = Radix - 1,
                   NEW j \in 0..((k - 1) - 1)
            PROVE  Digit(Radix, n, j) = Radix - 1
        <5>1. j + 1 \in 1..(k - 1) /\ j + 1 \in 1..NonceBytes /\ (j + 1) - 1 = j
          BY BytesAssumption
        <5> QED BY <2>1, <4>1, <5>1
      <4>2. ASSUME AllHigh(Radix, n, k - 1), NEW j \in 1..(k - 1)
            PROVE  nonce[j] = Radix - 1
        <5>1. j - 1 \in 0..((k - 1) - 1) /\ j \in 1..NonceBytes
          BY BytesAssumption
        <5> QED BY <2>1, <4>2, <5>1 DEF AllHigh
      <4> QED BY <4>1, <4>2 DEF AllHigh
    <3>3. Digit(Radix, n + 1, k - 1) =
            IF AllHigh(Radix, n, k - 1) THEN (Digit(Radix, n, k - 1) + 1) % Radix
            ELSE Digit(Radix, n, k - 1)
      BY <3>1, NextDigit, BytesAssumption
    <3> QED BY <2>1, <3>2, <3>3
  <2>3. Incremented(nonce) = NonceOf(n + 1)
    BY <2>2 DEF Incremented, NonceOf
  <2> QED BY <2>3 DEF nonce
<1> QED BY <1>1, <1>2
----------------------------------------------------------------------------
(* The records under way. *)

Record ==
  [key : Secrets \cup {None}, nonce : [1..NonceBytes -> Int] \cup {None},
   length : Lengths]

QueuesStand ==
  /\ peer.sent \in Nat /\ peer.opened \in Nat
  /\ toPeer \in Seq(Record) /\ toUs \in Seq(Record)

\* Numbers of the records that wait: those to the controller follow the ones
\* it opened, and those to the accessory end at the last one sent.
ToPeerInOrder ==
  \A k \in 1..Len(toPeer) :
    toPeer[k].key = peer.secret /\ toPeer[k].nonce = NonceOf(peer.opened + k - 1)
ToUsInOrder ==
  /\ peer.sent >= Len(toUs)
  /\ \A k \in 1..Len(toUs) :
       toUs[k] = Sealed(peer.secret, NonceOf(peer.sent - Len(toUs) + k - 1),
                        toUs[k].length)
NoncesAgree ==
  /\ Derived.read_nonce = NonceOf(peer.opened + Len(toPeer))
  /\ Derived.write_nonce = NonceOf(peer.sent - Len(toUs))

InOrder ==
  /\ QueuesStand
  /\ session_state.encrypting => ToPeerInOrder /\ ToUsInOrder /\ NoncesAgree
  /\ ShortRecordsOpen

RecordsInv ==
  /\ SessionInv
  /\ peer.secret \in Secrets \cup {None}
  /\ Once => InOrder

LEMMA NoncesAreNonces ==
  \A n \in Int : n \in Nat => NonceOf(n) \in [1..NonceBytes -> Int]
<1> SUFFICES ASSUME NEW n \in Nat PROVE NonceOf(n) \in [1..NonceBytes -> Int]
  OBVIOUS
<1>1. \A k \in 1..NonceBytes : Digit(Radix, n, k - 1) \in Int
  <2> SUFFICES ASSUME NEW k \in 1..NonceBytes PROVE Digit(Radix, n, k - 1) \in Int
    OBVIOUS
  <2>1. k - 1 \in Nat
    BY BytesAssumption
  <2>2. Digit(Radix, n, k - 1) \in 0..(Radix - 1)
    BY <2>1, DigitIsSmall, BytesAssumption
  <2> QED BY <2>2, BytesAssumption
<1> QED BY <1>1 DEF NonceOf

\* Queues.
LEMMA Queued ==
  ASSUME NEW S, NEW s \in Seq(S), NEW x \in S
  PROVE  /\ Append(s, x) \in Seq(S) /\ Len(Append(s, x)) = Len(s) + 1
         /\ \A k \in 1..(Len(s) + 1) :
              Append(s, x)[k] = IF k = Len(s) + 1 THEN x ELSE s[k]
OBVIOUS

LEMMA Taken ==
  ASSUME NEW S, NEW s \in Seq(S), s # <<>>
  PROVE  /\ Len(s) \in Nat \ {0} /\ Head(s) = s[1] /\ Head(s) \in S
         /\ Tail(s) \in Seq(S) /\ Len(Tail(s)) = Len(s) - 1
         /\ \A k \in 1..(Len(s) - 1) : Tail(s)[k] = s[k + 1]
OBVIOUS

\* A record of the accessory gets the nonce of its place.
LEMMA ReadKeepsRecords ==
  ASSUME RecordsInv, Once, ReadEncrypted
  PROVE  RecordsInv'
<1>1. session_state.encrypting /\ UNCHANGED <<shared, peer, agreed, toUs, verdict>>
  BY DEF ReadEncrypted
<1>2. PICK length \in Lengths :
        toPeer' = Append(toPeer, Sealed(Derived.key, Derived.read_nonce, length))
  BY DEF ReadEncrypted
<1>3. SessionInv'
  BY <1>1, KeysAreUsed DEF ReadEncrypted, RecordsInv
<1>4. /\ peer.secret \in Secrets \cup {None} /\ Derived.key = peer.secret
      /\ peer.sent \in Nat /\ peer.opened \in Nat
      /\ toPeer \in Seq(Record) /\ toUs \in Seq(Record)
  BY <1>1 DEF RecordsInv, InOrder, Once, SessionInv, SessionKeysInv, QueuesStand, Derived
<1> DEFINE n == peer.opened + Len(toPeer)
           fresh == Sealed(Derived.key, Derived.read_nonce, length)
<1>5. n \in Nat /\ Len(toPeer) \in Nat /\ Len(toUs) \in Nat
  BY <1>4
<1>6. Derived.read_nonce = NonceOf(n)
  BY <1>1 DEF RecordsInv, InOrder, NoncesAgree
<1>7. fresh \in Record /\ fresh.key = peer.secret /\ fresh.nonce = NonceOf(n)
  <2>1. NonceOf(n) \in [1..NonceBytes -> Int]
    BY <1>5, NoncesAreNonces
  <2> HIDE DEF n
  <2> QED BY <1>4, <1>6, <2>1 DEF Sealed, Record
<1>8. /\ toPeer' \in Seq(Record) /\ Len(toPeer') = Len(toPeer) + 1
      /\ \A k \in 1..(Len(toPeer) + 1) :
           toPeer'[k] = IF k = Len(toPeer) + 1 THEN fresh ELSE toPeer[k]
  <2> HIDE DEF fresh
  <2> QED BY <1>2, <1>4, <1>7, Queued DEF fresh
<1>9. ToPeerInOrder'
  <2> SUFFICES ASSUME NEW k \in 1..(Len(toPeer) + 1)
               PROVE  /\ toPeer'[k].key = peer.secret
                      /\ toPeer'[k].nonce = NonceOf(peer.opened + k - 1)
    BY <1>1, <1>8 DEF ToPeerInOrder
  <2>1. CASE k = Len(toPeer) + 1
    <3>1. peer.opened + k - 1 = n
      BY <1>4, <1>5, <2>1
    <3> HIDE DEF n, fresh
    <3> QED BY <1>7, <1>8, <2>1, <3>1
  <2>2. CASE k # Len(toPeer) + 1
    <3>1. k \in 1..Len(toPeer)
      BY <1>5, <2>2
    <3> QED BY <1>1, <1>8, <2>2, <3>1 DEF RecordsInv, InOrder, ToPeerInOrder
  <2> QED BY <2>1, <2>2
<1>10. ToUsInOrder'
  BY <1>1 DEF RecordsInv, InOrder, ToUsInOrder
<1>11. NoncesAgree'
  <2>1. Derived' = [Derived EXCEPT !.read_nonce = Incremented(@)]
    <3>1. session_state'.havekeys
      BY <1>1 DEF ReadEncrypted, GenKeys, RecordsInv, SessionInv, FieldsStand
    <3> QED BY <3>1 DEF ReadEncrypted, Derived
  <2>2. /\ Derived'.read_nonce = Incremented(Derived.read_nonce)
        /\ Derived'.write_nonce = Derived.write_nonce
    <3>1. Derived = [key |-> Derived.key, read_nonce |-> Derived.read_nonce,
                     write_nonce |-> Derived.write_nonce]
      BY DEF RecordsInv, InOrder, SessionInv, FieldsStand, Derived
    <3> QED BY <2>1, <3>1
  <2>3. peer.opened + Len(toPeer') = n + 1
    <3>1. Len(toPeer') = Len(toPeer) + 1
      BY <1>8
    <3> QED BY <1>4, <1>5, <3>1
  <2> HIDE DEF n
  <2> QED BY <1>1, <1>5, <1>6, <2>2, <2>3, NoncesAdvance DEF NoncesAgree, RecordsInv, InOrder
<1> QED BY <1>1, <1>3, <1>4, <1>8, <1>9, <1>10, <1>11
    DEF RecordsInv, InOrder, QueuesStand, ShortRecordsOpen

\* A record of the controller is opened with the nonce of its place.
LEMMA WriteKeepsRecords ==
  ASSUME RecordsInv, Once, WriteEncrypted
  PROVE  RecordsInv'
<1>1. /\ session_state.encrypting /\ UNCHANGED <<shared, peer, agreed, toPeer>>
      /\ toUs # <<>> /\ toUs' = Tail(toUs)
  BY DEF WriteEncrypted
<1> DEFINE isOpened == Opens(Head(toUs), Derived.key, Derived.write_nonce)
<1>2. /\ verdict' = [length |-> Head(toUs).length, opened |-> isOpened]
      /\ transport' = [Derived EXCEPT !.write_nonce = Incremented(@)]
  BY DEF WriteEncrypted, Advanced
<1>3. SessionInv'
  BY <1>1, <1>2, KeysAreUsed DEF WriteEncrypted, RecordsInv
<1>4. /\ peer.secret \in Secrets \cup {None} /\ Derived.key = peer.secret
      /\ peer.sent \in Nat /\ peer.opened \in Nat
      /\ toPeer \in Seq(Record) /\ toUs \in Seq(Record)
  BY <1>1 DEF RecordsInv, InOrder, Once, SessionInv, SessionKeysInv, QueuesStand, Derived
<1> DEFINE n == peer.sent - Len(toUs)
<1>5. /\ Len(toUs) \in Nat \ {0} /\ Head(toUs) = toUs[1] /\ Head(toUs) \in Record
      /\ toUs' \in Seq(Record) /\ Len(toUs') = Len(toUs) - 1
      /\ \A k \in 1..(Len(toUs) - 1) : toUs'[k] = toUs[k + 1]
  BY <1>1, <1>4, Taken
<1>6. /\ n \in Nat /\ Derived.write_nonce = NonceOf(n)
      /\ \A k \in 1..Len(toUs) :
           toUs[k] = Sealed(peer.secret, NonceOf(n + k - 1), toUs[k].length)
  BY <1>1, <1>4, <1>5 DEF RecordsInv, InOrder, NoncesAgree, ToUsInOrder
<1>7. isOpened <=> Head(toUs).length < LengthMod
  <2> DEFINE record == Head(toUs)
             l == record.length
  <2>1. l \in Nat
    BY <1>5, LengthsAssumption DEF Record
  <2>2. record = Sealed(Derived.key, Derived.write_nonce, l)
    <3>1. 1 \in 1..Len(toUs) /\ n + 1 - 1 = n
      BY <1>5, <1>6
    <3> HIDE DEF n
    <3> QED BY <1>4, <1>5, <1>6, <3>1
  <2>3. isOpened <=> l = l % LengthMod
    <3> HIDE DEF l
    <3>1. isOpened <=> Sealed(Derived.key, Derived.write_nonce, l)
                         = Sealed(Derived.key, Derived.write_nonce, l % LengthMod)
      BY <2>2 DEF Opens, l
    <3> QED BY <3>1 DEF Sealed
  <2> HIDE DEF l, isOpened
  <2>4. l = l % LengthMod <=> l < LengthMod
    BY <2>1, BytesAssumption
  <2> QED BY <2>3, <2>4 DEF l
<1>8. ShortRecordsOpen'
  <2> HIDE DEF isOpened
  <2>1. verdict'.opened = isOpened /\ verdict'.length = Head(toUs).length
    BY <1>2
  <2> QED BY <1>7, <2>1 DEF ShortRecordsOpen
<1>9. ToPeerInOrder'
  BY <1>1 DEF RecordsInv, InOrder, ToPeerInOrder
<1>10. ToUsInOrder'
  <2>1. peer.sent >= Len(toUs')
    BY <1>4, <1>5, <1>6
  <2>2. ASSUME NEW k \in 1..Len(toUs')
        PROVE  toUs'[k] = Sealed(peer.secret, NonceOf(peer.sent - Len(toUs') + k - 1),
                                 toUs'[k].length)
    <3>1. k \in 1..(Len(toUs) - 1) /\ k + 1 \in 1..Len(toUs)
          /\ peer.sent - Len(toUs') + k - 1 = n + (k + 1) - 1
      BY <1>4, <1>5
    <3> HIDE DEF n
    <3> QED BY <1>5, <1>6, <3>1
  <2> QED BY <1>1, <2>1, <2>2 DEF ToUsInOrder
<1>11. NoncesAgree'
  <2>1. Derived' = [Derived EXCEPT !.write_nonce = Incremented(@)]
    <3>1. session_state'.havekeys
      BY <1>1 DEF WriteEncrypted, GenKeys, RecordsInv, SessionInv, FieldsStand
    <3> QED BY <1>2, <3>1 DEF Derived
  <2>2. /\ Derived'.write_nonce = Incremented(Derived.write_nonce)
        /\ Derived'.read_nonce = Derived.read_nonce
    <3>1. Derived = [key |-> Derived.key, read_nonce |-> Derived.read_nonce,
                     write_nonce |-> Derived.write_nonce]
      BY DEF RecordsInv, InOrder, SessionInv, FieldsStand, Derived
    <3> QED BY <2>1, <3>1
  <2>3. peer.sent - Len(toUs') = n + 1
    BY <1>4, <1>5
  <2> HIDE DEF n
  <2> QED BY <1>1, <1>6, <2>2, <2>3, NoncesAdvance DEF NoncesAgree, RecordsInv, InOrder
<1> QED BY <1>1, <1>3, <1>4, <1>5, <1>8, <1>9, <1>10, <1>11
    DEF RecordsInv, InOrder, QueuesStand

LEMMA ControllerKeepsRecords ==
  ASSUME RecordsInv, Once, PeerSends \/ PeerOpens, SessionInv'
  PROVE  RecordsInv'
<1>1. /\ UNCHANGED <<session_state, shared, transport, verdict>>
      /\ peer'.secret = peer.secret /\ Derived' = Derived
  BY DEF PeerSends, PeerOpens, RecordsInv, SessionInv, FieldsStand, Derived
<1>2. /\ peer.secret \in Secrets \cup {None}
      /\ peer.sent \in Nat /\ peer.opened \in Nat
      /\ toPeer \in Seq(Record) /\ toUs \in Seq(Record)
      /\ Len(toPeer) \in Nat /\ Len(toUs) \in Nat
      /\ peer = [secret |-> peer.secret, sent |-> peer.sent, opened |-> peer.opened]
      /\ session_state.encrypting <=> peer.secret # None
  BY DEF RecordsInv, InOrder, QueuesStand, SessionInv, SessionKeysInv, FieldsStand
<1>3. CASE PeerSends
  <2>1. PICK length \in Lengths :
          toUs' = Append(toUs, IF peer.secret = None THEN Plain(length)
                               ELSE Sealed(peer.secret, NonceOf(peer.sent), length))
    BY <1>3 DEF PeerSends
  <2>2. /\ toPeer' = toPeer /\ peer'.opened = peer.opened
        /\ peer'.sent = IF peer.secret = None THEN peer.sent ELSE peer.sent + 1
    BY <1>2, <1>3 DEF PeerSends
  <2>3. PICK x : x = IF peer.secret = None THEN Plain(length)
                     ELSE Sealed(peer.secret, NonceOf(peer.sent), length)
    OBVIOUS
  <2>4. x \in Record
    <3>1. NonceOf(peer.sent) \in [1..NonceBytes -> Int]
      BY <1>2, NoncesAreNonces
    <3> QED BY <1>2, <2>3, <3>1 DEF Plain, Sealed, Record
  <2>5. /\ toUs' \in Seq(Record) /\ Len(toUs') = Len(toUs) + 1
        /\ \A k \in 1..(Len(toUs) + 1) :
             toUs'[k] = IF k = Len(toUs) + 1 THEN x ELSE toUs[k]
    BY <1>2, <2>1, <2>3, <2>4, Queued
  <2>6. QueuesStand'
    BY <1>2, <2>2, <2>5 DEF QueuesStand
  <2>7. CASE peer.secret = None
    BY <1>1, <1>2, <2>6, <2>7 DEF RecordsInv, InOrder, ShortRecordsOpen
  <2>8. CASE peer.secret # None
    <3>1. peer'.sent = peer.sent + 1 /\ ToUsInOrder /\ ToPeerInOrder /\ NoncesAgree
      BY <1>2, <2>2, <2>8 DEF RecordsInv, InOrder
    <3>2. peer'.sent - Len(toUs') = peer.sent - Len(toUs)
      BY <1>2, <2>5, <3>1
    <3>3. ASSUME NEW k \in 1..Len(toUs')
          PROVE  toUs'[k] = Sealed(peer'.secret,
                                   NonceOf(peer'.sent - Len(toUs') + k - 1),
                                   toUs'[k].length)
      <4>1. CASE k = Len(toUs) + 1
        <5>1. toUs'[k] = Sealed(peer.secret, NonceOf(peer.sent), length)
              /\ toUs'[k].length = length
          BY <2>3, <2>5, <2>8, <4>1 DEF Sealed
        <5>2. peer'.sent - Len(toUs') + k - 1 = peer.sent
          BY <1>2, <3>2, <4>1
        <5> QED BY <1>1, <5>1, <5>2
      <4>2. CASE k # Len(toUs) + 1
        <5>1. k \in 1..Len(toUs)
          BY <1>2, <2>5, <4>2
        <5> QED BY <1>1, <2>5, <3>1, <3>2, <4>2, <5>1 DEF ToUsInOrder
      <4> QED BY <4>1, <4>2
    <3>4. ToUsInOrder'
      <4>1. peer'.sent >= Len(toUs')
        BY <1>2, <2>5, <3>1 DEF ToUsInOrder
      <4> QED BY <3>3, <4>1 DEF ToUsInOrder
    <3>5. ToPeerInOrder'
      BY <1>1, <2>2, <3>1 DEF ToPeerInOrder
    <3>6. NoncesAgree'
      BY <1>1, <2>2, <3>1, <3>2 DEF NoncesAgree
    <3> QED BY <1>1, <1>2, <2>6, <3>4, <3>5, <3>6 DEF RecordsInv, InOrder, ShortRecordsOpen
  <2> QED BY <2>7, <2>8
<1>4. CASE PeerOpens
  <2>1. /\ toPeer # <<>> /\ toPeer' = Tail(toPeer) /\ toUs' = toUs
        /\ peer'.sent = peer.sent
        /\ peer'.opened = IF peer.secret = None THEN peer.opened ELSE peer.opened + 1
    BY <1>2, <1>4 DEF PeerOpens
  <2>2. /\ Len(toPeer) \in Nat \ {0}
        /\ toPeer' \in Seq(Record) /\ Len(toPeer') = Len(toPeer) - 1
        /\ \A k \in 1..(Len(toPeer) - 1) : toPeer'[k] = toPeer[k + 1]
    BY <1>2, <2>1, Taken
  <2>3. QueuesStand'
    BY <1>2, <2>1, <2>2 DEF QueuesStand
  <2>4. CASE peer.secret = None
    BY <1>1, <1>2, <2>3, <2>4 DEF RecordsInv, InOrder, ShortRecordsOpen
  <2>5. CASE peer.secret # None
    <3>1. peer'.opened = peer.opened + 1 /\ ToUsInOrder /\ ToPeerInOrder /\ NoncesAgree
      BY <1>2, <2>1, <2>5 DEF RecordsInv, InOrder
    <3>2. ASSUME NEW k \in 1..Len(toPeer')
          PROVE  /\ toPeer'[k].key = peer'.secret
                 /\ toPeer'[k].nonce = NonceOf(peer'.opened + k - 1)
      <4>1. k \in 1..(Len(toPeer) - 1) /\ k + 1 \in 1..Len(toPeer)
            /\ peer'.opened + k - 1 = peer.opened + (k + 1) - 1
        <5>1. k \in 1..(Len(toPeer) - 1)
          BY <2>2
        <5>2. peer'.opened = peer.opened + 1 /\ peer.opened \in Nat /\ Len(toPeer) \in Nat
          BY <1>2, <3>1
        <5> QED BY <5>1, <5>2
      <4> QED BY <1>1, <2>2, <3>1, <4>1 DEF ToPeerInOrder
    <3>3. peer'.opened + Len(toPeer') = peer.opened + Len(toPeer)
      BY <1>2, <2>2, <3>1
    <3>4. ToPeerInOrder' /\ ToUsInOrder' /\ NoncesAgree'
      BY <1>1, <2>1, <3>1, <3>2, <3>3 DEF ToPeerInOrder, ToUsInOrder, NoncesAgree
    <3> QED BY <1>1, <1>2, <2>3, <3>4 DEF RecordsInv, InOrder, ShortRecordsOpen
  <2> QED BY <2>4, <2>5
<1> QED BY <1>3, <1>4

LEMMA RecordsInitial == Init => RecordsInv
<1> SUFFICES ASSUME Init PROVE RecordsInv
  OBVIOUS
<1>1. SessionInv /\ ~session_state.encrypting
  BY SessionInitial DEF Init
<1> QED BY <1>1 DEF Init, RecordsInv, InOrder, QueuesStand, ShortRecordsOpen

LEMMA RecordsStep == RecordsInv /\ [Next]_vars => RecordsInv'
<1> SUFFICES ASSUME RecordsInv, [Next]_vars PROVE RecordsInv'
  OBVIOUS
<1>1. SessionInv'
  BY SessionStep DEF RecordsInv
<1>2. CASE session_init
  BY <1>1, <1>2 DEF session_init, Initial, RecordsInv, InOrder, QueuesStand, ShortRecordsOpen
<1>3. CASE Verify
  <2>1. /\ toPeer = <<>> /\ toUs = <<>>
        /\ UNCHANGED <<transport, toPeer, toUs>> /\ verdict' = None
    BY <1>3 DEF Verify
  <2>2. PICK latest \in Secrets :
          /\ latest \notin agreed /\ agreed' = agreed \cup {latest}
          /\ peer' = [secret |-> latest, sent |-> 0, opened |-> 0]
    BY <1>3 DEF Verify, RecordsInv, SessionInv, FieldsStand
  <2>3. SUFFICES ASSUME Once' PROVE InOrder'
    BY <1>1, <2>2 DEF RecordsInv
  <2>4. peer.secret = None
    <3>1. agreed = {}
      BY <2>2, <2>3 DEF Once
    <3> QED BY <3>1 DEF RecordsInv, SessionInv, SessionKeysInv
  <2>5. session_state' = [encrypting |-> TRUE, havekeys |-> FALSE]
    BY <1>3, <2>4 DEF Verify, Encryption, RecordsInv, SessionInv, FieldsStand, SessionKeysInv
  <2>6. Derived'.read_nonce = Zero /\ Derived'.write_nonce = Zero
    BY <2>5 DEF Derived
  <2>7. Len(toPeer') = 0 /\ Len(toUs') = 0
    BY <2>1
  <2>8. ToPeerInOrder' /\ ToUsInOrder'
    BY <2>2, <2>7 DEF ToPeerInOrder, ToUsInOrder
  <2>9. NoncesAgree'
    BY <2>2, <2>6, <2>7, NoncesAdvance DEF NoncesAgree
  <2>10. QueuesStand'
    BY <2>1, <2>2 DEF QueuesStand
  <2> QED BY <2>1, <2>8, <2>9, <2>10 DEF InOrder, ShortRecordsOpen
<1>4. CASE ~Once /\ ~session_init /\ ~Verify
  <2>1. agreed' = agreed /\ peer'.secret = peer.secret
    BY <1>4 DEF Next, vars, ReadEncrypted, ReadPlain, WriteEncrypted, WritePlain,
                PeerSends, PeerOpens, RecordsInv, SessionInv, FieldsStand
  <2> QED BY <1>1, <1>4, <2>1 DEF RecordsInv, Once
<1>5. CASE Once /\ ReadEncrypted
  BY <1>5, ReadKeepsRecords
<1>6. CASE Once /\ WriteEncrypted
  BY <1>6, WriteKeepsRecords
<1>7. CASE Once /\ ReadPlain
  <2>1. PICK length \in Lengths : toPeer' = Append(toPeer, Plain(length))
    BY <1>7 DEF ReadPlain
  <2>2. Plain(length) \in Record
    BY DEF Plain, Sealed, Record
  <2>3. toPeer' \in Seq(Record)
    BY <1>7, <2>1, <2>2, Queued DEF RecordsInv, InOrder, QueuesStand
  <2> QED BY <1>1, <1>7, <2>3
      DEF ReadPlain, RecordsInv, InOrder, QueuesStand, ShortRecordsOpen
<1>8. CASE Once /\ WritePlain
  <2>1. toUs' \in Seq(Record)
    BY <1>8, Taken DEF WritePlain, RecordsInv, InOrder, QueuesStand
  <2> QED BY <1>1, <1>8, <2>1
      DEF WritePlain, RecordsInv, InOrder, QueuesStand, ShortRecordsOpen
<1>9. CASE Once /\ (PeerSends \/ PeerOpens)
  BY <1>1, <1>9, ControllerKeepsRecords
<1>10. CASE Once /\ UNCHANGED vars
  BY <1>1, <1>10 DEF vars, RecordsInv, InOrder, QueuesStand, ShortRecordsOpen,
     ToPeerInOrder, ToUsInOrder, NoncesAgree, Derived
<1> QED
  BY <1>2, <1>3, <1>4, <1>5, <1>6, <1>7, <1>8, <1>9, <1>10 DEF Next

(***************************************************************************)
(* On a connection with one pair-verify each end opens in order what the   *)
(* other sealed, across carries of the nonce and from one connection to    *)
(* the next, except a record whose length is no uint8_t (session.c:47-101; *)
(* crypto.c:94-173).                                                       *)
(***************************************************************************)
THEOREM OpensRecords == Spec => []RecordsOpen
<1>1. RecordsInv => RecordsOpen
  <2> SUFFICES ASSUME RecordsInv, Once PROVE ControllerOpens
    BY DEF RecordsInv, InOrder, RecordsOpen
  <2>1. DOMAIN toPeer = 1..Len(toPeer)
    BY DEF RecordsInv, InOrder, QueuesStand
  <2> QED BY <2>1 DEF RecordsInv, InOrder, SessionInv, SessionKeysInv, ToPeerInOrder,
                      ControllerOpens
<1> QED BY <1>1, RecordsInitial, RecordsStep, PTL DEF Spec
=============================================================================
