---------------------------- MODULE ParsersProofs ----------------------------
(***************************************************************************)
(* Theorems about what is parsed.  Tlv, for messages and pieces of every   *)
(* length: what was decoded stands, and what the accessory encodes in one  *)
(* piece comes back.  HttpRequest, for a request with one Content-Length   *)
(* among headers in any number and order, and bodies of every length: the  *)
(* scan does not leave the headers, and the payload is the body.           *)
(***************************************************************************)
EXTENDS Tlv, HttpRequest, Lemmas

----------------------------------------------------------------------------
(* TLVs. *)

\* The q-th piece of a value of n bytes: where it is in the value, how long,
\* and where it is in the encoding.
ValueAt(q) == q * MaxPiece
PieceLength(n, q) ==
  IF q < PieceCount(n) - 1 THEN MaxPiece ELSE n - ValueAt(q)
PieceAt(q) == ValueAt(q) + 2 * q

\* A message, as both ends see it.
Message(s) ==
  /\ IsSeq(s)
  /\ \A i \in 1..Len(s) : /\ s[i] = [type |-> s[i].type, value |-> s[i].value]
                          /\ IsSeq(s[i].value)
  /\ \A i \in 1..(Len(s) - 1) : s[i].type # s[i + 1].type

\* The message that arrives: pieces of the accessory all start at the first
\* byte of the value.
Repeated(v) == [j \in 1..Len(v) |-> v[((j - 1) % MaxPiece) + 1]]
arriving ==
  IF encoder = "peer" THEN message
  ELSE [i \in 1..Len(message) |->
          [type |-> message[i].type, value |-> Repeated(message[i].value)]]

Length(s, i) == Len(s[i].value)
Count(s, i) == PieceCount(Length(s, i))
Total(s) == Ends(s)[Len(s)]
PieceStart(s, i, q) == Ends(s)[i - 1] + PieceAt(q)

\* A piece stands in b, so much below its place in the encoding.
Stands(b, s, shift, i, q) ==
  LET at == PieceStart(s, i, q) - shift
  IN /\ b[at + 1] = s[i].type
     /\ b[at + 2] = PieceLength(Length(s, i), q)
     /\ \A j \in 1..PieceLength(Length(s, i), q) :
          b[at + 2 + j] = s[i].value[ValueAt(q) + j]
ValueStands(b, s, shift, i) ==
  \A q \in 0..(Count(s, i) - 1) : Stands(b, s, shift, i, q)

\* The first n values are encoded, or the first q pieces of the i-th.
Whole(b, s, n) == \A i \in 1..n : ValueStands(b, s, 0, i)
Begun(b, s, i, q, rest) ==
  /\ rest = Length(s, i) - ValueAt(q) /\ Len(b) = PieceStart(s, i, q)
  /\ \A r \in 0..(q - 1) : Stands(b, s, 0, i, r)

MessageInv ==
  /\ message \in Messages /\ (encoder = "accessory" => NoneEmpty(message))
  /\ pc \in {"encode", "next", "merge", "done"}
  /\ IsSeq(buf) /\ IsSeq(out) /\ data \in Nat \ {0} /\ dlength \in Nat

\* The buffer begins with the whole values before item, and the first pieces
\* of the one that is being encoded.
EncodedInv ==
  pc = "encode" =>
    /\ item \in 1..(Len(message) + 1) /\ left \in Nat
    /\ out = <<>> /\ data = 1 /\ dlength = 0
    /\ left = 0 => Whole(buf, arriving, item - 1) /\ Len(buf) = Ends(arriving)[item - 1]
    /\ left > 0 =>
         /\ encoder = "accessory" /\ item > 1
         /\ value = message[item - 1].value /\ Whole(buf, arriving, item - 2)
         /\ \E q \in 0..(Count(arriving, item - 1) - 1) :
              Begun(buf, arriving, item - 1, q, left)

\* By how much the bytes not decoded have moved down.
Shift == (Total(arriving) + 1 - dlength) - data

\* The bytes not decoded are what is left of the encoding, moved down.
RestInv ==
  pc # "encode" =>
    /\ Len(buf) = Total(arriving) /\ data + dlength <= Total(arriving) + 1
    /\ Len(out) <= Len(arriving)
    /\ \A i \in (Len(out) + 1)..Len(arriving) : ValueStands(buf, arriving, Shift, i)
    /\ pc # "merge" => dlength = Total(arriving) - Ends(arriving)[Len(out)]
    /\ pc = "done" => Len(out) = Len(arriving)

\* What was decoded reads as what was sent.
Shaped(got) == got = [type |-> got.type, value |-> got.value, length |-> got.length]
Reads(b, s, got, end, i) ==
  /\ Shaped(got[i]) /\ got[i].type = s[i].type
  /\ got[i].value \in Nat \ {0} /\ got[i].length \in 0..Length(s, i)
  /\ got[i].value + got[i].length <= end
  /\ \A j \in 1..got[i].length : b[got[i].value + j - 1] = s[i].value[j]
ReadInv ==
  pc # "encode" =>
    \A i \in 1..Len(out) :
      /\ Reads(buf, arriving, out, data, i)
      /\ i < Len(out) \/ pc # "merge" => out[i].length = Length(arriving, i)

\* A value with q of its pieces joined, right before those that are not.
Joined(b, s, shift, n, got, q, end, rest) ==
  /\ got[n].length = ValueAt(q) /\ got[n].value + ValueAt(q) = end
  /\ rest = Total(s) - PieceStart(s, n, q)
  /\ \A r \in q..(Count(s, n) - 1) : Stands(b, s, shift, n, r)
MergeInv ==
  pc = "merge" =>
    /\ Len(out) \in Nat \ {0}
    /\ \E q \in 1..Count(arriving, Len(out)) :
         Joined(buf, arriving, Shift, Len(out), out, q, data, dlength)

TlvInv == MessageInv /\ EncodedInv /\ RestInv /\ ReadInv /\ MergeInv
----------------------------------------------------------------------------
(* Pieces and where they are. *)

LEMMA PieceCounts ==
  ASSUME NEW n \in Nat
  PROVE  /\ PieceCount(n) \in Nat \ {0}
         /\ n <= ValueAt(PieceCount(n))
         /\ ValueAt(PieceCount(n) - 1) <= n
         /\ n # 0 => ValueAt(PieceCount(n) - 1) < n
<1> DEFINE M == MaxPiece
           c == (n + M - 1) \div M
<1>1. M \in Nat \ {0} /\ n + M - 1 \in Int
  BY PieceAssumption
<1> HIDE DEF M
<1>2. c \in Int /\ (n + M - 1) % M \in 0..(M - 1)
      /\ n + M - 1 = M * c + ((n + M - 1) % M)
  BY <1>1, QuotientRemainder
<1> HIDE DEF c
<1>3. M * c - n \in 0..(M - 1)
  BY <1>1, <1>2
<1>4. CASE n = 0
  <2>1. PieceCount(n) = 1
    BY <1>4 DEF PieceCount
  <2>2. ValueAt(1) = M /\ ValueAt(0) = 0
    BY <1>1 DEF ValueAt, M
  <2> QED BY <1>1, <1>4, <2>1, <2>2
<1>5. CASE n # 0
  <2>1. PieceCount(n) = c
    BY <1>5 DEF PieceCount, c, M
  <2>2. c > 0
    <3>1. c <= 0 => M * c <= 0
      BY <1>1, <1>2
    <3>2. M * c \in Int /\ M * c >= n
      BY <1>1, <1>2, <1>3
    <3> QED BY <1>2, <1>5, <3>1, <3>2
  <2>3. ValueAt(c) = M * c /\ ValueAt(c - 1) = M * c - M
    BY <1>1, <1>2 DEF ValueAt, M
  <2> QED BY <1>1, <1>2, <1>3, <1>5, <2>1, <2>2, <2>3
<1> QED BY <1>4, <1>5

LEMMA PieceSteps ==
  ASSUME NEW q \in Nat
  PROVE  /\ ValueAt(q) \in Nat /\ PieceAt(q) \in Nat
         /\ PieceAt(q) = ValueAt(q) + 2 * q
         /\ ValueAt(q + 1) = ValueAt(q) + MaxPiece
         /\ PieceAt(q + 1) = PieceAt(q) + MaxPiece + 2
         /\ ValueAt(0) = 0 /\ PieceAt(0) = 0
         /\ \A r \in Nat : q <= r => ValueAt(q) <= ValueAt(r) /\ PieceAt(q) <= PieceAt(r)
         /\ \A r \in Nat : q < r => ValueAt(q + 1) <= ValueAt(r) /\ PieceAt(q + 1) <= PieceAt(r)
<1>1. MaxPiece \in Nat
  BY PieceAssumption
<1>2. ASSUME NEW r \in Nat  PROVE r * MaxPiece \in Nat /\ ValueAt(r) = r * MaxPiece
  BY <1>1 DEF ValueAt
<1>3. ASSUME NEW a \in Nat, NEW b \in Nat, a <= b  PROVE a * MaxPiece <= b * MaxPiece
  BY <1>1, <1>3
<1>4. (q + 1) * MaxPiece = q * MaxPiece + MaxPiece
  BY <1>1
<1>5. ASSUME NEW r \in Nat, q <= r  PROVE ValueAt(q) <= ValueAt(r) /\ PieceAt(q) <= PieceAt(r)
  BY <1>2, <1>3, <1>5 DEF PieceAt
<1>6. ASSUME NEW r \in Nat, q < r
      PROVE  ValueAt(q + 1) <= ValueAt(r) /\ PieceAt(q + 1) <= PieceAt(r)
  <2>1. q + 1 \in Nat /\ q + 1 <= r
    BY <1>6
  <2> QED BY <1>2, <1>3, <2>1 DEF PieceAt
<1>7. 0 * MaxPiece = 0
  BY <1>1
<1> QED BY <1>1, <1>2, <1>4, <1>5, <1>6, <1>7 DEF PieceAt

\* A piece is within its value and its encoding; only the last one is short.
LEMMA PieceBounds ==
  ASSUME NEW n \in Nat, NEW q \in 0..(PieceCount(n) - 1)
  PROVE  /\ q \in Nat /\ PieceLength(n, q) \in 0..MaxPiece
         /\ ValueAt(q) + PieceLength(n, q) <= n
         /\ PieceAt(q) + 2 + PieceLength(n, q) <= n + 2 * PieceCount(n)
         /\ q < PieceCount(n) - 1 => PieceLength(n, q) = MaxPiece
         /\ q = PieceCount(n) - 1 =>
              /\ PieceLength(n, q) = n - ValueAt(q)
              /\ PieceAt(q) + 2 + PieceLength(n, q) = n + 2 * PieceCount(n)
<1> DEFINE c == PieceCount(n)
<1>1. MaxPiece \in Nat /\ c \in Nat \ {0} /\ q \in Nat /\ c - 1 \in Nat
      /\ (c - 1) + 1 = c
  BY PieceAssumption, PieceCounts
<1>2. /\ n <= ValueAt(c) /\ ValueAt(c - 1) <= n
      /\ ValueAt(q) \in Nat /\ PieceAt(q) = ValueAt(q) + 2 * q
      /\ ValueAt(c) = ValueAt(c - 1) + MaxPiece
  <2>1. ValueAt((c - 1) + 1) = ValueAt(c - 1) + MaxPiece
    BY <1>1, PieceSteps
  <2> QED BY <1>1, <2>1, PieceCounts, PieceSteps
<1>3. CASE q < c - 1
  <2>1. ValueAt(q + 1) <= ValueAt(c - 1) /\ ValueAt(q + 1) = ValueAt(q) + MaxPiece
        /\ ValueAt(c - 1) \in Nat
    BY <1>1, <1>3, PieceSteps
  <2>2. PieceLength(n, q) = MaxPiece
    BY <1>3 DEF PieceLength
  <2> HIDE DEF c
  <2> QED BY <1>1, <1>2, <1>3, <2>1, <2>2 DEF c
<1>4. CASE q = c - 1
  <2>1. PieceLength(n, q) = n - ValueAt(q)
    BY <1>1, <1>4 DEF PieceLength
  <2> QED BY <1>1, <1>2, <1>4, <2>1
<1>5. q < c - 1 \/ q = c - 1
  BY <1>1
<1> QED BY <1>3, <1>4, <1>5

\* The bytes of an encoding, piece by piece.
LEMMA EncodedPieces ==
  ASSUME NEW type, NEW v, IsSeq(v)
  PROVE  LET n == Len(v)
             e == EncodedBy(type, v)
         IN /\ IsSeq(e) /\ Len(e) = n + 2 * PieceCount(n)
            /\ \A q \in 0..(PieceCount(n) - 1) :
                 /\ e[PieceAt(q) + 1] = type
                 /\ e[PieceAt(q) + 2] = PieceLength(n, q)
                 /\ \A j \in 1..PieceLength(n, q) :
                      e[PieceAt(q) + 2 + j] = v[ValueAt(q) + j]
<1> DEFINE n == Len(v)
           e == EncodedBy(type, v)
           width == n + 2 * PieceCount(n)
           byte(q, r) ==
             IF r = 0 THEN type
             ELSE IF r = 1 THEN IF q < PieceCount(n) - 1 THEN MaxPiece
                                                       ELSE n - q * MaxPiece
             ELSE v[q * MaxPiece + r - 1]
           P == MaxPiece + 2
<1>1. n \in Nat /\ PieceCount(n) \in Nat \ {0} /\ width \in Nat
      /\ P \in Nat \ {0} /\ P = MaxPiece + 2 /\ MaxPiece \in Nat
  BY Elements, PieceCounts, PieceAssumption
<1>2. e = [k \in 1..width |-> byte((k - 1) \div P, (k - 1) % P)]
  BY DEF EncodedBy
<1>3. IsSeq(e) /\ Len(e) = width
  <2>1. e = [k \in 1..width |-> e[k]]
    BY <1>2
  <2> HIDE DEF e, width
  <2> QED BY <1>1, <2>1, Tabulated
<1>4. ASSUME NEW q \in 0..(PieceCount(n) - 1), NEW r \in 0..(PieceLength(n, q) + 1)
      PROVE  e[PieceAt(q) + r + 1] = byte(q, r)
  <2>1. q \in Nat /\ PieceLength(n, q) \in 0..MaxPiece /\ PieceAt(q) \in Nat
        /\ PieceAt(q) + 2 + PieceLength(n, q) <= width
    BY <1>1, PieceBounds, PieceSteps
  <2>2. r \in Nat /\ r \in 0..(P - 1) /\ PieceAt(q) + r + 1 \in 1..width
    <3> HIDE DEF width, P
    <3> QED BY <1>1, <2>1, SMTT(30)
  <2>3. PieceAt(q) = P * q
    <3>1. q * MaxPiece = MaxPiece * q /\ P * q = MaxPiece * q + 2 * q
      <4> HIDE DEF P
      <4>1. (MaxPiece + 2) * q = MaxPiece * q + 2 * q
        BY <1>1, <2>1
      <4> QED BY <1>1, <2>1, <4>1
    <3> QED BY <3>1 DEF PieceAt, ValueAt
  <2>4. (P * q + r) \div P = q /\ (P * q + r) % P = r
    <3>1. P \in Nat \ {0} /\ q \in Int /\ r \in 0..(P - 1)
      BY <1>1, <2>1, <2>2
    <3> HIDE DEF P, e, width
    <3> QED BY <3>1, QuotientUnique
  <2> DEFINE k == PieceAt(q) + r + 1
  <2>5. k \in 1..width /\ k - 1 = P * q + r
    <3> HIDE DEF P, width
    <3> QED BY <2>1, <2>2, <2>3
  <2>6. e[k] = byte((k - 1) \div P, (k - 1) % P)
    BY <1>2, <2>5
  <2> HIDE DEF k, byte, e, P
  <2>7. e[k] = byte(q, r)
    BY <2>4, <2>5, <2>6
  <2> QED BY <2>7 DEF k
<1> HIDE DEF e, width
<1>5. ASSUME NEW q \in 0..(PieceCount(n) - 1)
      PROVE  /\ e[PieceAt(q) + 1] = type
             /\ e[PieceAt(q) + 2] = PieceLength(n, q)
             /\ \A j \in 1..PieceLength(n, q) : e[PieceAt(q) + 2 + j] = v[ValueAt(q) + j]
  <2>1. q \in Nat /\ PieceLength(n, q) \in 0..MaxPiece /\ PieceAt(q) \in Nat
        /\ ValueAt(q) \in Nat
    BY <1>1, PieceBounds, PieceSteps
  <2>2. e[PieceAt(q) + 1] = type
    <3>1. 0 \in 0..(PieceLength(n, q) + 1) /\ PieceAt(q) + 0 + 1 = PieceAt(q) + 1
      BY <1>1, <2>1
    <3>2. e[PieceAt(q) + 0 + 1] = byte(q, 0)
      BY <1>4, <3>1
    <3> QED BY <3>1, <3>2
  <2>3. e[PieceAt(q) + 2] = PieceLength(n, q)
    <3>1. 1 \in 0..(PieceLength(n, q) + 1) /\ PieceAt(q) + 1 + 1 = PieceAt(q) + 2
      BY <1>1, <2>1
    <3>2. e[PieceAt(q) + 1 + 1] = byte(q, 1)
      BY <1>4, <3>1
    <3> QED BY <3>1, <3>2 DEF PieceLength, ValueAt
  <2>4. ASSUME NEW j \in 1..PieceLength(n, q)
        PROVE  e[PieceAt(q) + 2 + j] = v[ValueAt(q) + j]
    <3>1. j + 1 \in 0..(PieceLength(n, q) + 1) /\ j + 1 # 0 /\ j + 1 # 1
          /\ PieceAt(q) + (j + 1) + 1 = PieceAt(q) + 2 + j
          /\ ValueAt(q) + (j + 1) - 1 = ValueAt(q) + j
      BY <1>1, <2>1, SMTT(30)
    <3>2. e[PieceAt(q) + (j + 1) + 1] = byte(q, j + 1)
      BY <1>4, <3>1
    <3>3. byte(q, j + 1) = v[ValueAt(q) + (j + 1) - 1]
      BY <3>1 DEF ValueAt
    <3> QED BY <3>1, <3>2, <3>3
  <2> QED BY <2>2, <2>3, <2>4
<1> QED BY <1>3, <1>5 DEF e, width
----------------------------------------------------------------------------
(* Messages. *)

LEMMA MessageFacts ==
  ASSUME NEW m \in Messages
  PROVE  /\ IsSeq(m) /\ Len(m) \in Nat
         /\ \A i \in 1..Len(m) :
              /\ m[i] = [type |-> m[i].type, value |-> m[i].value]
              /\ m[i].value \in Seq(Nat) /\ IsSeq(m[i].value)
              /\ Len(m[i].value) \in Nat
              /\ \A j \in 1..Len(m[i].value) : m[i].value[j] \in Nat
         /\ \A i \in 1..Len(m) : i + 1 <= Len(m) => m[i].type # m[i + 1].type
<1>1. m \in Seq([type : Types, value : Seq(Nat)])
  BY MessagesAssumption
<1>2. IsSeq(m) /\ Len(m) \in Nat
  BY <1>1 DEF IsSeq
<1>3. ASSUME NEW i \in 1..Len(m)
      PROVE  /\ m[i] = [type |-> m[i].type, value |-> m[i].value]
             /\ m[i].value \in Seq(Nat) /\ IsSeq(m[i].value)
             /\ Len(m[i].value) \in Nat
             /\ \A j \in 1..Len(m[i].value) : m[i].value[j] \in Nat
  <2>1. m[i] \in [type : Types, value : Seq(Nat)]
    <3> DEFINE R == [type : Types, value : Seq(Nat)]
    <3>1. m \in Seq(R)
      BY <1>1
    <3> HIDE DEF R
    <3>2. m[i] \in R
      BY <3>1
    <3> QED BY <3>2 DEF R
  <2>2. m[i] = [type |-> m[i].type, value |-> m[i].value] /\ m[i].value \in Seq(Nat)
    BY <2>1
  <2>3. IsSeq(m[i].value)
    BY <2>2 DEF IsSeq
  <2> QED BY <2>2, <2>3
<1>4. ASSUME NEW i \in 1..Len(m), i + 1 <= Len(m)  PROVE m[i].type # m[i + 1].type
  <2>1. i + 1 \in 2..Len(m) /\ (i + 1) - 1 = i
    BY <1>2, <1>4
  <2> QED BY <2>1, MessagesAssumption
<1> QED BY <1>2, <1>3, <1>4

LEMMA EndsAreDefined ==
  ASSUME NEW m, Message(m)
  PROVE  /\ Ends(m) \in [0..Len(m) -> Nat] /\ Ends(m)[0] = 0
         /\ \A i \in 1..Len(m) :
              Ends(m)[i] = Ends(m)[i - 1] + Len(m[i].value)
                             + 2 * PieceCount(Len(m[i].value))
<1> DEFINE N == Len(m)
           Width(i) == Len(m[i].value) + 2 * PieceCount(Len(m[i].value))
           Step == [s \in Nat \X Nat |-> s[2] + (IF s[1] < N THEN Width(s[1] + 1) ELSE 0)]
           Is(f) == f = [i \in 0..N |-> IF i = 0 THEN 0
                                        ELSE f[i - 1] + Len(m[i].value)
                                               + 2 * PieceCount(Len(m[i].value))]
<1>1. N \in Nat /\ \A i \in 1..N : Len(m[i].value) \in Nat /\ PieceCount(Len(m[i].value)) \in Nat
  BY Elements, PieceCounts DEF Message
<1>2. ASSUME NEW k \in Nat, NEW v \in Nat
      PROVE  /\ Step[<<k, v>>] \in Nat
             /\ k < N => Step[<<k, v>>] = v + Width(k + 1)
  <2>1. k < N => k + 1 \in 1..N
    BY <1>1
  <2>2. Step[<<k, v>>] = v + (IF k < N THEN Width(k + 1) ELSE 0)
    OBVIOUS
  <2>3. k < N => Width(k + 1) \in Nat
    BY <1>1, <2>1
  <2> QED BY <2>2, <2>3
<1>3. PICK first \in Nat : first = 0
  OBVIOUS
<1>4. PICK g \in [0..N -> Nat] : Steps(g, N, first, Step)
  <2>1. Stays(Nat, Step)
    BY <1>2 DEF Stays
  <2> HIDE DEF Step, N
  <2> QED BY <1>1, <2>1, StepsExist
<1>5. ASSUME NEW i \in 0..N, i # 0
      PROVE  g[i] = g[i - 1] + Len(m[i].value) + 2 * PieceCount(Len(m[i].value))
  <2>1. i - 1 \in 0..(N - 1) /\ (i - 1) + 1 = i /\ i - 1 \in Nat /\ i - 1 < N
        /\ i - 1 \in 0..N /\ i \in 1..N
    BY <1>1, <1>5
  <2>2. g[(i - 1) + 1] = Step[<<i - 1, g[i - 1]>>]
    BY <1>4, <2>1 DEF Steps
  <2>3. g[i - 1] \in Nat
    BY <1>4, <2>1
  <2>4. Step[<<i - 1, g[i - 1]>>] = g[i - 1] + Width((i - 1) + 1)
    BY <1>2, <2>1, <2>3
  <2>5. g[i] = g[i - 1] + (Len(m[i].value) + 2 * PieceCount(Len(m[i].value)))
    BY <2>1, <2>2, <2>4
  <2> QED BY <1>1, <2>1, <2>3, <2>5
<1>6. g[0] = 0
  BY <1>3, <1>4 DEF Steps
<1>7. Is(g)
  <2>1. g = [i \in 0..N |-> g[i]]
    OBVIOUS
  <2> QED BY <1>5, <1>6, <2>1
<1>8. Is(Ends(m))
  BY <1>7 DEF Ends
<1> DEFINE f == Ends(m)
<1>9. \A i \in 0..N : f[i] = IF i = 0 THEN 0
                             ELSE f[i - 1] + Len(m[i].value)
                                    + 2 * PieceCount(Len(m[i].value))
  BY <1>8
<1>10. f = [i \in 0..N |-> f[i]]
  BY <1>8
<1> HIDE DEF f
<1>11. f[0] = 0
  BY <1>1, <1>9
<1>12. ASSUME NEW i \in 1..N
       PROVE  f[i] = f[i - 1] + Len(m[i].value) + 2 * PieceCount(Len(m[i].value))
  BY <1>1, <1>9
<1> DEFINE S == {k \in Nat : k <= N => f[k] \in Nat}
<1>13. 0 \in S
  BY <1>11
<1>14. ASSUME NEW k \in Nat, k \in S  PROVE k + 1 \in S
  <2>1. SUFFICES ASSUME k + 1 <= N  PROVE f[k + 1] \in Nat
    OBVIOUS
  <2>2. k + 1 \in 1..N /\ (k + 1) - 1 = k /\ f[k] \in Nat
    BY <1>1, <1>14, <2>1
  <2>3. f[k + 1] = f[k] + Len(m[k + 1].value) + 2 * PieceCount(Len(m[k + 1].value))
    BY <1>12, <2>2
  <2>4. Len(m[k + 1].value) \in Nat /\ PieceCount(Len(m[k + 1].value)) \in Nat
    BY <1>1, <2>2
  <2> QED BY <2>2, <2>3, <2>4
<1>15. Nat \subseteq S
  <2> HIDE DEF S
  <2> QED BY <1>13, <1>14, Induction
<1>16. f \in [0..N -> Nat]
  BY <1>1, <1>10, <1>15
<1> QED BY <1>11, <1>12, <1>16 DEF f

LEMMA Encodings ==
  ASSUME NEW s, Message(s)
  PROVE  /\ Len(s) \in Nat /\ Ends(s)[0] = 0
         /\ \A i \in 0..Len(s) : Ends(s)[i] \in Nat
         /\ \A i \in 1..Len(s) :
              /\ Length(s, i) \in Nat /\ Count(s, i) \in Nat \ {0}
              /\ Ends(s)[i] = Ends(s)[i - 1] + Length(s, i) + 2 * Count(s, i)
<1>1. Len(s) \in Nat
  BY Elements DEF Message
<1>2. ASSUME NEW i \in 1..Len(s)
      PROVE  Length(s, i) \in Nat /\ Count(s, i) \in Nat \ {0}
  BY Elements, PieceCounts DEF Message, Length, Count
<1> QED BY <1>1, <1>2, EndsAreDefined DEF Length, Count

LEMMA EndsGrow ==
  ASSUME NEW s, Message(s), NEW i \in 0..Len(s), NEW j \in 0..Len(s), i <= j
  PROVE  Ends(s)[i] <= Ends(s)[j]
<1> DEFINE S == {k \in Nat : i <= k /\ k <= Len(s) => Ends(s)[i] <= Ends(s)[k]}
<1>1. Len(s) \in Nat /\ i \in Nat /\ Ends(s)[i] \in Nat
  BY Encodings
<1>2. 0 \in S
  <2>1. ASSUME i <= 0  PROVE Ends(s)[i] <= Ends(s)[0]
    <3>1. i = 0
      BY <1>1, <2>1
    <3> QED BY <1>1, <3>1
  <2> QED BY <2>1
<1>3. ASSUME NEW k \in Nat, k \in S  PROVE k + 1 \in S
  <2>1. SUFFICES ASSUME i <= k + 1, k + 1 <= Len(s)  PROVE Ends(s)[i] <= Ends(s)[k + 1]
    OBVIOUS
  <2>2. CASE i = k + 1
    BY <1>1, <2>2
  <2>3. CASE i <= k
    <3>1. Ends(s)[i] <= Ends(s)[k] /\ k \in 0..Len(s)
      BY <1>1, <1>3, <2>1, <2>3
    <3>2. k + 1 \in 1..Len(s) /\ (k + 1) - 1 = k
      BY <1>1, <2>1
    <3>3. /\ Ends(s)[k + 1] = Ends(s)[k] + Length(s, k + 1) + 2 * Count(s, k + 1)
          /\ Length(s, k + 1) \in Nat /\ Count(s, k + 1) \in Nat /\ Ends(s)[k] \in Nat
      BY <3>1, <3>2, Encodings
    <3> QED BY <1>1, <3>1, <3>3
  <2> QED BY <1>1, <2>1, <2>2, <2>3
<1>4. Nat \subseteq S
  <2> HIDE DEF S
  <2> QED BY <1>2, <1>3, Induction
<1> QED BY <1>1, <1>4

\* Every piece is inside the encoding of its value, after those before it.
LEMMA PiecesInside ==
  ASSUME NEW s, Message(s), NEW i \in 1..Len(s), NEW q \in 0..(Count(s, i) - 1)
  PROVE  /\ PieceLength(Length(s, i), q) \in 0..MaxPiece
         /\ ValueAt(q) + PieceLength(Length(s, i), q) <= Length(s, i)
         /\ PieceStart(s, i, q) \in Nat /\ Ends(s)[i - 1] <= PieceStart(s, i, q)
         /\ PieceStart(s, i, q) + 2 + PieceLength(Length(s, i), q) <= Ends(s)[i]
         /\ Ends(s)[i] <= Total(s) /\ Ends(s)[i] \in Nat /\ Total(s) \in Nat
         /\ \A r \in Nat : r < q => PieceStart(s, i, r) + 2 + MaxPiece <= PieceStart(s, i, q)
<1>1. /\ Len(s) \in Nat /\ i \in 0..Len(s) /\ i - 1 \in 0..Len(s) /\ Len(s) \in 0..Len(s)
      /\ i <= Len(s)
  BY Encodings
<1>2. /\ Ends(s)[i - 1] \in Nat /\ Ends(s)[i] \in Nat /\ Ends(s)[Len(s)] \in Nat
      /\ Length(s, i) \in Nat /\ Count(s, i) \in Nat
      /\ Ends(s)[i] = Ends(s)[i - 1] + Length(s, i) + 2 * Count(s, i)
      /\ Ends(s)[i] <= Ends(s)[Len(s)]
  BY <1>1, Encodings, EndsGrow
<1>3. /\ q \in Nat /\ PieceLength(Length(s, i), q) \in 0..MaxPiece
      /\ ValueAt(q) + PieceLength(Length(s, i), q) <= Length(s, i)
      /\ PieceAt(q) + 2 + PieceLength(Length(s, i), q) <= Length(s, i) + 2 * Count(s, i)
  BY <1>2, PieceBounds DEF Count
<1>4. PieceAt(q) \in Nat /\ MaxPiece \in Nat
  BY <1>3, PieceSteps, PieceAssumption
<1>5. ASSUME NEW r \in Nat, r < q  PROVE PieceStart(s, i, r) + 2 + MaxPiece <= PieceStart(s, i, q)
  <2>1. PieceAt(r + 1) <= PieceAt(q) /\ PieceAt(r + 1) = PieceAt(r) + MaxPiece + 2
        /\ PieceAt(r) \in Nat
    BY <1>3, <1>5, PieceSteps
  <2>2. PieceAt(r) + 2 + MaxPiece <= PieceAt(q)
    BY <1>4, <2>1
  <2>3. /\ PieceStart(s, i, r) = Ends(s)[i - 1] + PieceAt(r)
        /\ PieceStart(s, i, q) = Ends(s)[i - 1] + PieceAt(q) /\ Ends(s)[i - 1] \in Nat
    BY <1>2 DEF PieceStart
  <2> DEFINE e == Ends(s)[i - 1]
             a == PieceAt(r)
             b == PieceAt(q)
  <2>4. /\ e \in Nat /\ a \in Nat /\ b \in Nat /\ a + 2 + MaxPiece <= b
        /\ PieceStart(s, i, r) = e + a /\ PieceStart(s, i, q) = e + b
    BY <1>4, <2>1, <2>2, <2>3
  <2> HIDE DEF e, a, b
  <2> QED BY <1>4, <2>4
<1>6. /\ PieceStart(s, i, q) \in Nat /\ Ends(s)[i - 1] <= PieceStart(s, i, q)
      /\ PieceStart(s, i, q) + 2 + PieceLength(Length(s, i), q) <= Ends(s)[i]
  <2> DEFINE p == PieceLength(Length(s, i), q)
             before == Ends(s)[i - 1]
             width == Length(s, i) + 2 * Count(s, i)
  <2>1. p \in Nat /\ before \in Nat /\ PieceAt(q) + 2 + p <= width /\ width \in Nat
    <3>1. p \in 0..MaxPiece /\ PieceAt(q) + 2 + p <= width
      BY <1>3
    <3>2. p \in Nat
      <4> HIDE DEF p
      <4> QED BY <1>4, <3>1
    <3>3. before \in Nat /\ Length(s, i) \in Nat /\ Count(s, i) \in Nat
      BY <1>2
    <3>4. width \in Nat
      BY <3>3
    <3> QED BY <3>1, <3>2, <3>3, <3>4
  <2>2. PieceStart(s, i, q) = before + PieceAt(q) /\ Ends(s)[i] = before + width
    BY <1>2 DEF PieceStart
  <2> HIDE DEF p, before, width
  <2>3. PieceStart(s, i, q) \in Nat /\ before <= PieceStart(s, i, q) /\ PieceStart(s, i, q) + 2 + p <= Ends(s)[i]
    BY <1>4, <2>1, <2>2
  <2> QED BY <2>3 DEF p, before
<1> QED BY <1>2, <1>3, <1>5, <1>6 DEF Total

\* What arrives is a message with the lengths of the one that was sent.
LEMMA SentMessage ==
  ASSUME message \in Messages
  PROVE  /\ Message(message) /\ Message(arriving) /\ Len(arriving) = Len(message)
         /\ \A i \in 1..Len(message) :
              /\ arriving[i].type = message[i].type
              /\ Length(arriving, i) = Length(message, i)
<1>1. /\ IsSeq(message) /\ Len(message) \in Nat
      /\ \A i \in 1..Len(message) :
           /\ message[i] = [type |-> message[i].type, value |-> message[i].value]
           /\ IsSeq(message[i].value) /\ Len(message[i].value) \in Nat
      /\ \A i \in 1..Len(message) : i + 1 <= Len(message) => message[i].type # message[i + 1].type
  BY MessageFacts
<1>2. Message(message)
  <2>1. \A i \in 1..(Len(message) - 1) : i \in 1..Len(message) /\ i + 1 <= Len(message)
    BY <1>1
  <2> QED BY <1>1, <2>1 DEF Message
<1>3. CASE encoder = "peer"
  <2>1. arriving = message
    BY <1>3 DEF arriving
  <2> QED BY <1>2, <2>1
<1>4. CASE encoder # "peer"
  <2> DEFINE N == Len(message)
             a == [i \in 1..N |-> [type |-> message[i].type, value |-> Repeated(message[i].value)]]
  <2>1. arriving = a
    BY <1>4 DEF arriving
  <2>2. a = [i \in 1..N |-> a[i]]
    OBVIOUS
  <2>3. \A i \in 1..N : a[i] = [type |-> message[i].type, value |-> Repeated(message[i].value)]
    OBVIOUS
  <2> HIDE DEF a
  <2>4. IsSeq(a) /\ Len(a) = N
    BY <1>1, <2>2, Tabulated
  <2>5. ASSUME NEW i \in 1..N
        PROVE  /\ a[i].type = message[i].type /\ a[i].value = Repeated(message[i].value)
               /\ a[i] = [type |-> a[i].type, value |-> a[i].value]
               /\ IsSeq(a[i].value) /\ Len(a[i].value) = Len(message[i].value)
    <3>1. a[i].type = message[i].type /\ a[i].value = Repeated(message[i].value)
          /\ a[i] = [type |-> a[i].type, value |-> a[i].value]
      <4>1. a[i] = [type |-> message[i].type, value |-> Repeated(message[i].value)]
        BY <2>3
      <4> QED BY <4>1
    <3> DEFINE v == message[i].value
               c == Repeated(v)
               n == Len(v)
    <3>2. c = [j \in 1..n |-> c[j]]
      BY DEF Repeated
    <3>3. n \in Nat
      BY <1>1
    <3> HIDE DEF c, n, v
    <3>4. IsSeq(c) /\ Len(c) = n
      BY <3>2, <3>3, Tabulated
    <3> QED BY <3>1, <3>4 DEF c, n, v
  <2>6. \A i \in 1..(N - 1) : a[i].type # a[i + 1].type
    <3>1. ASSUME NEW i \in 1..(N - 1)  PROVE a[i].type # a[i + 1].type
      <4>1. i \in 1..N /\ i + 1 \in 1..N /\ i + 1 <= N
        BY <1>1
      <4> QED BY <1>1, <2>5, <4>1
    <3> QED BY <3>1
  <2>7. Message(a)
    BY <2>4, <2>5, <2>6 DEF Message
  <2> QED BY <1>2, <2>1, <2>4, <2>5, <2>7 DEF Length
<1> QED BY <1>3, <1>4

\* What its pieces are.
LEMMA SentPieces ==
  ASSUME message \in Messages, NEW i \in 1..Len(message)
  PROVE  /\ encoder = "peer" => arriving = message
         /\ encoder # "peer" => \A q \in 0..(Count(message, i) - 1) :
              \A j \in 1..PieceLength(Length(message, i), q) :
                arriving[i].value[ValueAt(q) + j] = message[i].value[j]
         /\ Length(message, i) <= MaxPiece => arriving[i] = message[i]
<1> DEFINE v == message[i].value
           n == Len(v)
<1>1. IsSeq(v) /\ n \in Nat /\ MaxPiece \in Nat \ {0}
      /\ message[i] = [type |-> message[i].type, value |-> v]
  BY MessageFacts, PieceAssumption
<1>2. encoder = "peer" => arriving = message
  BY DEF arriving
<1>3. CASE encoder # "peer"
  <2>1. arriving[i] = [type |-> message[i].type, value |-> Repeated(v)]
    BY <1>3 DEF arriving
  <2>2. arriving[i].value = Repeated(v)
    BY <2>1
  <2>3. \A k \in 1..n : Repeated(v)[k] = v[((k - 1) % MaxPiece) + 1]
    BY DEF Repeated
  <2>4. ASSUME NEW q \in 0..(PieceCount(n) - 1), NEW j \in 1..PieceLength(n, q)
        PROVE  Repeated(v)[ValueAt(q) + j] = v[j]
    <3>1. /\ q \in Nat /\ PieceLength(n, q) \in 0..MaxPiece
          /\ ValueAt(q) + PieceLength(n, q) <= n /\ ValueAt(q) \in Nat
      <4> HIDE DEF n
      <4> QED BY <1>1, PieceBounds, PieceCounts, PieceSteps
    <3>2. ValueAt(q) + j \in 1..n /\ j - 1 \in 0..(MaxPiece - 1)
      <4> HIDE DEF n
      <4> QED BY <1>1, <3>1
    <3>3. ValueAt(q) = MaxPiece * q
      BY <1>1, <3>1 DEF ValueAt
    <3>4. (MaxPiece * q + (j - 1)) % MaxPiece = j - 1
      <4>1. MaxPiece \in Nat \ {0} /\ q \in Int
        BY <1>1, <3>1
      <4> HIDE DEF n, v
      <4> QED BY <3>2, <4>1, QuotientUnique
    <3>5. ValueAt(q) + j - 1 = MaxPiece * q + (j - 1) /\ (j - 1) + 1 = j
      <4> HIDE DEF n
      <4> QED BY <1>1, <3>1, <3>2, <3>3
    <3> DEFINE k == ValueAt(q) + j
    <3>6. k \in 1..n
      BY <3>2
    <3> HIDE DEF k
    <3>7. Repeated(v)[k] = v[((k - 1) % MaxPiece) + 1]
      BY <2>3, <3>6
    <3>8. k - 1 = MaxPiece * q + (j - 1)
      <4> DEFINE a == ValueAt(q)
                 b == MaxPiece * q
      <4>1. k = a + j /\ a \in Nat /\ j - 1 \in 0..(MaxPiece - 1) /\ a = b
        BY <3>1, <3>2, <3>3 DEF k
      <4>2. j \in Int
        OBVIOUS
      <4> HIDE DEF n, v, a, b
      <4>3. k - 1 = b + (j - 1)
        BY <4>1, <4>2
      <4> QED BY <4>3 DEF b
    <3>9. ((k - 1) % MaxPiece) + 1 = j
      BY <3>4, <3>5, <3>8
    <3> QED BY <3>7, <3>9 DEF k
  <2>5. ASSUME n <= MaxPiece  PROVE Repeated(v) = v
    <3>1. ASSUME NEW k \in 1..n  PROVE ((k - 1) % MaxPiece) + 1 = k
      <4>1. k - 1 \in 0..(MaxPiece - 1) /\ MaxPiece * 0 + (k - 1) = k - 1 /\ 0 \in Int
        <5> HIDE DEF n
        <5> QED BY <1>1, <2>5
      <4>2. (MaxPiece * 0 + (k - 1)) % MaxPiece = k - 1
        <5>1. PICK zero \in Int : zero = 0
          OBVIOUS
        <5>2. (MaxPiece * zero + (k - 1)) % MaxPiece = k - 1
          BY <1>1, <4>1, QuotientUnique
        <5> QED BY <5>1, <5>2
      <4>3. (k - 1) % MaxPiece = k - 1
        BY <4>1, <4>2
      <4>4. (k - 1) + 1 = k
        <5> HIDE DEF n
        <5> QED BY <1>1
      <4> QED BY <4>3, <4>4
    <3>2. Repeated(v) = [k \in 1..n |-> v[((k - 1) % MaxPiece) + 1]]
      BY DEF Repeated
    <3>3. v = [k \in 1..n |-> v[k]]
      BY <1>1, Elements
    <3>4. [k \in 1..n |-> v[((k - 1) % MaxPiece) + 1]] = [k \in 1..n |-> v[k]]
      BY <3>1
    <3> QED BY <3>2, <3>3, <3>4
  <2>6. n <= MaxPiece => arriving[i] = message[i]
    BY <1>1, <2>1, <2>5
  <2> QED BY <1>3, <2>2, <2>4, <2>6 DEF Count, Length
<1>4. CASE encoder = "peer"
  BY <1>2, <1>4
<1> QED BY <1>3, <1>4

\* The encoding only depends on the lengths.
LEMMA EndsAgree ==
  ASSUME NEW s, NEW m, Message(s), Message(m), Len(s) = Len(m),
         \A i \in 1..Len(s) : Length(s, i) = Length(m, i)
  PROVE  Total(s) = Total(m)
<1> DEFINE S == {k \in Nat : k <= Len(s) => Ends(s)[k] = Ends(m)[k]}
<1>1. Len(s) \in Nat /\ 0 \in S
  BY Encodings
<1>2. ASSUME NEW k \in Nat, k \in S  PROVE k + 1 \in S
  <2>1. SUFFICES ASSUME k + 1 <= Len(s)  PROVE Ends(s)[k + 1] = Ends(m)[k + 1]
    OBVIOUS
  <2>2. k + 1 \in 1..Len(s) /\ (k + 1) - 1 = k /\ Ends(s)[k] = Ends(m)[k]
        /\ k + 1 \in 1..Len(m)
    BY <1>1, <1>2, <2>1
  <2>3. Ends(s)[k + 1] = Ends(s)[k] + Length(s, k + 1) + 2 * Count(s, k + 1)
        /\ Ends(m)[k + 1] = Ends(m)[k] + Length(m, k + 1) + 2 * Count(m, k + 1)
    BY <2>2, Encodings
  <2> QED BY <2>2, <2>3 DEF Count
<1>3. Nat \subseteq S
  <2> HIDE DEF S
  <2> QED BY <1>1, <1>2, Induction
<1> QED BY <1>1, <1>3 DEF Total
----------------------------------------------------------------------------
(* Encoding. *)

LEMMA SentStays ==
  ASSUME message' = message, encoder' = encoder  PROVE arriving' = arriving
  BY DEF arriving

\* What stands in a buffer does so when it grows.
LEMMA StandsAppended ==
  ASSUME NEW s, Message(s), NEW i \in 1..Len(s), NEW q \in 0..(Count(s, i) - 1),
         NEW b, NEW c, IsSeq(b), IsSeq(c), Stands(b, s, 0, i, q),
         PieceStart(s, i, q) + 2 + PieceLength(Length(s, i), q) <= Len(b)
  PROVE  Stands(b \o c, s, 0, i, q)
<1> DEFINE at == PieceStart(s, i, q)
           p == PieceLength(Length(s, i), q)
           a == b \o c
<1>1. at \in Nat /\ p \in Nat /\ at - 0 = at /\ Len(b) \in Nat
  BY PiecesInside, PieceAssumption, Elements
<1>2. \A k \in 1..Len(b) : a[k] = b[k]
  BY Concatenated
<1>3. /\ b[at + 1] = s[i].type /\ b[at + 2] = p
      /\ \A j \in 1..p : b[at + 2 + j] = s[i].value[ValueAt(q) + j]
  BY <1>1 DEF Stands
<1>4. at + 2 + p <= Len(b)
  OBVIOUS
<1> HIDE DEF a, at, p
<1>5. at + 1 \in 1..Len(b) /\ at + 2 \in 1..Len(b)
      /\ \A j \in 1..p : at + 2 + j \in 1..Len(b)
  BY <1>1, <1>4
<1>6. /\ a[at + 1] = s[i].type /\ a[at + 2] = p
      /\ \A j \in 1..p : a[at + 2 + j] = s[i].value[ValueAt(q) + j]
  BY <1>2, <1>3, <1>5
<1> QED BY <1>1, <1>6 DEF Stands, a, at, p

LEMMA WholeAppended ==
  ASSUME NEW s, Message(s), NEW n \in 0..Len(s), NEW b, NEW c, IsSeq(b), IsSeq(c),
         Whole(b, s, n), Ends(s)[n] <= Len(b)
  PROVE  Whole(b \o c, s, n)
<1>1. Len(s) \in Nat /\ Len(b) \in Nat /\ Ends(s)[n] \in Nat
  BY Encodings, Elements
<1>2. ASSUME NEW i \in 1..n, NEW q \in 0..(Count(s, i) - 1)
      PROVE  Stands(b \o c, s, 0, i, q)
  <2>1. i \in 1..Len(s) /\ i \in 0..Len(s) /\ i <= n
    BY <1>1
  <2>2. Stands(b, s, 0, i, q)
    BY DEF Whole, ValueStands
  <2>3. /\ PieceStart(s, i, q) + 2 + PieceLength(Length(s, i), q) <= Ends(s)[i]
        /\ PieceStart(s, i, q) \in Nat /\ PieceLength(Length(s, i), q) \in Nat
        /\ Ends(s)[i] \in Nat /\ Ends(s)[i] <= Ends(s)[n]
    BY <2>1, PiecesInside, EndsGrow, PieceAssumption
  <2>4. PieceStart(s, i, q) + 2 + PieceLength(Length(s, i), q) <= Len(b)
    BY <1>1, <2>3
  <2> QED BY <2>1, <2>2, <2>4, StandsAppended
<1> QED BY <1>2 DEF Whole, ValueStands

\* A value that is appended as a correct peer does.
LEMMA ValueAppended ==
  ASSUME NEW s, Message(s), NEW i \in 1..Len(s), NEW b, IsSeq(b),
         Len(b) = Ends(s)[i - 1]
  PROVE  LET c == b \o EncodedBy(s[i].type, s[i].value)
         IN IsSeq(c) /\ Len(c) = Ends(s)[i] /\ ValueStands(c, s, 0, i)
<1> DEFINE v == s[i].value
           n == Len(v)
           e == EncodedBy(s[i].type, v)
           c == b \o e
<1>1. /\ IsSeq(v) /\ n = Length(s, i) /\ n \in Nat /\ PieceCount(n) = Count(s, i)
      /\ Count(s, i) \in Nat
      /\ Ends(s)[i] = Ends(s)[i - 1] + n + 2 * Count(s, i) /\ Ends(s)[i - 1] \in Nat
  <2>1. i - 1 \in 0..Len(s)
    BY Encodings
  <2> QED BY <2>1, Encodings DEF Message, Length, Count
<1>2. /\ IsSeq(e) /\ Len(e) = n + 2 * PieceCount(n)
      /\ \A q \in 0..(PieceCount(n) - 1) :
           /\ e[PieceAt(q) + 1] = s[i].type
           /\ e[PieceAt(q) + 2] = PieceLength(n, q)
           /\ \A j \in 1..PieceLength(n, q) : e[PieceAt(q) + 2 + j] = v[ValueAt(q) + j]
  <2>1. IsSeq(v)
    BY <1>1
  <2> HIDE DEF v
  <2> QED BY <2>1, EncodedPieces
<1> HIDE DEF e
<1>3. /\ IsSeq(c) /\ Len(c) = Len(b) + Len(e)
      /\ \A k \in 1..Len(e) : c[Len(b) + k] = e[k]
  <2>1. IsSeq(e)
    BY <1>2
  <2> QED BY <2>1, Concatenated, SMTT(30)
<1> HIDE DEF c
<1>4. ASSUME NEW q \in 0..(Count(s, i) - 1)  PROVE Stands(c, s, 0, i, q)
  <2> DEFINE at == PieceStart(s, i, q)
             p == PieceLength(n, q)
             w == PieceAt(q)
  <2>1. /\ w \in Nat /\ p \in Nat /\ at = Len(b) + w /\ at - 0 = at /\ Len(b) \in Nat
        /\ w + 2 + p <= Len(e)
    <3>1. q \in Nat /\ p \in Nat /\ w \in Nat /\ w + 2 + p <= n + 2 * PieceCount(n)
      <4>1. n \in Nat /\ q \in 0..(PieceCount(n) - 1)
        BY <1>1
      <4> HIDE DEF n
      <4>2. q \in Nat /\ PieceLength(n, q) \in 0..MaxPiece /\ MaxPiece \in Nat
            /\ PieceAt(q) + 2 + PieceLength(n, q) <= n + 2 * PieceCount(n)
        BY <4>1, PieceBounds, PieceAssumption
      <4>3. PieceAt(q) \in Nat
        BY <4>2, PieceSteps
      <4> QED BY <4>2, <4>3
    <3>2. at = Len(b) + w /\ Len(b) \in Nat
      BY <1>1 DEF PieceStart
    <3>3. Len(e) = n + 2 * PieceCount(n)
      BY <1>2
    <3> HIDE DEF n, w, p, at
    <3> QED BY <3>1, <3>2, <3>3
  <2>2. /\ e[w + 1] = s[i].type /\ e[w + 2] = p
        /\ \A j \in 1..p : e[w + 2 + j] = v[ValueAt(q) + j]
    BY <1>1, <1>2
  <2> HIDE DEF w, p, at, n, v
  <2>3. /\ w + 1 \in 1..Len(e) /\ w + 2 \in 1..Len(e) /\ at + 1 = Len(b) + (w + 1)
        /\ at + 2 = Len(b) + (w + 2)
        /\ \A j \in 1..p : w + 2 + j \in 1..Len(e) /\ at + 2 + j = Len(b) + (w + 2 + j)
    <3>1. Len(e) \in Nat
      <4>1. IsSeq(e)
        BY <1>2
      <4> QED BY <4>1, Elements
    <3>2. /\ w \in Nat /\ p \in Nat /\ at = Len(b) + w /\ Len(b) \in Nat
          /\ w + 2 + p <= Len(e)
      BY <2>1
    <3> DEFINE f == Len(b)
               g == Len(e)
    <3>3. g \in Nat /\ w \in Nat /\ p \in Nat /\ at = f + w /\ f \in Nat /\ w + 2 + p <= g
      BY <3>1, <3>2
    <3> HIDE DEF f, g
    <3>4. /\ w + 1 \in 1..g /\ w + 2 \in 1..g /\ at + 1 = f + (w + 1)
          /\ at + 2 = f + (w + 2)
      BY <3>3
    <3>5. \A j \in 1..p : w + 2 + j \in 1..g /\ at + 2 + j = f + (w + 2 + j)
      BY <3>3
    <3> QED BY <3>4, <3>5 DEF f, g
  <2>4. /\ c[at + 1] = s[i].type /\ c[at + 2] = p
        /\ \A j \in 1..p : c[at + 2 + j] = v[ValueAt(q) + j]
    <3>1. \A k \in 1..Len(e) : c[Len(b) + k] = e[k]
      BY <1>3
    <3>2. c[at + 1] = e[w + 1] /\ c[at + 2] = e[w + 2]
      BY <2>3, <3>1
    <3>3. \A j \in 1..p : c[at + 2 + j] = e[w + 2 + j]
      BY <2>3, <3>1, SMTT(30)
    <3> QED BY <2>2, <3>2, <3>3
  <2> QED BY <1>1, <2>1, <2>4 DEF Stands, at, p, v, n
<1>5. Len(c) = Ends(s)[i]
  BY <1>1, <1>2, <1>3
<1> QED BY <1>3, <1>4, <1>5 DEF ValueStands, c, e

LEMMA PairOf ==
  ASSUME NEW x, NEW y
  PROVE  IsSeq(<<x, y>>) /\ Len(<<x, y>>) = 2 /\ <<x, y>>[1] = x /\ <<x, y>>[2] = y
<1>1. <<x, y>> \in Seq({x, y})
  OBVIOUS
<1>2. IsSeq(<<x, y>>)
  BY <1>1 DEF IsSeq
<1> QED BY <1>2

\* A piece that is appended as tlv_encode_next does.
LEMMA PieceAppended ==
  ASSUME NEW s, Message(s), NEW i \in 1..Len(s), NEW q \in 0..(Count(s, i) - 1),
         NEW b, IsSeq(b), Len(b) = PieceStart(s, i, q),
         NEW v, IsSeq(v), PieceLength(Length(s, i), q) <= Len(v),
         \A j \in 1..PieceLength(Length(s, i), q) : s[i].value[ValueAt(q) + j] = v[j]
  PROVE  LET p == PieceLength(Length(s, i), q)
             a == <<s[i].type, p>>
             c == b \o a \o SubSeq(v, 1, p)
         IN /\ IsSeq(a) /\ IsSeq(b \o a) /\ IsSeq(SubSeq(v, 1, p)) /\ IsSeq(c)
            /\ Len(b \o a) = Len(b) + 2 /\ Len(c) = Len(b) + 2 + p
            /\ Stands(c, s, 0, i, q)
<1> DEFINE p == PieceLength(Length(s, i), q)
           a == <<s[i].type, p>>
           d == SubSeq(v, 1, p)
           ba == b \o a
           c == ba \o d
           at == PieceStart(s, i, q)
<1>1. p \in Nat /\ at \in Nat /\ at - 0 = at /\ Len(v) \in Nat
  BY PiecesInside, PieceAssumption, Elements
<1>2. IsSeq(a) /\ Len(a) = 2 /\ a[1] = s[i].type /\ a[2] = p
  BY PairOf
<1>3. p <= Len(v) /\ \A j \in 1..p : s[i].value[ValueAt(q) + j] = v[j]
  OBVIOUS
<1> HIDE DEF p
<1>4. IsSeq(d) /\ Len(d) = p /\ \A j \in 1..p : d[j] = v[j]
  BY <1>1, <1>3, FirstPart
<1> HIDE DEF a, d
<1>5. /\ IsSeq(ba) /\ Len(ba) = Len(b) + 2 /\ ba[Len(b) + 1] = s[i].type
      /\ ba[Len(b) + 2] = p
  <2>1. /\ IsSeq(ba) /\ Len(ba) = Len(b) + Len(a)
        /\ \A k \in 1..Len(a) : ba[Len(b) + k] = a[k]
    <3>1. IsSeq(a)
      BY <1>2
    <3> QED BY <3>1, Concatenated, SMTT(30)
  <2>2. 1 \in 1..Len(a) /\ 2 \in 1..Len(a)
    BY <1>2
  <2> HIDE DEF ba
  <2>3. ba[Len(b) + 1] = a[1] /\ ba[Len(b) + 2] = a[2]
    BY <2>1, <2>2
  <2> QED BY <1>2, <2>1, <2>3
<1> HIDE DEF ba
<1>6. /\ IsSeq(c) /\ Len(c) = Len(ba) + Len(d)
      /\ \A k \in 1..Len(ba) : c[k] = ba[k]
      /\ \A k \in 1..Len(d) : c[Len(ba) + k] = d[k]
  <2>1. IsSeq(ba) /\ IsSeq(d)
    BY <1>4, <1>5
  <2> QED BY <2>1, Concatenated
<1> HIDE DEF c
<1>7. Len(b) = at
  BY DEF at
<1> HIDE DEF at
<1>8. /\ at + 1 \in 1..Len(ba) /\ at + 2 \in 1..Len(ba) /\ Len(ba) = at + 2
      /\ Len(c) = Len(b) + 2 + p
  BY <1>1, <1>4, <1>5, <1>6, <1>7
<1>9. c[at + 1] = s[i].type /\ c[at + 2] = p
  BY <1>5, <1>6, <1>7, <1>8
<1>10. \A j \in 1..p : c[at + 2 + j] = s[i].value[ValueAt(q) + j]
  BY <1>3, <1>4, <1>6, <1>8, SMTT(30)
<1>11. Stands(c, s, 0, i, q)
  BY <1>1, <1>9, <1>10 DEF Stands, at, p
<1> QED BY <1>2, <1>4, <1>5, <1>6, <1>8, <1>11 DEF a, d, ba, c, p

LEMMA InitTlv == Init => TlvInv
<1> SUFFICES ASSUME Init  PROVE TlvInv
  OBVIOUS
<1> USE DEF Init
<1>1. Message(arriving) /\ Len(message) \in Nat /\ Len(arriving) = Len(message)
  <2>1. message \in Messages
    OBVIOUS
  <2> QED BY <2>1, SentMessage, MessageFacts
<1>2. Whole(buf, arriving, item - 1) /\ Len(buf) = Ends(arriving)[item - 1]
  <2>1. Ends(arriving)[0] = 0
    BY <1>1, Encodings
  <2> QED BY <2>1 DEF Whole
<1>3. EncodedInv
  BY <1>1, <1>2 DEF EncodedInv
<1>4. IsSeq(<<>>)
  <2>1. <<>> \in Seq({})
    OBVIOUS
  <2> QED BY <2>1 DEF IsSeq
<1>5. MessageInv
  BY <1>4 DEF MessageInv
<1> QED BY <1>3, <1>5 DEF TlvInv, RestInv, ReadInv, MergeInv

LEMMA PeerEncodesKeeps ==
  ASSUME TlvInv, PeerEncodes  PROVE TlvInv'
<1>1. PICK s : s = arriving /\ s = arriving'
  BY SentStays DEF PeerEncodes
<1>2. /\ message \in Messages /\ IsSeq(buf) /\ item \in 1..Len(message) /\ left = 0
      /\ Whole(buf, s, item - 1) /\ Len(buf) = Ends(s)[item - 1]
      /\ out = <<>> /\ data = 1 /\ dlength = 0
  <2>1. MessageInv /\ EncodedInv /\ pc = "encode" /\ encoder = "peer" /\ item <= Len(message)
    BY DEF TlvInv, PeerEncodes
  <2>2. item \in 1..(Len(message) + 1) /\ left \in Nat
    BY <2>1 DEF EncodedInv
  <2>3. ~(left > 0)
    BY <2>1 DEF EncodedInv
  <2>4. Len(message) \in Nat
    BY <2>1, MessageFacts DEF MessageInv
  <2> QED BY <1>1, <2>1, <2>2, <2>3, <2>4 DEF EncodedInv, MessageInv
<1>3. /\ Message(s) /\ Len(s) = Len(message) /\ Len(s) \in Nat /\ s = message
  <2>1. Message(s) /\ Len(s) = Len(message)
    BY <1>1, <1>2, SentMessage
  <2>2. Len(s) \in Nat
    BY <2>1, Encodings
  <2>3. s = message
    BY <1>1 DEF arriving, PeerEncodes
  <2> QED BY <2>1, <2>2, <2>3
<1>4. item \in 1..Len(s) /\ item - 1 \in 0..Len(s) /\ item \in Nat
  BY <1>2, <1>3
<1> DEFINE i == item
           e == EncodedBy(s[i].type, s[i].value)
           c == buf \o e
<1>5. IsSeq(c) /\ Len(c) = Ends(s)[i] /\ ValueStands(c, s, 0, i)
  BY <1>2, <1>3, <1>4, ValueAppended
<1>6. IsSeq(e)
  <2>1. IsSeq(s[i].value)
    BY <1>3, <1>4 DEF Message
  <2> QED BY <2>1, EncodedPieces
<1>7. Ends(s)[i - 1] \in Nat
  BY <1>3, <1>4, Encodings
<1>8. Whole(c, s, i - 1)
  <2> HIDE DEF e
  <2> QED BY <1>2, <1>3, <1>4, <1>6, <1>7, WholeAppended
<1>9. Whole(c, s, i)
  <2> HIDE DEF c
  <2>1. ASSUME NEW k \in 1..i  PROVE ValueStands(c, s, 0, k)
    <3>1. k \in 1..(i - 1) \/ k = i
      BY <1>4
    <3> QED BY <1>5, <1>8, <3>1 DEF Whole
  <2> QED BY <2>1 DEF Whole
<1>10. buf' = c /\ item' = i + 1
  BY <1>3 DEF PeerEncodes
<1> HIDE DEF c, e
<1>11. item' \in 1..(Len(message') + 1) /\ item' - 1 = i
  BY <1>2, <1>3, <1>4, <1>10 DEF PeerEncodes
<1>12. EncodedInv'
  <2>1. left' = 0 /\ out' = <<>> /\ data' = 1 /\ dlength' = 0
    BY <1>2 DEF PeerEncodes
  <2>2. Whole(buf', arriving', item' - 1) /\ Len(buf') = Ends(arriving')[item' - 1]
    BY <1>1, <1>5, <1>9, <1>10, <1>11
  <2> QED BY <1>11, <2>1, <2>2 DEF EncodedInv
<1>13. MessageInv' /\ pc' = "encode"
  BY <1>5, <1>10 DEF TlvInv, MessageInv, PeerEncodes, NoneEmpty
<1> QED BY <1>12, <1>13 DEF TlvInv, RestInv, ReadInv, MergeInv

LEMMA EncodeNextKeeps ==
  ASSUME TlvInv, EncodeNext  PROVE TlvInv'
<1>1. PICK s : s = arriving /\ s = arriving'
  BY SentStays DEF EncodeNext
<1>2. /\ message \in Messages /\ NoneEmpty(message) /\ IsSeq(buf) /\ item \in 1..Len(message)
      /\ Whole(buf, s, item - 1) /\ Len(buf) = Ends(s)[item - 1]
      /\ out = <<>> /\ data = 1 /\ dlength = 0
  <2>1. MessageInv /\ EncodedInv /\ pc = "encode" /\ encoder = "accessory"
        /\ item <= Len(message) /\ left = 0
    BY DEF TlvInv, EncodeNext
  <2>2. item \in 1..(Len(message) + 1)
    BY <2>1 DEF EncodedInv
  <2>3. Len(message) \in Nat
    BY <2>1, MessageFacts DEF MessageInv
  <2> QED BY <1>1, <2>1, <2>2, <2>3 DEF EncodedInv, MessageInv
<1>3. Message(s) /\ Len(s) = Len(message) /\ Len(s) \in Nat
  BY <1>1, <1>2, SentMessage, Encodings
<1>4. item \in 1..Len(s) /\ item - 1 \in 0..Len(s) /\ item \in Nat \ {0}
  BY <1>2, <1>3
<1> DEFINE i == item
           n == Length(s, i)
<1>5. n = Len(message[i].value) /\ n \in Nat \ {0} /\ Count(s, i) \in Nat \ {0}
      /\ Ends(s)[i - 1] \in Nat
  <2>1. n = Len(message[i].value)
    BY <1>1, <1>2, SentMessage DEF Length
  <2>2. message[i].value # <<>> /\ IsSeq(message[i].value)
    <3>1. DOMAIN message = 1..Len(message)
      BY <1>2, MessageFacts, Elements
    <3> QED BY <1>2, <3>1, MessageFacts DEF NoneEmpty
  <2>3. Len(message[i].value) # 0
    <3> DEFINE v == message[i].value
    <3>1. IsSeq(v) /\ v # <<>>
      BY <2>2
    <3> HIDE DEF v
    <3>2. Len(v) # 0
      BY <3>1 DEF IsSeq
    <3> QED BY <3>2 DEF v
  <2> QED BY <1>3, <1>4, <2>1, <2>3, Encodings
<1> HIDE DEF n
<1>6. ValueAt(0) = 0 /\ PieceAt(0) = 0
  BY PieceSteps
<1>7. Begun(buf, s, i, 0, n)
  <2>1. n = Length(s, i) - ValueAt(0)
    BY <1>5, <1>6 DEF n
  <2>2. Len(buf) = PieceStart(s, i, 0)
    BY <1>2, <1>5, <1>6 DEF PieceStart
  <2> QED BY <2>1, <2>2 DEF Begun
<1>8. /\ item' = i + 1 /\ item' - 1 = i /\ item' - 2 = i - 1 /\ item' > 1
      /\ item' \in 1..(Len(message) + 1)
  BY <1>3, <1>4 DEF EncodeNext
<1>9. /\ left' = n /\ value' = message'[i].value /\ message' = message /\ buf' = buf
      /\ out' = <<>> /\ data' = 1 /\ dlength' = 0 /\ encoder' = "accessory" /\ pc' = "encode"
  BY <1>2, <1>5 DEF EncodeNext
<1>10. EncodedInv'
  <2>1. \E q \in 0..(Count(arriving', item' - 1) - 1) : Begun(buf', arriving', item' - 1, q, left')
    <3>1. 0 \in 0..(Count(s, i) - 1)
      BY <1>5
    <3>2. Begun(buf', arriving', item' - 1, 0, left') /\ 0 \in 0..(Count(arriving', item' - 1) - 1)
      BY <1>1, <1>7, <1>8, <1>9, <3>1
    <3> QED BY <3>2
  <2>2. Whole(buf', arriving', item' - 2)
    BY <1>1, <1>2, <1>8, <1>9
  <2>3. left' \in Nat /\ left' # 0 /\ value' = message'[item' - 1].value
    BY <1>5, <1>8, <1>9
  <2> QED BY <1>8, <1>9, <2>1, <2>2, <2>3 DEF EncodedInv
<1>11. MessageInv'
  BY <1>9 DEF TlvInv, MessageInv, EncodeNext, NoneEmpty
<1> QED BY <1>9, <1>10, <1>11 DEF TlvInv, RestInv, ReadInv, MergeInv

\* What tlv_encode_next copies in a round is the next piece.
LEMMA SizeOfPiece ==
  ASSUME NEW n \in Nat, NEW q \in 0..(PieceCount(n) - 1), n - ValueAt(q) > 0
  PROVE  /\ Size(n - ValueAt(q)) = PieceLength(n, q)
         /\ n - ValueAt(q) - PieceLength(n, q) \in Nat
         /\ n - ValueAt(q) - PieceLength(n, q) = 0 <=> q = PieceCount(n) - 1
<1> DEFINE c == PieceCount(n)
           p == PieceLength(n, q)
           at == ValueAt(q)
<1>1. c \in Nat \ {0} /\ q \in Nat /\ at \in Nat /\ MaxPiece \in Nat \ {0}
      /\ p \in 0..MaxPiece /\ at + p <= n
  BY PieceCounts, PieceBounds, PieceSteps, PieceAssumption
<1>2. CASE q < c - 1
  <2>1. p = MaxPiece
    BY <1>2 DEF PieceLength
  <2>2. ValueAt(q + 1) = at + MaxPiece /\ ValueAt(q + 1) <= ValueAt(c - 1)
        /\ ValueAt(c - 1) \in Nat
    <3>1. q \in Nat /\ c - 1 \in Nat /\ q < c - 1
      BY <1>1, <1>2
    <3> QED BY <3>1, PieceSteps
  <2>3. n # 0
    BY <1>1
  <2>4. ValueAt(c - 1) < n
    BY <2>3, PieceCounts
  <2> HIDE DEF c, p, at
  <2>5. n - at > MaxPiece
    BY <1>1, <2>2, <2>4
  <2>6. Size(n - at) = MaxPiece /\ n - at - p \in Nat /\ n - at - p # 0 /\ q # c - 1
    BY <1>1, <1>2, <2>1, <2>5 DEF Size
  <2> QED BY <2>1, <2>6 DEF c, p, at
<1>3. CASE q = c - 1
  <2>1. p = n - at
    BY <1>1, <1>3 DEF PieceLength
  <2>2. n - at <= MaxPiece
    BY <1>1, <2>1
  <2> HIDE DEF c, p, at
  <2>3. Size(n - at) = n - at /\ n - at - p = 0
    BY <1>1, <2>1, <2>2 DEF Size
  <2> QED BY <1>3, <2>1, <2>3 DEF c, p, at
<1>4. q < c - 1 \/ q = c - 1
  BY <1>1
<1> QED BY <1>2, <1>3, <1>4

LEMMA EncodePieceKeeps ==
  ASSUME TlvInv, EncodePiece  PROVE TlvInv'
<1>1. PICK s : s = arriving /\ s = arriving'
  BY SentStays DEF EncodePiece
<1>2. /\ message \in Messages /\ IsSeq(buf) /\ item \in 2..(Len(message) + 1)
      /\ encoder = "accessory" /\ value = message[item - 1].value
      /\ Whole(buf, s, item - 2) /\ out = <<>> /\ data = 1 /\ dlength = 0
      /\ \E q \in 0..(Count(s, item - 1) - 1) : Begun(buf, s, item - 1, q, left)
      /\ left \in Nat /\ left > 0
  <2>1. MessageInv /\ EncodedInv /\ pc = "encode" /\ left > 0
    BY DEF TlvInv, EncodePiece
  <2>2. item \in 1..(Len(message) + 1) /\ item > 1
    BY <2>1 DEF EncodedInv
  <2>3. Len(message) \in Nat
    BY <2>1, MessageFacts DEF MessageInv
  <2> QED BY <1>1, <2>1, <2>2, <2>3 DEF EncodedInv, MessageInv
<1>3. Message(s) /\ Len(s) = Len(message) /\ Len(s) \in Nat
  BY <1>1, <1>2, SentMessage, Encodings
<1>4. PICK i : i = item - 1 /\ i \in 1..Len(s) /\ i - 1 \in 0..Len(s) /\ item - 2 = i - 1
               /\ i + 1 = item /\ i \in Nat
  BY <1>2, <1>3
<1>5. PICK q \in 0..(Count(s, i) - 1) : Begun(buf, s, i, q, left)
  BY <1>2, <1>4
<1>6. PICK n \in Nat : n = Length(s, i) /\ n = Length(message, i)
  <2>1. Length(s, i) = Length(message, i) /\ Length(s, i) \in Nat
    BY <1>1, <1>2, <1>3, <1>4, SentMessage, Encodings
  <2> QED BY <2>1
<1> DEFINE p == PieceLength(n, q)
           v == value
<1>7. /\ q \in 0..(PieceCount(n) - 1) /\ left = n - ValueAt(q) /\ Len(buf) = PieceStart(s, i, q)
      /\ \A r \in 0..(q - 1) : Stands(buf, s, 0, i, r)
  BY <1>5, <1>6 DEF Begun, Count
<1>8. Size(left) = p /\ left - p \in Nat /\ (left - p = 0 <=> q = Count(s, i) - 1)
  BY <1>2, <1>6, <1>7, SizeOfPiece DEF Count
<1>9. /\ q \in Nat /\ p \in 0..MaxPiece /\ ValueAt(q) + p <= n /\ ValueAt(q) \in Nat
      /\ q < PieceCount(n) - 1 => p = MaxPiece
      /\ q = PieceCount(n) - 1 =>
           p = n - ValueAt(q) /\ PieceAt(q) + 2 + p = n + 2 * PieceCount(n)
  <2>1. q \in Nat
    BY <1>7
  <2> QED BY <1>7, <2>1, PieceBounds, PieceSteps
<1>10. MaxPiece \in Nat /\ p \in Nat
  BY <1>9, PieceAssumption
<1>11. IsSeq(v) /\ Len(v) = n /\ p <= Len(v)
  <2>1. IsSeq(message[i].value) /\ Len(message[i].value) = n
    BY <1>2, <1>3, <1>4, <1>6, MessageFacts DEF Length
  <2>2. v = message[i].value
    BY <1>2, <1>4
  <2> HIDE DEF p
  <2>3. p <= n
    BY <1>6, <1>9, <1>10
  <2> QED BY <2>1, <2>2, <2>3
<1>12. \A j \in 1..p : s[i].value[ValueAt(q) + j] = v[j]
  <2>1. /\ i \in 1..Len(message) /\ encoder # "peer" /\ q \in 0..(Count(message, i) - 1)
        /\ Length(message, i) = n /\ v = message[i].value
    BY <1>2, <1>3, <1>4, <1>6, <1>7 DEF Count
  <2> QED BY <1>1, <1>2, <2>1, SentPieces
<1> DEFINE a == <<s[i].type, p>>
           d == SubSeq(v, 1, p)
           ba == buf \o a
           c == ba \o d
<1>13. /\ IsSeq(a) /\ IsSeq(ba) /\ IsSeq(d) /\ IsSeq(c)
       /\ Len(ba) = Len(buf) + 2 /\ Len(c) = Len(buf) + 2 + p
       /\ Stands(c, s, 0, i, q)
  <2>1. /\ PieceLength(Length(s, i), q) <= Len(v)
        /\ \A j \in 1..PieceLength(Length(s, i), q) : s[i].value[ValueAt(q) + j] = v[j]
    BY <1>6, <1>11, <1>12
  <2>2. /\ IsSeq(a) /\ IsSeq(ba) /\ IsSeq(d) /\ IsSeq(c)
        /\ Len(ba) = Len(buf) + 2 /\ Len(c) = Len(buf) + 2 + p
        /\ Stands(c, s, 0, i, q)
    <3> DEFINE p2 == PieceLength(Length(s, i), q)
               a2 == <<s[i].type, p2>>
               ba2 == buf \o a2
               d2 == SubSeq(v, 1, p2)
               c2 == ba2 \o d2
    <3>1. IsSeq(buf) /\ IsSeq(v) /\ Len(buf) = PieceStart(s, i, q)
      BY <1>2, <1>7, <1>11
    <3>2. /\ IsSeq(a2) /\ IsSeq(ba2) /\ IsSeq(d2) /\ IsSeq(c2)
          /\ Len(ba2) = Len(buf) + 2 /\ Len(c2) = Len(buf) + 2 + p2
          /\ Stands(c2, s, 0, i, q)
      <4> HIDE DEF v
      <4> QED BY <1>3, <1>4, <1>5, <2>1, <3>1, PieceAppended
    <3>3. p2 = p
      BY <1>6
    <3> QED BY <3>2, <3>3
  <2> QED BY <2>2
<1> HIDE DEF d, p, a
<1>14. Len(buf) \in Nat /\ Len(buf) <= Len(ba)
  <2>1. Len(buf) \in Nat
    BY <1>2, Elements
  <2> QED BY <1>13, <2>1
<1> HIDE DEF ba
<1>15. ASSUME NEW r \in 0..(q - 1)  PROVE Stands(c, s, 0, i, r)
  <2>1. r \in 0..(Count(s, i) - 1) /\ r < q /\ r \in Nat
    <3>1. Count(s, i) \in Nat
      BY <1>3, <1>4, Encodings
    <3> QED BY <1>5, <1>9, <3>1
  <2>2. PieceStart(s, i, r) + 2 + PieceLength(Length(s, i), r) <= Len(buf)
    <3>1. /\ PieceStart(s, i, r) + 2 + MaxPiece <= PieceStart(s, i, q) /\ PieceStart(s, i, r) \in Nat
          /\ PieceLength(Length(s, i), r) \in 0..MaxPiece
      BY <1>3, <1>4, <1>5, <2>1, PiecesInside
    <3> DEFINE x == PieceLength(Length(s, i), r)
    <3>2. x \in Int /\ x <= MaxPiece
      BY <1>10, <3>1
    <3> HIDE DEF x
    <3>3. PieceStart(s, i, r) + 2 + x <= Len(buf)
      BY <1>7, <1>10, <1>14, <3>1, <3>2
    <3> QED BY <3>3 DEF x
  <2>3. Stands(ba, s, 0, i, r)
    BY <1>2, <1>3, <1>4, <1>7, <1>13, <2>1, <2>2, StandsAppended DEF ba
  <2>4. PieceStart(s, i, r) + 2 + PieceLength(Length(s, i), r) <= Len(ba)
    <3>1. PieceStart(s, i, r) \in Nat /\ PieceLength(Length(s, i), r) \in Nat
      BY <1>3, <1>4, <1>10, <2>1, PiecesInside
    <3> QED BY <1>13, <1>14, <2>2, <3>1
  <2> QED BY <1>3, <1>4, <1>13, <2>1, <2>3, <2>4, StandsAppended
<1>16. Whole(c, s, i - 1)
  <2>1. Ends(s)[i - 1] \in Nat /\ Ends(s)[i - 1] <= PieceStart(s, i, q)
    BY <1>3, <1>4, <1>5, Encodings, PiecesInside
  <2>2. Ends(s)[i - 1] <= Len(buf) /\ Ends(s)[i - 1] <= Len(ba)
    BY <1>7, <1>13, <1>14, <2>1
  <2>3. Whole(buf, s, i - 1)
    BY <1>2, <1>4
  <2>4. Whole(ba, s, i - 1)
    BY <1>2, <1>3, <1>4, <1>13, <2>2, <2>3, WholeAppended DEF ba
  <2> QED BY <1>3, <1>4, <1>13, <2>2, <2>4, WholeAppended
<1>17. buf' = c /\ left' = left - p
  <2>1. message[item - 1].type = s[i].type
    BY <1>1, <1>2, <1>3, <1>4, SentMessage
  <2>2. buf' = buf \o <<s[i].type, p>> \o SubSeq(value, 1, p)
    BY <1>8, <2>1 DEF EncodePiece
  <2> QED BY <1>8, <2>2 DEF EncodePiece, c, ba, a, d
<1> HIDE DEF c
<1>18. /\ UNCHANGED <<encoder, pc, message, item, value, data, dlength, out>>
       /\ item' - 1 = i /\ item' - 2 = i - 1
  BY <1>2, <1>4 DEF EncodePiece
<1>19. MessageInv' /\ pc' = "encode"
  BY <1>13, <1>17, <1>18 DEF TlvInv, MessageInv, EncodePiece, NoneEmpty
<1>20. Len(c) = PieceStart(s, i, q) + 2 + p
  BY <1>7, <1>13
<1>21. PieceStart(s, i, q) = Ends(s)[i - 1] + PieceAt(q) /\ Ends(s)[i - 1] \in Nat
       /\ PieceAt(q) \in Nat
  BY <1>3, <1>4, <1>9, Encodings, PieceSteps DEF PieceStart
<1>22. CASE q = Count(s, i) - 1
  <2>1. left' = 0
    BY <1>8, <1>17, <1>22
  <2>2. ValueStands(c, s, 0, i)
    <3>1. ASSUME NEW r \in 0..(Count(s, i) - 1)  PROVE Stands(c, s, 0, i, r)
      <4>1. r \in 0..(q - 1) \/ r = q
        BY <1>9, <1>22
      <4> QED BY <1>13, <1>15, <4>1
    <3> QED BY <3>1 DEF ValueStands
  <2>3. Whole(c, s, i)
    <3>1. ASSUME NEW k \in 1..i  PROVE ValueStands(c, s, 0, k)
      <4>1. k \in 1..(i - 1) \/ k = i
        BY <1>4
      <4> QED BY <1>16, <2>2, <4>1 DEF Whole
    <3> QED BY <3>1 DEF Whole
  <2>4. Len(c) = Ends(s)[i]
    <3>1. PieceAt(q) + 2 + p = n + 2 * Count(s, i)
      BY <1>6, <1>9, <1>22 DEF Count
    <3>2. Ends(s)[i] = Ends(s)[i - 1] + n + 2 * Count(s, i) /\ Count(s, i) \in Nat
      BY <1>3, <1>4, <1>6, Encodings
    <3> DEFINE e == Ends(s)[i - 1]
               w == PieceAt(q)
               k == Count(s, i)
    <3>3. /\ e \in Nat /\ w \in Nat /\ k \in Nat /\ w + 2 + p = n + 2 * k
          /\ Ends(s)[i] = e + n + 2 * k /\ Len(c) = (e + w) + 2 + p
      BY <1>20, <1>21, <3>1, <3>2
    <3> HIDE DEF e, w, k
    <3> QED BY <1>6, <1>10, <3>3
  <2>5. EncodedInv'
    <3>1. Whole(buf', arriving', item' - 1) /\ Len(buf') = Ends(arriving')[item' - 1]
      BY <1>1, <1>17, <1>18, <2>3, <2>4
    <3>2. item' \in 1..(Len(message') + 1)
      BY <1>2, <1>3, <1>18
    <3> QED BY <1>2, <1>18, <2>1, <3>1, <3>2 DEF EncodedInv
  <2> QED BY <1>19, <2>5 DEF TlvInv, RestInv, ReadInv, MergeInv
<1>23. CASE q # Count(s, i) - 1
  <2>1. left' \in Nat /\ left' # 0
    BY <1>8, <1>17, <1>23
  <2>2. q < Count(s, i) - 1 /\ q + 1 \in 0..(Count(s, i) - 1) /\ (q + 1) - 1 = q
    <3>1. Count(s, i) \in Nat
      BY <1>3, <1>4, Encodings
    <3> QED BY <1>5, <1>9, <1>23, <3>1
  <2>3. p = MaxPiece /\ ValueAt(q + 1) = ValueAt(q) + MaxPiece
        /\ PieceAt(q + 1) = PieceAt(q) + MaxPiece + 2
    BY <1>6, <1>9, <2>2, PieceSteps DEF Count
  <2>4. left' = Length(s, i) - ValueAt(q + 1)
    BY <1>6, <1>7, <1>9, <1>10, <1>17, <2>3
  <2>5. Len(c) = PieceStart(s, i, q + 1)
    <3>1. PieceStart(s, i, q + 1) = Ends(s)[i - 1] + PieceAt(q + 1)
      BY DEF PieceStart
    <3> QED BY <1>10, <1>20, <1>21, <2>3, <3>1
  <2>6. ASSUME NEW r \in 0..((q + 1) - 1)  PROVE Stands(c, s, 0, i, r)
    <3>1. r \in 0..(q - 1) \/ r = q
      BY <1>9
    <3> QED BY <1>13, <1>15, <3>1
  <2>7. Begun(c, s, i, q + 1, left')
    BY <2>4, <2>5, <2>6 DEF Begun
  <2>8. EncodedInv'
    <3>1. \E r \in 0..(Count(arriving', item' - 1) - 1) : Begun(buf', arriving', item' - 1, r, left')
      <4>1. Begun(buf', arriving', item' - 1, q + 1, left') /\ q + 1 \in 0..(Count(arriving', item' - 1) - 1)
        BY <1>1, <1>17, <1>18, <2>2, <2>7
      <4> QED BY <4>1
    <3>2. Whole(buf', arriving', item' - 2)
      BY <1>1, <1>16, <1>17, <1>18
    <3>3. item' \in 1..(Len(message') + 1) /\ item' > 1 /\ value' = message'[item' - 1].value
      BY <1>2, <1>3, <1>18
    <3> QED BY <1>2, <1>18, <2>1, <3>1, <3>2, <3>3 DEF EncodedInv
  <2> QED BY <1>19, <2>8 DEF TlvInv, RestInv, ReadInv, MergeInv
<1> QED BY <1>22, <1>23

LEMMA DeliverKeeps ==
  ASSUME TlvInv, Deliver  PROVE TlvInv'
<1>1. PICK s : s = arriving /\ s = arriving'
  BY SentStays DEF Deliver, encoding
<1>2. /\ MessageInv /\ message \in Messages /\ item = Len(message) + 1 /\ out = <<>> /\ data = 1
      /\ Whole(buf, s, item - 1) /\ Len(buf) = Ends(s)[item - 1] /\ Len(message) \in Nat
  <2>1. MessageInv /\ EncodedInv /\ pc = "encode" /\ left = 0 /\ item > Len(message)
    BY DEF TlvInv, Deliver
  <2>2. item \in 1..(Len(message) + 1)
    BY <2>1 DEF EncodedInv
  <2>3. Len(message) \in Nat
    BY <2>1, MessageFacts DEF MessageInv
  <2>4. item = Len(message) + 1
    BY <2>1, <2>2, <2>3
  <2> QED BY <1>1, <2>1, <2>3, <2>4 DEF EncodedInv, MessageInv
<1>3. Message(s) /\ Len(s) = Len(message) /\ Len(s) \in Nat
  BY <1>1, <1>2, SentMessage, Encodings
<1>4. PICK T \in Nat : T = Total(s)
  <2>1. Len(s) \in 0..Len(s)
    BY <1>3
  <2> QED BY <1>3, <2>1, Encodings DEF Total
<1>5. item - 1 = Len(s)
  BY <1>2, <1>3
<1>6. Len(buf) = T /\ Whole(buf, s, Len(s))
  BY <1>2, <1>4, <1>5 DEF Total
<1>7. /\ pc' = "next" /\ dlength' = T /\ data' = 1 /\ out' = <<>> /\ buf' = buf
      /\ UNCHANGED <<encoder, message>>
  BY <1>2, <1>6 DEF Deliver, encoding
<1>8. Shift' = 0
  BY <1>1, <1>4, <1>7 DEF Shift
<1>9. RestInv'
  <2>1. Len(out') = 0 /\ Ends(s)[0] = 0
    BY <1>3, <1>7, Encodings
  <2>2. \A i \in (Len(out') + 1)..Len(arriving') : ValueStands(buf', arriving', Shift', i)
    BY <1>1, <1>3, <1>6, <1>7, <1>8, <2>1 DEF Whole
  <2>3. Len(buf') = Total(arriving') /\ data' + dlength' <= Total(arriving') + 1
        /\ dlength' = Total(arriving') - Ends(arriving')[Len(out')] /\ Len(out') <= Len(arriving')
    BY <1>1, <1>3, <1>4, <1>6, <1>7, <2>1
  <2> QED BY <1>7, <2>2, <2>3 DEF RestInv
<1>10. ReadInv'
  <2>1. Len(out') = 0
    BY <1>7
  <2> QED BY <2>1 DEF ReadInv
<1>11. MessageInv'
  BY <1>2, <1>4, <1>7 DEF MessageInv, NoneEmpty
<1> QED BY <1>7, <1>9, <1>10, <1>11 DEF TlvInv, EncodedInv, MergeInv
----------------------------------------------------------------------------
(* Decoding. *)

\* What the decoder has, wherever it is.
LEMMA DecoderFacts ==
  ASSUME TlvInv, pc # "encode", NEW s, s = arriving
  PROVE  /\ message \in Messages /\ Message(s) /\ Len(s) \in Nat /\ Total(s) \in Nat
         /\ IsSeq(buf) /\ IsSeq(out) /\ data \in Nat \ {0} /\ dlength \in Nat
         /\ Len(buf) = Total(s) /\ data + dlength <= Total(s) + 1
         /\ Len(out) \in Nat /\ Len(out) <= Len(s) /\ Len(out) \in 0..Len(s)
         /\ Shift = (Total(s) + 1 - dlength) - data /\ Shift \in Nat
         /\ Ends(s)[Len(out)] \in Nat
         /\ \A i \in (Len(out) + 1)..Len(s) : ValueStands(buf, s, Shift, i)
<1>1. MessageInv /\ RestInv /\ message \in Messages
  BY DEF TlvInv, MessageInv
<1>2. Message(s) /\ Len(s) \in Nat
  BY <1>1, SentMessage, Encodings
<1>3. Total(s) \in Nat
  <2>1. Len(s) \in 0..Len(s)
    BY <1>2
  <2> QED BY <1>2, <2>1, Encodings DEF Total
<1>4. /\ IsSeq(buf) /\ IsSeq(out) /\ data \in Nat \ {0} /\ dlength \in Nat
  BY <1>1 DEF MessageInv
<1>5. /\ Len(buf) = Total(s) /\ data + dlength <= Total(s) + 1 /\ Len(out) <= Len(s)
      /\ \A i \in (Len(out) + 1)..Len(s) : ValueStands(buf, s, Shift, i)
  BY <1>1 DEF RestInv
<1>6. Len(out) \in Nat
  BY <1>4, Elements
<1>7. Shift = (Total(s) + 1 - dlength) - data
  BY DEF Shift
<1>8. Shift \in Nat
  BY <1>3, <1>4, <1>5, <1>7
<1>9. Len(out) \in 0..Len(s)
  BY <1>2, <1>5, <1>6
<1>10. Ends(s)[Len(out)] \in Nat
  BY <1>2, <1>9, Encodings
<1> QED BY <1>1, <1>2, <1>3, <1>4, <1>5, <1>6, <1>7, <1>8, <1>9, <1>10

\* A piece that starts where the decoder is.
Here(b, at, s, i, q) ==
  /\ b[at] = s[i].type
  /\ b[at + 1] = PieceLength(Length(s, i), q)
  /\ \A j \in 1..PieceLength(Length(s, i), q) :
       b[at + 1 + j] = s[i].value[ValueAt(q) + j]

LEMMA PieceHere ==
  ASSUME NEW s, NEW b, NEW shift \in Nat, NEW i \in Nat, NEW q \in Nat, NEW at \in Nat,
         NEW start \in Nat, start = PieceStart(s, i, q), start + 1 = at + shift,
         Stands(b, s, shift, i, q)
  PROVE  Here(b, at, s, i, q)
<1>1. start - shift + 1 = at /\ start - shift + 2 = at + 1
  OBVIOUS
<1> QED BY <1>1 DEF Stands, Here

LEMMA DecodeNextKeeps ==
  ASSUME TlvInv, DecodeNext  PROVE TlvInv'
<1>1. PICK s : s = arriving /\ s = arriving'
  BY SentStays DEF DecodeNext, encoding
<1>2. pc = "next" /\ dlength >= 2
      /\ UNCHANGED <<encoder, message, buf>>
  <2>1. pc = "next" /\ ~(dlength < 2) /\ UNCHANGED <<encoder, message, buf>>
    BY DEF DecodeNext, NoneLeft, encoding
  <2>2. dlength \in Nat
    BY DEF TlvInv, MessageInv
  <2> QED BY <2>1, <2>2
<1>3. PICK T \in Nat, n \in Nat, e \in Nat, sh \in Nat :
        /\ T = Total(s) /\ n = Len(out) /\ e = Ends(s)[n] /\ sh = Shift
        /\ Message(s) /\ Len(s) \in Nat /\ n \in 0..Len(s)
        /\ IsSeq(buf) /\ IsSeq(out) /\ data \in Nat \ {0} /\ dlength \in Nat
        /\ Len(buf) = T /\ data + dlength <= T + 1
        /\ sh = (T + 1 - dlength) - data
        /\ \A i \in (n + 1)..Len(s) : ValueStands(buf, s, sh, i)
  BY <1>1, <1>2, DecoderFacts
<1> DEFINE Counts ==
             /\ data \in Nat \ {0} /\ dlength \in Nat /\ data + dlength <= T + 1
             /\ sh = (T + 1 - dlength) - data
<1>a. Counts
  BY <1>3
<1>b. IsSeq(out) /\ Len(out) = n
  BY <1>3
<1>4. dlength = T - e
  BY <1>1, <1>2, <1>3 DEF TlvInv, RestInv
<1>5. n < Len(s)
  <2>1. n = Len(s) => e = T
    BY <1>3 DEF Total
  <2> QED BY <1>2, <1>3, <1>4, <2>1
<1>6. PICK i \in 1..Len(s) : i = n + 1 /\ i - 1 = n
  BY <1>3, <1>5, SMTT(30)
<1>7. Length(s, i) \in Nat /\ Count(s, i) \in Nat \ {0} /\ 0 \in 0..(Count(s, i) - 1)
  <2>1. Length(s, i) \in Nat /\ Count(s, i) \in Nat \ {0}
    BY <1>3, Encodings
  <2> QED BY <2>1
<1>8. PieceStart(s, i, 0) = e /\ ValueAt(0) = 0 /\ PieceAt(0) = 0 /\ MaxPiece \in Nat \ {0}
      /\ ValueAt(1) = MaxPiece /\ PieceAt(1) = MaxPiece + 2
  <2>1. ValueAt(0) = 0 /\ PieceAt(0) = 0 /\ MaxPiece \in Nat \ {0}
    BY PieceSteps, PieceAssumption
  <2>2. ValueAt(1) = MaxPiece /\ PieceAt(1) = MaxPiece + 2
    BY <2>1 DEF ValueAt, PieceAt
  <2> QED BY <1>3, <1>6, <2>1, <2>2, SMTT(30) DEF PieceStart
<1>9. PICK p \in 0..MaxPiece :
        /\ p = PieceLength(Length(s, i), 0) /\ p <= Length(s, i) /\ e + 2 + p <= Ends(s)[i]
        /\ Ends(s)[i] <= T /\ Ends(s)[i] \in Nat
  <2> DEFINE p == PieceLength(Length(s, i), 0)
  <2>1. PICK zero \in 0..(Count(s, i) - 1) : zero = 0
    BY <1>7
  <2>2. /\ PieceLength(Length(s, i), zero) \in 0..MaxPiece
        /\ ValueAt(zero) + PieceLength(Length(s, i), zero) <= Length(s, i)
        /\ PieceStart(s, i, zero) + 2 + PieceLength(Length(s, i), zero) <= Ends(s)[i]
        /\ Ends(s)[i] <= Total(s) /\ Ends(s)[i] \in Nat
    BY <1>3, PiecesInside
  <2>3. p \in 0..MaxPiece /\ 0 + p <= Length(s, i) /\ e + 2 + p <= Ends(s)[i]
        /\ Ends(s)[i] <= T /\ Ends(s)[i] \in Nat
    BY <1>3, <1>8, <2>1, <2>2
  <2> HIDE DEF p
  <2>4. p <= Length(s, i)
    BY <1>7, <1>8, <2>3
  <2> QED BY <2>3, <2>4 DEF p
<1>10. p \in Nat /\ p <= MaxPiece
  BY <1>8, <1>9
<1>11. /\ p # MaxPiece => p = Length(s, i) /\ e + 2 + p = Ends(s)[i]
  <2>1. SUFFICES ASSUME p # MaxPiece
                 PROVE  p = Length(s, i) /\ e + 2 + p = Ends(s)[i]
    OBVIOUS
  <2>2. PICK l \in Nat : l = Length(s, i) /\ Count(s, i) = PieceCount(l)
    BY <1>7 DEF Count
  <2>3. PICK zero \in 0..(PieceCount(l) - 1) : zero = 0
    BY <1>7, <2>2
  <2>4. /\ zero < PieceCount(l) - 1 => PieceLength(l, zero) = MaxPiece
        /\ zero = PieceCount(l) - 1 =>
              /\ PieceLength(l, zero) = l - ValueAt(zero)
              /\ PieceAt(zero) + 2 + PieceLength(l, zero) = l + 2 * PieceCount(l)
    BY PieceBounds
  <2>5. PieceCount(l) \in Nat
    BY <1>7, <2>2
  <2>6. zero = PieceCount(l) - 1
    BY <1>9, <2>1, <2>2, <2>3, <2>4, <2>5
  <2>7. p = l - 0 /\ 0 + 2 + p = l + 2 * PieceCount(l)
    BY <1>8, <1>9, <2>2, <2>3, <2>4, <2>6
  <2>8. Ends(s)[i] = e + l + 2 * PieceCount(l)
    BY <1>3, <1>6, <2>2, Encodings
  <2> DEFINE c == PieceCount(l)
             f == Ends(s)[i]
  <2>9. c \in Nat /\ p = l - 0 /\ 0 + 2 + p = l + 2 * c /\ f = e + l + 2 * c
    BY <2>5, <2>7, <2>8
  <2> HIDE DEF c, f
  <2>10. p = l /\ e + 2 + p = f
    BY <1>10, <2>9
  <2> QED BY <2>2, <2>10 DEF f
<1>12. ValueStands(buf, s, sh, i)
  BY <1>3, <1>6
<1>13. buf[data] = s[i].type /\ buf[data + 1] = p
       /\ \A j \in 1..p : buf[data + 1 + j] = s[i].value[j]
  <2>1. Stands(buf, s, sh, i, 0)
    BY <1>7, <1>12 DEF ValueStands
  <2>2. e - sh = data - 1
    BY <1>a, <1>4
  <2>3. /\ buf[data] = s[i].type /\ buf[data + 1] = p
        /\ \A j \in 1..p : buf[data + 1 + j] = s[i].value[ValueAt(0) + j]
    <3>1. PICK zero : zero = 0
      OBVIOUS
    <3>2. PICK at \in Nat : at = data
      BY <1>a
    <3>3. PICK b : b = buf
      OBVIOUS
    <3>4. /\ i \in Nat /\ zero \in Nat /\ e = PieceStart(s, i, zero) /\ e + 1 = at + sh
          /\ Stands(b, s, sh, i, zero)
      BY <1>6, <1>8, <2>1, <2>2, <3>1, <3>2, <3>3
    <3>5. Here(b, at, s, i, zero)
      BY <3>4, PieceHere
    <3> QED BY <1>9, <3>1, <3>2, <3>3, <3>5 DEF Here
  <2>4. \A j \in 1..p : ValueAt(0) + j = j
    BY <1>8, <1>10
  <2> QED BY <2>3, <2>4
<1>14. PICK got : got = [type |-> s[i].type, value |-> data + 2, length |-> p]
  OBVIOUS
<1>15. /\ out' = Append(out, got) /\ data' = data + 2 + p /\ dlength' = dlength - (2 + p)
       /\ pc' = IF p = MaxPiece THEN "merge" ELSE "next"
  BY <1>13, <1>14 DEF DecodeNext, Taken
<1>16. /\ IsSeq(out') /\ Len(out') = n + 1 /\ out'[n + 1] = got
       /\ \A k \in 1..n : out'[k] = out[k]
  BY <1>b, <1>15, Appended
<1>17. got.type = s[i].type /\ got.value = data + 2 /\ got.length = p
  BY <1>14
<1>18. dlength' = T - (e + 2 + p) /\ dlength' \in Nat /\ data' \in Nat \ {0}
       /\ data' + dlength' = data + dlength
  <2> DEFINE f == Ends(s)[i]
  <2>1. e + 2 + p <= f /\ f <= T /\ f \in Nat
    BY <1>9
  <2> HIDE DEF f
  <2> QED BY <1>a, <1>4, <1>10, <1>15, <2>1
<1>19. Shift' = sh
  <2>1. Shift' = (T + 1 - dlength') - data'
    BY <1>1, <1>3 DEF Shift
  <2> QED BY <1>a, <1>10, <1>15, <2>1
<1>20. pc' \in {"next", "merge"}
  BY <1>15
<1>21. MessageInv'
  BY <1>2, <1>16, <1>18, <1>20 DEF TlvInv, MessageInv, NoneEmpty
<1>22. RestInv'
  <2>1. Len(buf') = Total(arriving') /\ data' + dlength' <= Total(arriving') + 1
        /\ Len(out') <= Len(arriving')
    BY <1>1, <1>2, <1>3, <1>5, <1>16, <1>18
  <2>2. \A k \in (Len(out') + 1)..Len(arriving') : ValueStands(buf', arriving', Shift', k)
    <3>1. ASSUME NEW k \in (n + 2)..Len(s)  PROVE ValueStands(buf, s, sh, k)
      <4>1. k \in (n + 1)..Len(s)
        BY <1>3
      <4> QED BY <1>3, <4>1
    <3>2. Len(out') + 1 = n + 2
      BY <1>3, <1>16
    <3> QED BY <1>1, <1>2, <1>19, <3>1, <3>2
  <2>3. pc' # "merge" => dlength' = Total(arriving') - Ends(arriving')[Len(out')]
    <3>1. p # MaxPiece => dlength' = T - Ends(s)[n + 1]
      BY <1>6, <1>11, <1>18
    <3> QED BY <1>1, <1>3, <1>15, <1>16, <3>1
  <2>4. pc' # "done"
    BY <1>20
  <2> QED BY <2>1, <2>2, <2>3, <2>4 DEF RestInv
<1>23. ReadInv'
  <2>1. ASSUME NEW k \in 1..n
        PROVE  Reads(buf', arriving', out', data', k) /\ out'[k].length = Length(arriving', k)
    <3>1. Reads(buf, s, out, data, k) /\ out[k].length = Length(s, k)
      BY <1>1, <1>2, <1>3 DEF TlvInv, ReadInv
    <3>2. /\ Shaped(out[k]) /\ out[k].type = s[k].type
          /\ out[k].value \in Nat \ {0} /\ out[k].length \in 0..Length(s, k)
          /\ out[k].value + out[k].length <= data
          /\ \A j \in 1..out[k].length : buf[out[k].value + j - 1] = s[k].value[j]
      BY <3>1 DEF Reads
    <3>3. Length(s, k) \in Nat
      <4>1. k \in 1..Len(s)
        BY <1>3
      <4> QED BY <1>3, <4>1, Encodings
    <3>4. out[k].value + out[k].length <= data'
      <4> DEFINE v == out[k].value
                 l == out[k].length
                 m == Length(s, k)
      <4>1. v \in Nat \ {0} /\ l \in 0..m /\ m \in Nat /\ v + l <= data
        BY <3>2, <3>3
      <4> HIDE DEF v, l, m
      <4>2. v + l <= data'
        BY <1>a, <1>10, <1>15, <4>1
      <4> QED BY <4>2 DEF v, l
    <3>5. Reads(buf, s, out', data', k)
      BY <1>16, <3>2, <3>4 DEF Reads
    <3> QED BY <1>1, <1>2, <1>16, <3>1, <3>5
  <2>2. Reads(buf', arriving', out', data', n + 1)
    <3>1. got.value + got.length <= data'
      BY <1>a, <1>10, <1>15, <1>17
    <3>2. got.value \in Nat \ {0} /\ got.length \in 0..Length(s, i)
      BY <1>3, <1>7, <1>9, <1>10, <1>17
    <3>3. \A j \in 1..got.length : buf[got.value + j - 1] = s[i].value[j]
      <4>1. \A j \in 1..p : (data + 2) + j - 1 = data + 1 + j
        BY <1>3, <1>10
      <4> QED BY <1>13, <1>17, <4>1
    <3>4. Shaped(got)
      BY <1>14, <1>17 DEF Shaped
    <3>5. Reads(buf, s, out', data', i)
      BY <1>6, <1>16, <1>17, <3>1, <3>2, <3>3, <3>4 DEF Reads
    <3> QED BY <1>1, <1>2, <1>6, <3>5
  <2>3. pc' # "merge" => out'[n + 1].length = Length(arriving', n + 1)
    BY <1>1, <1>6, <1>11, <1>15, <1>16, <1>17
  <2>4. ASSUME NEW k \in 1..Len(out')
        PROVE  /\ Reads(buf', arriving', out', data', k)
               /\ k < Len(out') \/ pc' # "merge" => out'[k].length = Length(arriving', k)
    <3>1. k \in 1..n \/ (k = n + 1 /\ ~(k < Len(out')))
      <4>1. Len(out') = n + 1
        BY <1>16
      <4> QED BY <4>1
    <3> QED BY <2>1, <2>2, <2>3, <3>1
  <2> QED BY <2>4 DEF ReadInv
<1>24. MergeInv'
  <2>1. SUFFICES ASSUME pc' = "merge"
                 PROVE  /\ Len(out') \in Nat \ {0}
                        /\ \E q \in 1..Count(arriving', Len(out')) :
                             Joined(buf', arriving', Shift', Len(out'), out', q, data', dlength')
    BY DEF MergeInv
  <2>2. p = MaxPiece
    BY <1>15, <2>1
  <2>3. 1 \in 1..Count(s, i)
    BY <1>7
  <2>4. out'[i].length = ValueAt(1) /\ out'[i].value + ValueAt(1) = data'
    BY <1>6, <1>8, <1>15, <1>16, <1>17, <2>2
  <2>5. dlength' = T - PieceStart(s, i, 1)
    <3>1. PieceStart(s, i, 1) = e + (MaxPiece + 2)
      BY <1>3, <1>6, <1>8 DEF PieceStart
    <3>2. dlength' = T - (e + 2 + p) /\ MaxPiece \in Nat
      BY <1>8, <1>18
    <3> QED BY <2>2, <3>1, <3>2
  <2>6. \A r \in 1..(Count(s, i) - 1) : Stands(buf, s, sh, i, r)
    <3>1. \A r \in 1..(Count(s, i) - 1) : r \in 0..(Count(s, i) - 1)
      BY <1>7
    <3> QED BY <1>12, <3>1 DEF ValueStands
  <2>7. Joined(buf, s, sh, i, out', 1, data', dlength')
    BY <1>3, <2>4, <2>5, <2>6 DEF Joined
  <2>8. Len(out') = i /\ i \in Nat \ {0}
    BY <1>3, <1>6, <1>16
  <2> QED BY <1>1, <1>2, <1>19, <2>3, <2>7, <2>8
<1>25. EncodedInv'
  BY <1>20 DEF EncodedInv
<1> QED BY <1>21, <1>22, <1>23, <1>24, <1>25 DEF TlvInv

LEMMA DecodeEndKeeps ==
  ASSUME TlvInv, DecodeEnd  PROVE TlvInv'
<1>1. PICK s : s = arriving /\ s = arriving'
  BY SentStays DEF DecodeEnd, encoding
<1>2. /\ pc = "next" /\ pc' = "done" /\ dlength < 2
      /\ UNCHANGED <<encoder, message, buf, data, dlength, out>>
  BY DEF DecodeEnd, NoneLeft, encoding
<1>3. PICK T \in Nat, n \in Nat, e \in Nat :
        T = Total(s) /\ n = Len(out) /\ e = Ends(s)[n] /\ Message(s) /\ Len(s) \in Nat
        /\ n \in 0..Len(s)
  BY <1>1, <1>2, DecoderFacts
<1>4. dlength = T - e
  BY <1>1, <1>2, <1>3 DEF TlvInv, RestInv
<1>5. n = Len(s)
  <2>1. SUFFICES ASSUME n < Len(s)  PROVE FALSE
    BY <1>3
  <2>2. PICK i \in 1..Len(s) : i = n + 1 /\ i - 1 = n /\ i \in 0..Len(s) /\ Len(s) \in 0..Len(s)
                               /\ i <= Len(s)
    BY <1>3, <2>1
  <2>3. PICK l \in Nat, c \in Nat \ {0}, f \in Nat :
          f = Ends(s)[i] /\ f = e + l + 2 * c /\ f <= T
    <3>1. /\ Length(s, i) \in Nat /\ Count(s, i) \in Nat \ {0} /\ Ends(s)[i] \in Nat
          /\ Ends(s)[i] = Ends(s)[i - 1] + Length(s, i) + 2 * Count(s, i)
      BY <1>3, <2>2, Encodings
    <3>2. Ends(s)[i] <= T
      BY <1>3, <2>2, EndsGrow DEF Total
    <3> QED BY <1>3, <2>2, <3>1, <3>2
  <2> QED BY <1>2, <1>4, <2>3
<1>6. RestInv'
  <2>1. Shift' = Shift
    BY <1>1, <1>2 DEF Shift
  <2>2. Len(out) = Len(s)
    BY <1>3, <1>5
  <2> QED BY <1>1, <1>2, <2>1, <2>2 DEF TlvInv, RestInv
<1>7. ReadInv'
  BY <1>1, <1>2 DEF TlvInv, ReadInv
<1>8. MessageInv'
  BY <1>2 DEF TlvInv, MessageInv, NoneEmpty
<1> QED BY <1>2, <1>6, <1>7, <1>8 DEF TlvInv, EncodedInv, MergeInv

\* memcpy(iptr, iptr + 2, n)
LEMMA MovedBytes ==
  ASSUME NEW b, IsSeq(b), NEW iptr \in Nat \ {0}, NEW n \in Nat, iptr + n + 1 <= Len(b)
  PROVE  LET c == MoveDown(b, iptr, n)
         IN /\ IsSeq(c) /\ Len(c) = Len(b)
            /\ \A k \in 1..(iptr - 1) : c[k] = b[k]
            /\ \A k \in iptr..(iptr + n - 1) : c[k] = b[k + 2]
<1> DEFINE c == MoveDown(b, iptr, n)
<1>1. Len(b) \in Nat /\ DOMAIN b = 1..Len(b)
  BY Elements
<1>2. c = [k \in 1..Len(b) |-> IF k \in iptr..(iptr + n - 1) THEN b[k + 2] ELSE b[k]]
  BY <1>1 DEF MoveDown
<1>3. \A k \in 1..Len(b) : c[k] = IF k \in iptr..(iptr + n - 1) THEN b[k + 2] ELSE b[k]
  BY <1>2
<1>4. c = [k \in 1..Len(b) |-> c[k]]
  BY <1>2
<1> HIDE DEF c
<1>5. IsSeq(c) /\ Len(c) = Len(b)
  BY <1>1, <1>4, Tabulated
<1> DEFINE l == Len(b)
<1>6. l \in Nat /\ iptr + n + 1 <= l
  BY <1>1
<1>7. /\ \A k \in 1..(iptr - 1) : k \in 1..l /\ k \notin iptr..(iptr + n - 1)
      /\ \A k \in iptr..(iptr + n - 1) : k \in 1..l
  <2> HIDE DEF l
  <2> QED BY <1>6
<1> QED BY <1>3, <1>5, <1>7 DEF c

\* A piece that is inside what is moved stands two bytes lower.
LEMMA MovedStands ==
  ASSUME NEW b, IsSeq(b), NEW iptr \in Nat \ {0}, NEW n \in Nat, iptr + n + 1 <= Len(b),
         NEW s, NEW i, NEW q, NEW shift \in Nat, Stands(b, s, shift, i, q),
         NEW start \in Nat, start = PieceStart(s, i, q),
         NEW p \in Nat, p = PieceLength(Length(s, i), q),
         iptr + 1 + shift <= start, start + 2 + p <= iptr + n + 1 + shift
  PROVE  Stands(MoveDown(b, iptr, n), s, shift + 2, i, q)
<1> DEFINE c == MoveDown(b, iptr, n)
           at == start - shift
<1>1. \A k \in iptr..(iptr + n - 1) : c[k] = b[k + 2]
  BY MovedBytes
<1> HIDE DEF c
<1>2. /\ b[at + 1] = s[i].type /\ b[at + 2] = p
      /\ \A j \in 1..p : b[at + 2 + j] = s[i].value[ValueAt(q) + j]
  BY DEF Stands
<1>3. /\ at \in Nat /\ iptr + 1 <= at /\ at + 2 + p <= iptr + n + 1
      /\ start - (shift + 2) = at - 2
  <2>1. at \in Int /\ start = at + shift
    OBVIOUS
  <2> HIDE DEF at
  <2>2. iptr + 1 <= at
    BY <2>1
  <2>3. at + 2 + p <= iptr + n + 1
    BY <2>1
  <2>4. start - (shift + 2) = at - 2
    BY <2>1
  <2> QED BY <2>1, <2>2, <2>3, <2>4
<1> HIDE DEF at
<1>4. c[(at - 2) + 1] = b[at + 1] /\ c[(at - 2) + 2] = b[at + 2]
  <2>1. (at - 2) + 1 \in iptr..(iptr + n - 1) /\ ((at - 2) + 1) + 2 = at + 1
    BY <1>3, SMTT(30)
  <2>2. (at - 2) + 2 \in iptr..(iptr + n - 1) /\ ((at - 2) + 2) + 2 = at + 2
    BY <1>3
  <2>3. c[(at - 2) + 1] = b[((at - 2) + 1) + 2] /\ c[(at - 2) + 2] = b[((at - 2) + 2) + 2]
    BY <1>1, <2>1, <2>2
  <2> QED BY <2>1, <2>2, <2>3
<1>5. ASSUME NEW j \in 1..p  PROVE c[(at - 2) + 2 + j] = b[at + 2 + j]
  <2> DEFINE k == (at - 2) + 2 + j
  <2>1. k \in iptr..(iptr + n - 1) /\ k + 2 = at + 2 + j
    BY <1>3, SMTT(30)
  <2> HIDE DEF k
  <2>2. c[k] = b[at + 2 + j]
    BY <1>1, <2>1
  <2> QED BY <2>2 DEF k
<1>6. PieceStart(s, i, q) - (shift + 2) = at - 2
  BY <1>3
<1> QED BY <1>2, <1>4, <1>5, <1>6 DEF Stands, c

\* Where the encoding of a value ends, and what its last piece is.
LEMMA AfterThePieces ==
  ASSUME NEW s, Message(s), NEW i \in 1..Len(s), ValueAt(Count(s, i)) <= Length(s, i)
  PROVE  PieceStart(s, i, Count(s, i)) = Ends(s)[i] /\ ValueAt(Count(s, i)) = Length(s, i)
<1>1. PICK l \in Nat, c \in Nat \ {0}, e \in Nat :
        /\ l = Length(s, i) /\ c = Count(s, i) /\ e = Ends(s)[i - 1]
        /\ Ends(s)[i] = e + l + 2 * c /\ c = PieceCount(l)
  <2>1. i - 1 \in 0..Len(s)
    BY Encodings
  <2> QED BY <2>1, Encodings DEF Count
<1>2. l <= ValueAt(c) /\ ValueAt(c) \in Nat /\ PieceAt(c) = ValueAt(c) + 2 * c
  BY <1>1, PieceCounts, PieceSteps
<1>3. ValueAt(c) <= l
  BY <1>1
<1>4. ValueAt(c) = l
  BY <1>2, <1>3
<1> QED BY <1>1, <1>2, <1>4 DEF PieceStart

LEMMA LastPiece ==
  ASSUME NEW s, Message(s), NEW i \in 1..Len(s), NEW q \in 0..(Count(s, i) - 1),
         PieceLength(Length(s, i), q) # MaxPiece \/ q = Count(s, i) - 1
  PROVE  /\ ValueAt(q) + PieceLength(Length(s, i), q) = Length(s, i)
         /\ PieceStart(s, i, q) + 2 + PieceLength(Length(s, i), q) = Ends(s)[i]
<1>1. PICK l \in Nat, c \in Nat \ {0}, e \in Nat, p \in Nat, a \in Nat, w \in Nat :
        /\ l = Length(s, i) /\ c = Count(s, i) /\ e = Ends(s)[i - 1]
        /\ Ends(s)[i] = e + l + 2 * c /\ c = PieceCount(l) /\ p = PieceLength(l, q)
        /\ a = ValueAt(q) /\ w = PieceAt(q)
  <2>1. i - 1 \in 0..Len(s)
    BY Encodings
  <2>2. /\ Length(s, i) \in Nat /\ Count(s, i) \in Nat \ {0} /\ Ends(s)[i - 1] \in Nat
        /\ Ends(s)[i] = Ends(s)[i - 1] + Length(s, i) + 2 * Count(s, i)
    BY <2>1, Encodings
  <2>3. PieceLength(Length(s, i), q) \in Nat /\ q \in Nat
    BY <2>2, PiecesInside, PieceAssumption
  <2>4. ValueAt(q) \in Nat /\ PieceAt(q) \in Nat
    BY <2>3, PieceSteps
  <2> QED BY <2>2, <2>3, <2>4 DEF Count
<1>2. q \in 0..(PieceCount(l) - 1)
  BY <1>1
<1>3. /\ q < PieceCount(l) - 1 => PieceLength(l, q) = MaxPiece
      /\ q = PieceCount(l) - 1 =>
            /\ PieceLength(l, q) = l - ValueAt(q)
            /\ PieceAt(q) + 2 + PieceLength(l, q) = l + 2 * PieceCount(l)
  BY <1>2, PieceBounds
<1>4. q = PieceCount(l) - 1
  <2>1. p # MaxPiece \/ q = c - 1
    BY <1>1
  <2>2. q \in 0..(c - 1) /\ (q < c - 1 => p = MaxPiece) /\ c = PieceCount(l)
    BY <1>1, <1>3
  <2> QED BY <2>1, <2>2
<1>5. p = l - a /\ w + 2 + p = l + 2 * c /\ PieceStart(s, i, q) = e + w
  BY <1>1, <1>3, <1>4 DEF PieceStart
<1>6. a + p = l /\ (e + w) + 2 + p = e + l + 2 * c
  BY <1>5
<1> QED BY <1>1, <1>5, <1>6

LEMMA MergeEndKeeps ==
  ASSUME TlvInv, MergeEnd  PROVE TlvInv'
<1>1. PICK s : s = arriving /\ s = arriving'
  BY SentStays DEF MergeEnd, encoding
<1>2. /\ pc = "merge" /\ pc' = "next" /\ ~Continues
      /\ UNCHANGED <<encoder, message, buf, data, dlength, out>>
  BY DEF MergeEnd, encoding
<1>3. PICK T \in Nat, n \in Nat \ {0}, sh \in Nat, d \in Nat \ {0}, k \in Nat :
        /\ T = Total(s) /\ n = Len(out) /\ sh = Shift /\ d = data /\ k = dlength
        /\ Message(s) /\ Len(s) \in Nat /\ n \in 1..Len(s)
        /\ IsSeq(out) /\ sh = (T + 1 - k) - d
  <2>1. Len(out) \in Nat \ {0}
    BY <1>2 DEF TlvInv, MergeInv
  <2>2. Len(out) \in 1..Len(s)
    BY <1>1, <1>2, <2>1, DecoderFacts
  <2> QED BY <1>1, <1>2, <2>1, <2>2, DecoderFacts
<1>4. PICK q \in 1..Count(s, n) : Joined(buf, s, sh, n, out, q, data, dlength)
  BY <1>1, <1>2, <1>3 DEF TlvInv, MergeInv
<1>5. Count(s, n) \in Nat \ {0} /\ Length(s, n) \in Nat
  BY <1>3, Encodings
<1>6. /\ out[n].length = ValueAt(q) /\ dlength = T - PieceStart(s, n, q)
      /\ \A r \in q..(Count(s, n) - 1) : Stands(buf, s, sh, n, r)
  BY <1>3, <1>4 DEF Joined
<1>7. Reads(buf, s, out, data, n)
  <2>1. n \in 1..Len(out)
    BY <1>3
  <2> QED BY <1>1, <1>2, <2>1 DEF TlvInv, ReadInv
<1>8. out[n].type = s[n].type /\ out[n].length \in 0..Length(s, n) /\ Last(out) = out[n]
  BY <1>3, <1>7 DEF Reads, Last
<1>9. q = Count(s, n)
  <2>1. SUFFICES ASSUME q # Count(s, n)  PROVE FALSE
    OBVIOUS
  <2>2. q \in 0..(Count(s, n) - 1) /\ q \in q..(Count(s, n) - 1) /\ q \in Nat
    BY <1>5, <2>1
  <2>3. PICK st \in Nat, p \in Nat, f \in Nat : st = PieceStart(s, n, q) /\ st + 2 + p <= f /\ f <= T
    <3>1. /\ PieceStart(s, n, q) \in Nat /\ PieceLength(Length(s, n), q) \in 0..MaxPiece
          /\ PieceStart(s, n, q) + 2 + PieceLength(Length(s, n), q) <= Ends(s)[n]
          /\ Ends(s)[n] <= T /\ Ends(s)[n] \in Nat
      BY <1>3, <2>2, PiecesInside
    <3>2. PieceLength(Length(s, n), q) \in Nat
      BY <3>1, PieceAssumption
    <3> QED BY <3>1, <3>2
  <2>4. k = T - st
    BY <1>3, <1>6, <2>3
  <2>5. PICK b : b = buf
    OBVIOUS
  <2>6. Stands(b, s, sh, n, q) /\ st + 1 = d + sh
    <3>1. sh = (T + 1 - k) - d
      BY <1>3
    <3>2. st + 1 = d + sh
      BY <2>4, <3>1
    <3> QED BY <1>6, <2>2, <2>5, <3>2
  <2>7. Here(b, d, s, n, q)
    BY <1>3, <2>2, <2>3, <2>6, PieceHere
  <2>8. buf[data] = s[n].type
    BY <1>3, <2>5, <2>7 DEF Here
  <2>9. dlength >= 2
    <3>1. k >= 2
      BY <2>3, <2>4
    <3> QED BY <1>3, <3>1
  <2> QED BY <1>2, <1>8, <2>8, <2>9 DEF Continues
<1>10. PieceStart(s, n, q) = Ends(s)[n] /\ out[n].length = Length(s, n)
  <2>1. ValueAt(Count(s, n)) <= Length(s, n)
    BY <1>5, <1>6, <1>8, <1>9
  <2> QED BY <1>3, <1>6, <1>9, <2>1, AfterThePieces
<1>11. RestInv'
  <2>1. Shift' = Shift
    BY <1>1, <1>2 DEF Shift
  <2>2. dlength = T - Ends(s)[n]
    BY <1>6, <1>10
  <2> QED BY <1>1, <1>2, <1>3, <2>1, <2>2 DEF TlvInv, RestInv
<1>12. ReadInv'
  <2>1. ASSUME NEW j \in 1..Len(out)
        PROVE  Reads(buf, s, out, data, j) /\ out[j].length = Length(s, j)
    <3>1. j < Len(out) \/ j = n
      BY <1>3
    <3> QED BY <1>1, <1>2, <1>10, <3>1 DEF TlvInv, ReadInv
  <2> QED BY <1>1, <1>2, <2>1 DEF ReadInv
<1>13. MessageInv'
  BY <1>2 DEF TlvInv, MessageInv, NoneEmpty
<1> QED BY <1>2, <1>11, <1>12, <1>13 DEF TlvInv, EncodedInv, MergeInv

\* The piece that is joined is one of the value: the next value would have
\* another type.
LEMMA MergesSameValue ==
  ASSUME TlvInv, pc = "merge", Continues, NEW s, s = arriving,
         NEW n \in 1..Len(s), n = Len(out),
         NEW q \in 1..Count(s, n), Joined(buf, s, Shift, n, out, q, data, dlength)
  PROVE  q \in 0..(Count(s, n) - 1)
<1>1. PICK T \in Nat, sh \in Nat, d \in Nat \ {0}, k \in Nat :
        /\ T = Total(s) /\ sh = Shift /\ d = data /\ k = dlength
        /\ Message(s) /\ Len(s) \in Nat /\ IsSeq(out) /\ sh = (T + 1 - k) - d
        /\ \A i \in (n + 1)..Len(s) : ValueStands(buf, s, sh, i)
  BY DecoderFacts
<1>2. Count(s, n) \in Nat \ {0} /\ Length(s, n) \in Nat
  BY <1>1, Encodings
<1>3. SUFFICES ASSUME q = Count(s, n)  PROVE FALSE
  BY <1>2
<1>4. out[n].length = ValueAt(q) /\ dlength = T - PieceStart(s, n, q)
  BY <1>1 DEF Joined
<1>5. Reads(buf, s, out, data, n)
  <2>1. n \in 1..Len(out)
    OBVIOUS
  <2> QED BY <2>1 DEF TlvInv, ReadInv
<1>6. out[n].type = s[n].type /\ out[n].length \in 0..Length(s, n) /\ Last(out) = out[n]
  BY <1>5 DEF Reads, Last
<1>7. PieceStart(s, n, q) = Ends(s)[n]
  <2>1. ValueAt(Count(s, n)) <= Length(s, n)
    BY <1>2, <1>3, <1>4, <1>6
  <2> QED BY <1>1, <1>3, <2>1, AfterThePieces
<1>8. PICK e \in Nat : e = Ends(s)[n] /\ k = T - e
  <2>1. n \in 0..Len(s)
    OBVIOUS
  <2> QED BY <1>1, <1>4, <1>7, <2>1, Encodings
<1>9. k >= 2 /\ buf[data] = Last(out).type
  BY <1>1 DEF Continues
<1>10. n < Len(s)
  <2>1. n = Len(s) => e = T
    BY <1>1, <1>8 DEF Total
  <2> QED BY <1>8, <1>9, <2>1
<1>11. PICK i \in 1..Len(s) : i = n + 1 /\ i - 1 = n /\ n + 1 <= Len(s) /\ i \in Nat
  <2>1. Len(s) \in Nat
    BY <1>1
  <2>2. n + 1 \in 1..Len(s) /\ (n + 1) - 1 = n /\ n + 1 <= Len(s) /\ n + 1 \in Nat
    BY <1>10, <2>1
  <2> QED BY <2>2
<1>12. PICK zero \in 0..(Count(s, i) - 1) : zero = 0 /\ zero \in Nat
  <2>1. Count(s, i) \in Nat \ {0}
    BY <1>1, Encodings
  <2> QED BY <2>1
<1>13. PICK b : b = buf
  OBVIOUS
<1>14. PieceStart(s, i, zero) = e
  <2>1. PieceAt(zero) = 0
    BY <1>12, PieceSteps
  <2>2. Ends(s)[i - 1] = e
    BY <1>8, <1>11
  <2> QED BY <2>1, <2>2 DEF PieceStart
<1>15. Stands(b, s, sh, i, zero)
  <2>1. ValueStands(buf, s, sh, i)
    BY <1>1, <1>11
  <2> QED BY <1>12, <1>13, <2>1 DEF ValueStands
<1>16. e + 1 = d + sh
  <2>1. sh = (T + 1 - k) - d
    BY <1>1
  <2>2. k = T - e
    BY <1>8
  <2> QED BY <2>1, <2>2
<1>17. Here(b, d, s, i, zero)
  BY <1>11, <1>12, <1>14, <1>15, <1>16, PieceHere
<1>18. buf[data] = s[i].type
  BY <1>1, <1>13, <1>17 DEF Here
<1>19. s[n].type # s[n + 1].type
  <2>1. n \in 1..(Len(s) - 1)
    BY <1>1, <1>10
  <2> QED BY <1>1, <2>1 DEF Message
<1> QED BY <1>6, <1>9, <1>11, <1>18, <1>19

LEMMA MergePieceKeeps ==
  ASSUME TlvInv, MergePiece  PROVE TlvInv'
<1>1. PICK s, b : s = arriving /\ s = arriving' /\ b = buf
  BY SentStays DEF MergePiece, encoding
<1>2. pc = "merge" /\ Continues /\ UNCHANGED <<encoder, message>>
  BY DEF MergePiece, encoding
<1>3. PICK T \in Nat, n \in Nat \ {0}, sh \in Nat, d \in Nat \ {0}, k \in Nat :
        /\ T = Total(s) /\ n = Len(out) /\ sh = Shift /\ d = data /\ k = dlength
        /\ Message(s) /\ Len(s) \in Nat /\ n \in 1..Len(s) /\ n \in 0..Len(s)
        /\ IsSeq(out) /\ IsSeq(b) /\ Len(b) = T /\ sh = (T + 1 - k) - d /\ d + k <= T + 1
        /\ \A i \in (n + 1)..Len(s) : ValueStands(b, s, sh, i)
  <2>1. Len(out) \in Nat \ {0}
    BY <1>2 DEF TlvInv, MergeInv
  <2>2. Len(out) \in 1..Len(s)
    BY <1>1, <1>2, <2>1, DecoderFacts
  <2> QED BY <1>1, <1>2, <2>1, <2>2, DecoderFacts
<1>4. PICK q \in 1..Count(s, n) : Joined(b, s, sh, n, out, q, data, dlength)
  BY <1>1, <1>2, <1>3 DEF TlvInv, MergeInv
<1>5. q \in 0..(Count(s, n) - 1) /\ q \in Nat /\ Count(s, n) \in Nat \ {0}
  <2>1. q \in 0..(Count(s, n) - 1)
    BY <1>1, <1>2, <1>3, <1>4, MergesSameValue
  <2>2. Count(s, n) \in Nat \ {0}
    BY <1>3, Encodings
  <2> QED BY <2>1, <2>2
<1>6. PICK a \in Nat, st \in Nat, p \in 0..MaxPiece, l \in Nat, e \in Nat :
        /\ a = ValueAt(q) /\ st = PieceStart(s, n, q) /\ p = PieceLength(Length(s, n), q)
        /\ l = Length(s, n) /\ e = Ends(s)[n] /\ a + p <= l /\ st + 2 + p <= e /\ e <= T
  <2>1. Length(s, n) \in Nat /\ ValueAt(q) \in Nat
    BY <1>3, <1>5, Encodings, PieceSteps
  <2>2. /\ PieceLength(Length(s, n), q) \in 0..MaxPiece
        /\ ValueAt(q) + PieceLength(Length(s, n), q) <= Length(s, n)
        /\ PieceStart(s, n, q) \in Nat
        /\ PieceStart(s, n, q) + 2 + PieceLength(Length(s, n), q) <= Ends(s)[n]
        /\ Ends(s)[n] <= T /\ Ends(s)[n] \in Nat
    BY <1>3, <1>5, PiecesInside
  <2> QED BY <2>1, <2>2
<1>7. MaxPiece \in Nat \ {0} /\ p \in Nat /\ p <= MaxPiece
  BY <1>6, PieceAssumption
<1>8. out[n].length = a /\ out[n].value + a = d /\ k = T - st
  BY <1>3, <1>4, <1>6 DEF Joined
<1>9. sh = (T + 1 - k) - d /\ d + k <= T + 1 /\ st + 1 = d + sh
  <2>1. sh = (T + 1 - k) - d /\ d + k <= T + 1
    BY <1>3
  <2> QED BY <1>8, <2>1
<1>10. Here(b, d, s, n, q)
  <2>1. q \in q..(Count(s, n) - 1)
    BY <1>5
  <2>2. Stands(b, s, sh, n, q)
    BY <1>4, <2>1 DEF Joined
  <2> QED BY <1>3, <1>5, <1>6, <1>9, <2>2, PieceHere
<1>11. /\ b[d + 1] = p
       /\ \A j \in 1..p : b[d + 1 + j] = s[n].value[a + j]
  BY <1>6, <1>10 DEF Here
<1>12. PICK m \in Nat : m = k - 2 /\ m + 2 = k /\ p <= m /\ d + m + 1 <= T
  BY <1>6, <1>7, <1>8, <1>9
<1> DEFINE c == MoveDown(b, d, m)
<1>13. /\ buf' = c /\ data' = d + p /\ dlength' = k - (2 + p)
       /\ out' = [out EXCEPT ![n].length = @ + p]
       /\ pc' = IF p = MaxPiece THEN "merge" ELSE "next"
  BY <1>1, <1>3, <1>11, <1>12 DEF MergePiece, Moved, Taken
<1>14. /\ IsSeq(c) /\ Len(c) = T
       /\ \A j \in 1..(d - 1) : c[j] = b[j]
       /\ \A j \in d..(d + m - 1) : c[j] = b[j + 2]
  <2>1. IsSeq(b) /\ d + m + 1 <= Len(b) /\ Len(b) = T
    BY <1>3, <1>12
  <2>2. /\ IsSeq(c) /\ Len(c) = Len(b)
        /\ \A j \in 1..(d - 1) : c[j] = b[j]
        /\ \A j \in d..(d + m - 1) : c[j] = b[j + 2]
    BY <2>1, MovedBytes
  <2> QED BY <2>1, <2>2
<1> HIDE DEF c
<1>15. dlength' \in Nat /\ data' \in Nat \ {0} /\ data' + dlength' <= T + 1
       /\ dlength' = T - (st + 2 + p)
  BY <1>6, <1>7, <1>8, <1>9, <1>12, <1>13
<1>16. Shift' = sh + 2
  <2>1. Shift' = (T + 1 - dlength') - data'
    BY <1>1, <1>3 DEF Shift
  <2> QED BY <1>7, <1>9, <1>13, <2>1
\* The pieces that are left.
<1>17. ASSUME NEW i \in 1..Len(s), NEW r \in 0..(Count(s, i) - 1), Stands(b, s, sh, i, r),
              st + 2 + p <= PieceStart(s, i, r)
       PROVE  Stands(c, s, sh + 2, i, r)
  <2>1. PICK start \in Nat, w \in Nat, f \in Nat :
          /\ start = PieceStart(s, i, r) /\ w = PieceLength(Length(s, i), r)
          /\ f = Ends(s)[i] /\ start + 2 + w <= f /\ f <= T
    <3>1. /\ PieceLength(Length(s, i), r) \in 0..MaxPiece
          /\ PieceStart(s, i, r) \in Nat
          /\ PieceStart(s, i, r) + 2 + PieceLength(Length(s, i), r) <= Ends(s)[i]
          /\ Ends(s)[i] <= T /\ Ends(s)[i] \in Nat
      BY <1>3, PiecesInside
    <3>2. PieceLength(Length(s, i), r) \in Nat
      BY <1>7, <3>1
    <3> QED BY <3>1, <3>2
  <2>2. d + 1 + sh <= start /\ start + 2 + w <= d + m + 1 + sh
    <3>1. st + 2 + p <= start
      BY <1>17, <2>1
    <3>2. start + 2 + w <= T
      BY <2>1, SMTT(30)
    <3>3. d + 1 + sh <= start
      BY <1>7, <1>9, <3>1
    <3>4. d + m + 1 + sh = T
      BY <1>9, <1>12
    <3> QED BY <3>2, <3>3, <3>4
  <2>3. d + m + 1 <= Len(b) /\ IsSeq(b)
    BY <1>3, <1>12
  <2> QED BY <1>17, <2>1, <2>2, <2>3, MovedStands DEF c
<1>18. ASSUME NEW i \in (n + 1)..Len(s)  PROVE ValueStands(c, s, sh + 2, i)
  <2>1. i \in 1..Len(s) /\ i - 1 \in 0..Len(s) /\ n <= i - 1 /\ n \in 0..Len(s)
    BY <1>3, SMTT(30)
  <2>2. ASSUME NEW r \in 0..(Count(s, i) - 1)  PROVE Stands(c, s, sh + 2, i, r)
    <3>1. Stands(b, s, sh, i, r)
      BY <1>3 DEF ValueStands
    <3>2. e <= Ends(s)[i - 1] /\ Ends(s)[i - 1] <= PieceStart(s, i, r) /\ PieceStart(s, i, r) \in Nat
          /\ Ends(s)[i - 1] \in Nat
      BY <1>3, <1>6, <2>1, EndsGrow, PiecesInside, Encodings
    <3>3. st + 2 + p <= PieceStart(s, i, r)
      <4>1. PICK start \in Nat, f \in Nat : start = PieceStart(s, i, r) /\ e <= f /\ f <= start
        BY <3>2
      <4>2. st + 2 + p <= e
        BY <1>6
      <4>3. st + 2 + p <= start
        BY <1>7, <4>1, <4>2
      <4> QED BY <4>1, <4>3
    <3> QED BY <1>17, <2>1, <3>1, <3>3
  <2> QED BY <2>2 DEF ValueStands
<1>19. p # MaxPiece => a + p = l /\ st + 2 + p = e
  BY <1>3, <1>5, <1>6, LastPiece
<1>20. /\ IsSeq(out') /\ Len(out') = n
       /\ \A i \in 1..n : i # n => out'[i] = out[i]
       /\ out'[n] = [out[n] EXCEPT !.length = @ + p]
  <2>1. IsSeq(out) /\ Len(out) = n
    BY <1>3
  <2>2. DOMAIN out = 1..n
    BY <2>1, Elements
  <2>3. out' = [i \in 1..n |-> IF i = n THEN [out[n] EXCEPT !.length = @ + p] ELSE out[i]]
    BY <1>13, <2>2
  <2>4. PICK got : got = out'
    OBVIOUS
  <2>5. got = [i \in 1..n |-> got[i]]
    BY <2>3, <2>4
  <2>6. IsSeq(got) /\ Len(got) = n
    BY <2>5, Tabulated
  <2> QED BY <2>3, <2>4, <2>6
<1>21. RestInv'
  <2>1. Len(buf') = Total(arriving') /\ data' + dlength' <= Total(arriving') + 1
        /\ Len(out') <= Len(arriving')
    BY <1>1, <1>3, <1>13, <1>14, <1>15, <1>20
  <2>2. \A i \in (Len(out') + 1)..Len(arriving') : ValueStands(buf', arriving', Shift', i)
    BY <1>1, <1>13, <1>16, <1>18, <1>20
  <2>3. pc' # "merge" => dlength' = Total(arriving') - Ends(arriving')[Len(out')]
    BY <1>1, <1>3, <1>6, <1>13, <1>15, <1>19, <1>20
  <2>4. pc' # "done"
    BY <1>13
  <2> QED BY <2>1, <2>2, <2>3, <2>4 DEF RestInv
<1>22. ASSUME NEW i \in 1..n  PROVE Reads(b, s, out, d, i)
  BY <1>1, <1>2, <1>3 DEF TlvInv, ReadInv
<1>23. ASSUME NEW i \in 1..n, i # n
       PROVE  Reads(buf', arriving', out', data', i) /\ out'[i].length = Length(arriving', i)
  <2>1. PICK v \in Nat \ {0}, w \in Nat :
          /\ v = out[i].value /\ w = out[i].length /\ w \in 0..Length(s, i) /\ v + w <= d
          /\ Shaped(out[i]) /\ out[i].type = s[i].type
          /\ \A j \in 1..w : b[v + j - 1] = s[i].value[j]
    <3>1. Length(s, i) \in Nat
      <4>1. i \in 1..Len(s)
        BY <1>3
      <4> QED BY <1>3, <4>1, Encodings
    <3>2. out[i].length \in Nat
      BY <1>22, <3>1 DEF Reads
    <3> QED BY <1>22, <3>2 DEF Reads
  <2>2. \A j \in 1..w : v + j - 1 \in 1..(d - 1)
    BY <2>1
  <2>3. \A j \in 1..w : c[v + j - 1] = s[i].value[j]
    BY <1>14, <2>1, <2>2
  <2>4. v + w <= data'
    BY <1>7, <1>13, <2>1
  <2>5. out'[i] = out[i]
    BY <1>20, <1>23
  <2>6. Reads(c, s, out', data', i)
    BY <2>1, <2>3, <2>4, <2>5 DEF Reads
  <2>7. out[i].length = Length(s, i)
    <3>1. i < Len(out) /\ i \in 1..Len(out)
      BY <1>3, <1>23
    <3> QED BY <1>1, <1>2, <3>1 DEF TlvInv, ReadInv
  <2> QED BY <1>1, <1>13, <2>5, <2>6, <2>7
<1>24. Reads(buf', arriving', out', data', n) /\ out'[n].length = a + p
  <2>1. PICK v \in Nat \ {0} :
          /\ v = out[n].value /\ v + a = d /\ out[n].type = s[n].type
          /\ \A j \in 1..a : b[v + j - 1] = s[n].value[j]
    <3>1. n \in 1..n
      OBVIOUS
    <3> QED BY <1>8, <1>22, <3>1 DEF Reads
  <2>2. PICK got : got = out[n] /\ got.length = a
    BY <1>8
  <2>3. out'[n] = [got EXCEPT !.length = @ + p]
    BY <1>20, <2>2
  <2>4. /\ Shaped(out'[n])
        /\ out'[n].type = s[n].type /\ out'[n].value = v /\ out'[n].length = a + p
    <3>1. got = [type |-> got.type, value |-> got.value, length |-> got.length]
      <4>1. n \in 1..n
        OBVIOUS
      <4> QED BY <1>22, <2>2, <4>1 DEF Reads, Shaped
    <3>2. got.type = s[n].type /\ got.value = v /\ got.length = a
      BY <2>1, <2>2
    <3>3. out'[n] = [type |-> got.type, value |-> got.value, length |-> got.length + p]
      BY <2>3, <3>1
    <3> QED BY <3>2, <3>3 DEF Shaped
  <2>5. ASSUME NEW j \in 1..(a + p)  PROVE c[v + j - 1] = s[n].value[j]
    <3>1. CASE j <= a
      <4>1. j \in 1..a /\ v + j - 1 \in 1..(d - 1)
        BY <2>1, <3>1
      <4> QED BY <1>14, <2>1, <4>1
    <3>2. CASE j > a
      <4>1. PICK jj \in 1..p : j = a + jj
        <5>1. j - a \in 1..p /\ j = a + (j - a)
          BY <1>7, <3>2
        <5> QED BY <5>1
      <4> DEFINE x == v + j - 1
      <4>2. x \in d..(d + m - 1) /\ x + 2 = d + 1 + jj
        BY <1>7, <1>12, <2>1, <4>1
      <4> HIDE DEF x
      <4>3. c[x] = s[n].value[a + jj]
        BY <1>11, <1>14, <4>2
      <4> QED BY <4>1, <4>3 DEF x
    <3> QED BY <3>1, <3>2
  <2>6. v + (a + p) <= data' /\ a + p \in 0..l
    BY <1>6, <1>7, <1>13, <2>1
  <2>7. Reads(c, s, out', data', n)
    BY <1>6, <2>4, <2>5, <2>6 DEF Reads
  <2> QED BY <1>1, <1>13, <2>4, <2>7
<1>25. ReadInv'
  <2>1. pc' # "merge" => out'[n].length = Length(arriving', n)
    BY <1>1, <1>6, <1>13, <1>19, <1>24
  <2>2. ASSUME NEW i \in 1..Len(out')
        PROVE  /\ Reads(buf', arriving', out', data', i)
               /\ i < Len(out') \/ pc' # "merge" => out'[i].length = Length(arriving', i)
    <3>1. i \in 1..n /\ Len(out') = n
      BY <1>20
    <3> QED BY <1>23, <1>24, <2>1, <3>1
  <2> QED BY <2>2 DEF ReadInv
<1>26. MergeInv'
  <2>1. SUFFICES ASSUME pc' = "merge"
                 PROVE  /\ Len(out') \in Nat \ {0}
                        /\ \E r \in 1..Count(arriving', Len(out')) :
                             Joined(buf', arriving', Shift', Len(out'), out', r, data', dlength')
    BY DEF MergeInv
  <2>2. p = MaxPiece
    BY <1>13, <2>1
  <2>3. q + 1 \in 1..Count(s, n)
    BY <1>5
  <2>4. ValueAt(q + 1) = a + MaxPiece /\ PieceStart(s, n, q + 1) = st + 2 + MaxPiece
    <3>1. ValueAt(q + 1) = a + MaxPiece /\ PieceAt(q + 1) = PieceAt(q) + MaxPiece + 2
          /\ PieceAt(q) \in Nat
      BY <1>5, <1>6, PieceSteps
    <3>2. PICK w \in Nat : w = Ends(s)[n - 1] /\ st = w + PieceAt(q)
      <4>1. n - 1 \in 0..Len(s)
        BY <1>3
      <4> QED BY <1>3, <1>6, <4>1, Encodings DEF PieceStart
    <3>3. PieceStart(s, n, q + 1) = w + (PieceAt(q) + MaxPiece + 2)
      BY <3>1, <3>2 DEF PieceStart
    <3> QED BY <1>7, <3>1, <3>2, <3>3
  <2>5. out'[n].length = ValueAt(q + 1) /\ out'[n].value + ValueAt(q + 1) = data'
    <3>1. out'[n].value = out[n].value
      <4>1. PICK got : got = out[n]
        OBVIOUS
      <4>2. out'[n] = [got EXCEPT !.length = @ + p]
        BY <1>20, <4>1
      <4>3. got = [type |-> got.type, value |-> got.value, length |-> got.length]
        <5>1. n \in 1..n
          OBVIOUS
        <5> QED BY <1>22, <4>1, <5>1 DEF Reads, Shaped
      <4> QED BY <4>1, <4>2, <4>3
    <3>2. PICK v \in Nat : v = out[n].value
      <4>1. n \in 1..n
        OBVIOUS
      <4> QED BY <1>22, <4>1 DEF Reads
    <3>3. v + a = d
      BY <1>8, <3>2
    <3>4. v + (a + MaxPiece) = data'
      BY <1>7, <1>13, <2>2, <3>3
    <3> QED BY <1>24, <2>2, <2>4, <3>1, <3>2, <3>4
  <2>6. dlength' = T - PieceStart(s, n, q + 1)
    BY <1>15, <2>2, <2>4
  <2>7. ASSUME NEW r \in (q + 1)..(Count(s, n) - 1)  PROVE Stands(c, s, sh + 2, n, r)
    <3>1. r \in q..(Count(s, n) - 1) /\ r \in 0..(Count(s, n) - 1) /\ q < r
      BY <1>5
    <3>2. Stands(b, s, sh, n, r)
      BY <1>4, <3>1 DEF Joined
    <3>3. st + 2 + MaxPiece <= PieceStart(s, n, r)
      BY <1>3, <1>5, <1>6, <3>1, PiecesInside
    <3> QED BY <1>3, <1>17, <2>2, <3>1, <3>2, <3>3
  <2>8. Joined(c, s, sh + 2, n, out', q + 1, data', dlength')
    BY <1>3, <2>5, <2>6, <2>7 DEF Joined
  <2> QED BY <1>1, <1>13, <1>16, <1>20, <2>3, <2>8
<1>27. MessageInv'
  <2>1. pc' \in {"merge", "next"}
    BY <1>13
  <2> QED BY <1>2, <1>13, <1>14, <1>15, <1>20, <2>1 DEF TlvInv, MessageInv, NoneEmpty
<1>28. EncodedInv'
  BY <1>13 DEF EncodedInv
<1> QED BY <1>21, <1>25, <1>26, <1>27, <1>28 DEF TlvInv
----------------------------------------------------------------------------
(* The theorems. *)

LEMMA TlvStep == TlvInv /\ [Next]_vars => TlvInv'
<1> SUFFICES ASSUME TlvInv, [Next]_vars  PROVE TlvInv'
  OBVIOUS
<1>1. CASE PeerEncodes
  BY <1>1, PeerEncodesKeeps
<1>2. CASE EncodeNext
  BY <1>2, EncodeNextKeeps
<1>3. CASE EncodePiece
  BY <1>3, EncodePieceKeeps
<1>4. CASE Deliver
  BY <1>4, DeliverKeeps
<1>5. CASE DecodeNext
  BY <1>5, DecodeNextKeeps
<1>6. CASE DecodeEnd
  BY <1>6, DecodeEndKeeps
<1>7. CASE MergePiece
  BY <1>7, MergePieceKeeps
<1>8. CASE MergeEnd
  BY <1>8, MergeEndKeeps
<1>9. CASE UNCHANGED vars
  <2>1. UNCHANGED <<encoder, pc, message, item, value, left, buf, data, dlength, out>>
    BY <1>9 DEF vars
  <2>2. arriving' = arriving /\ Shift' = Shift
    BY <2>1 DEF arriving, Shift
  <2> QED BY <2>1, <2>2 DEF TlvInv, MessageInv, EncodedInv, RestInv, ReadInv, MergeInv, NoneEmpty
<1> QED BY <1>1, <1>2, <1>3, <1>4, <1>5, <1>6, <1>7, <1>8, <1>9 DEF Next

LEMMA TlvAlways == Spec => []TlvInv
BY InitTlv, TlvStep, PTL DEF Spec

\* A value that reads as it was sent, read whole.
LEMMA ReadsAsSent ==
  ASSUME TlvInv, pc # "encode", NEW s, s = arriving, NEW i \in 1..Len(out),
         out[i].length = Length(s, i)
  PROVE  Decoded[i] = s[i]
<1>1. PICK n \in Nat, d \in Nat, k \in Nat, T \in Nat :
        /\ n = Len(out) /\ d = data /\ k = dlength /\ Len(buf) = T
        /\ d + k <= T + 1 /\ Message(s) /\ IsSeq(buf) /\ IsSeq(out) /\ i \in 1..Len(s)
  <2>1. i \in 1..Len(s)
    BY DecoderFacts
  <2> QED BY <2>1, DecoderFacts
<1>2. Reads(buf, s, out, data, i)
  BY DEF TlvInv, ReadInv
<1>3. PICK v \in Nat \ {0}, l \in Nat :
        /\ v = out[i].value /\ l = out[i].length /\ l = Length(s, i) /\ v + l <= d
        /\ out[i].type = s[i].type
        /\ \A j \in 1..l : buf[v + j - 1] = s[i].value[j]
  <2>1. Length(s, i) \in Nat
    BY <1>1, Encodings
  <2> QED BY <1>1, <1>2, <2>1 DEF Reads
<1> DEFINE r == SubSeq(buf, v, v + l - 1)
<1>4. IsSeq(r) /\ Len(r) = l /\ \A j \in 1..l : r[j] = buf[v + j - 1]
  <2>1. PICK e \in Nat : e = v + l - 1 /\ e <= Len(buf) /\ v <= e + 1 /\ e - v + 1 = l
    <3>1. v + l - 1 \in Nat /\ v + l - 1 <= T /\ v <= (v + l - 1) + 1 /\ (v + l - 1) - v + 1 = l
      <4>1. d + k <= T + 1 /\ v + l <= d
        BY <1>1, <1>3
      <4> QED BY <4>1
    <3> QED BY <1>1, <3>1
  <2>2. IsSeq(buf)
    BY <1>1
  <2>3. /\ IsSeq(SubSeq(buf, v, e)) /\ Len(SubSeq(buf, v, e)) = e - v + 1
        /\ \A j \in 1..(e - v + 1) : SubSeq(buf, v, e)[j] = buf[v + j - 1]
    BY <2>1, <2>2, Piece
  <2> QED BY <2>1, <2>3
<1> HIDE DEF r
<1>5. r = s[i].value
  <2>1. IsSeq(s[i].value) /\ Len(s[i].value) = l
    BY <1>1, <1>3 DEF Message, Length
  <2> DEFINE w == s[i].value
  <2>2. IsSeq(w) /\ Len(r) = Len(w) /\ \A j \in 1..Len(r) : r[j] = w[j]
    BY <1>3, <1>4, <2>1
  <2> HIDE DEF w
  <2>3. r = w
    BY <1>4, <2>2, SameSequences
  <2> QED BY <2>3 DEF w
<1>6. Decoded[i] = [type |-> out[i].type, value |-> r]
  <2>1. i \in DOMAIN out
    BY <1>1, Elements
  <2> QED BY <1>3, <2>1 DEF Decoded, Read, r
<1>7. s[i] = [type |-> s[i].type, value |-> s[i].value]
  BY <1>1 DEF Message
<1> QED BY <1>3, <1>5, <1>6, <1>7

\* What was decoded of a peer's message reads as it was sent, however long
\* the message and its pieces are, and stays so while later pieces are moved
\* over the gaps (tlv_decode_next).
THEOREM DecodedStands == Spec => []ValuesStand
<1>1. TlvInv => ValuesStand
  <2> SUFFICES ASSUME TlvInv, encoder = "peer"  PROVE ValuesStand
    BY DEF ValuesStand
  <2> DEFINE whole == IF pc = "merge" THEN Len(out) - 1 ELSE Len(out)
  <2>1. MessageInv /\ arriving = message /\ IsSeq(out) /\ Len(message) \in Nat
    <3>1. MessageInv
      BY DEF TlvInv
    <3> QED BY <3>1, MessageFacts DEF MessageInv, arriving
  <2>2. Len(out) \in Nat
    BY <2>1, Elements
  <2>3. CASE pc = "encode"
    <3>1. out = <<>> /\ data = 1 /\ dlength = 0
      BY <2>3 DEF TlvInv, EncodedInv
    <3>2. Len(buf) \in Nat
      BY <2>1, Elements DEF MessageInv
    <3>3. whole = 0
      BY <2>3, <3>1
    <3> HIDE DEF whole
    <3>4. /\ data + dlength <= Len(buf) + 1 /\ whole <= Len(message)
          /\ \A i \in 1..whole : Decoded[i] = message[i]
          /\ pc = "done" => Len(out) = Len(message)
      BY <2>1, <2>3, <3>1, <3>2, <3>3
    <3> QED BY <3>4 DEF ValuesStand, whole
  <2>4. CASE pc # "encode"
    <3>1. PICK s : s = arriving
      OBVIOUS
    <3>2. data + dlength <= Len(buf) + 1 /\ Len(out) <= Len(message)
      BY <2>1, <2>4, <3>1, DecoderFacts
    <3>3. pc = "done" => Len(out) = Len(message)
      BY <2>1, <2>4 DEF TlvInv, RestInv
    <3>4. whole <= Len(message)
      BY <2>1, <2>2, <3>2
    <3>5. ASSUME NEW i \in 1..whole  PROVE Decoded[i] = message[i]
      <4>1. i \in 1..Len(out) /\ (i < Len(out) \/ pc # "merge")
        BY <2>2
      <4>2. out[i].length = Length(s, i)
        BY <2>4, <3>1, <4>1 DEF TlvInv, ReadInv
      <4>3. Decoded[i] = s[i]
        BY <2>4, <3>1, <4>1, <4>2, ReadsAsSent
      <4> QED BY <2>1, <3>1, <4>3
    <3> HIDE DEF whole
    <3> QED BY <3>2, <3>3, <3>4, <3>5 DEF ValuesStand, whole
  <2> QED BY <2>3, <2>4
<1> QED BY <1>1, TlvAlways, PTL

\* Of what tlv_encode_next encodes, every value of one piece comes back whole,
\* whatever its neighbours' lengths, and the buffer has the bytes a peer's
\* encoding would have.
THEOREM ShortValuesReturn == Spec => []ShortRoundTrip
<1>1. TlvInv => ShortRoundTrip
  <2> SUFFICES ASSUME TlvInv, pc # "encode", encoder = "accessory"  PROVE ShortRoundTrip
    BY DEF ShortRoundTrip
  <2>1. PICK s : s = arriving
    OBVIOUS
  <2>2. /\ message \in Messages /\ Message(s) /\ Len(buf) = Total(s) /\ IsSeq(out)
    BY <2>1, DecoderFacts
  <2>3. Message(message) /\ Len(s) = Len(message)
        /\ \A i \in 1..Len(message) : Length(s, i) = Length(message, i)
    BY <2>1, <2>2, SentMessage
  <2>4. Len(buf) = Ends(message)[Len(message)]
    <3>1. Total(s) = Total(message)
      BY <2>2, <2>3, EndsAgree
    <3> QED BY <2>2, <3>1 DEF Total
  <2>5. pc = "done" => Len(out) = Len(message)
    BY <2>1, <2>3 DEF TlvInv, RestInv
  <2>6. ASSUME pc = "done", NEW i \in DOMAIN out, Len(message[i].value) <= MaxPiece
        PROVE  Decoded[i] = message[i]
    <3>1. i \in 1..Len(out) /\ i \in 1..Len(message)
      BY <2>2, <2>5, <2>6, Elements
    <3>2. out[i].length = Length(s, i)
      BY <2>1, <2>6, <3>1 DEF TlvInv, ReadInv
    <3>3. Decoded[i] = s[i]
      BY <2>1, <3>1, <3>2, ReadsAsSent
    <3>4. s[i] = message[i]
      BY <2>1, <2>2, <2>6, <3>1, SentPieces DEF Length
    <3> QED BY <3>3, <3>4
  <2> QED BY <2>4, <2>5, <2>6 DEF ShortRoundTrip
<1> QED BY <1>1, TlvAlways, PTL

----------------------------------------------------------------------------
(* Requests. *)

First(s, n) == [k \in 1..n |-> s[k]]
Ended(L) == [i \in 1..Len(L) |-> L[i] \o CRLF]

\* How much of the text the first i of its lines take.
At(L, i) == Len(FlattenSeq(First(Ended(L), i)))

\* The i-th line is as it was sent, or strtok has ended it.
WordsStand(L, i) == \A j \in 1..Len(L[i]) : mem[At(L, i - 1) + j] = L[i][j]
LineStands(L, i) ==
  WordsStand(L, i) /\ mem[At(L, i) - 1] = "CR" /\ mem[At(L, i)] = "LF"
LineIsCut(L, i) ==
  WordsStand(L, i) /\ mem[At(L, i) - 1] = NUL /\ mem[At(L, i)] = "LF"

BodyStands(L) ==
  /\ Len(mem) = At(L, Len(L)) + 2 + Len(sent)
  /\ \A j \in 1..Len(sent) : mem[At(L, Len(L)) + 2 + j] = sent[j]

\* The scan of lines is in the i-th, and has read none after it; the last it
\* gets to is the n-th.
InLine(L, n) ==
  \E i \in 1..n :
    /\ sep = At(L, i - 1) + 1 /\ save = At(L, i)
    /\ LineIsCut(L, i) /\ \A k \in (i + 1)..n : LineStands(L, k)
    /\ scan = "next" => i < n
    /\ scan = "value" => i = n

\* The number stands behind the name of its header, which begins after v.
NumberStands(v) ==
  mem[v + 3] = " " /\ mem[v + 4] = Numerals[Len(sent)] /\ mem[v + 5] = NUL

Scanned(L, n) ==
  LET v == At(L, n - 1)
  IN /\ BodyStands(L)
     /\ scan = "first" => save = 0 /\ \A i \in 1..n : LineStands(L, i)
     /\ scan \in {"compare", "next", "value"} /\ save # 0 => InLine(L, n)
     /\ scan = "value" => save # 0
     /\ scan = "rest" =>
          NumberStands(v) /\ (save = v + 3 \/ (save = 0 /\ o = v + 3))
     /\ scan \in {"compare", "next"} /\ save = 0 => payload_len = Len(sent)
     /\ scan = "compare" /\ save = 0 => sep = 0
     /\ scan = "done" => save = 0 /\ payload = sent

\* What holds of a request with a Content-Length, and of no other.
ScanInv ==
  /\ sent \in Payloads /\ mem \in Seq(Symbols)
  /\ scan \in {"first", "compare", "next", "value", "rest", "done"}
  /\ \E before, after \in Lines :
       Scanned(HeaderLines(before, after, sent), Len(before) + 2)
----------------------------------------------------------------------------
(* The text and its lines. *)

LEMMA Flattened ==
  ASSUME NEW S, NEW s \in Seq(Seq(S))
  PROVE  \E f \in [0..Len(s) -> Seq(S)] :
           /\ f[0] = <<>>
           /\ \A k \in 0..(Len(s) - 1) : f[k + 1] = f[k] \o s[k + 1]
           /\ \A i \in 1..Len(s) : FlattenSeq(First(s, i)) = f[i]
<1> DEFINE n == Len(s)
           Strings == Seq(S)
           none == <<>>
           Join == [x \in Nat \X Strings |->
                      IF x[1] < n THEN x[2] \o s[x[1] + 1] ELSE x[2]]
<1>1. n \in Nat /\ none \in Strings /\ \A k \in 1..n : s[k] \in Strings
  OBVIOUS
<1>2. \A k \in Nat, v \in Strings :
        Join[<<k, v>>] = IF k < n THEN v \o s[k + 1] ELSE v
  OBVIOUS
<1>3. Stays(Strings, Join)
  <2>1. ASSUME NEW k \in Nat, NEW v \in Strings PROVE Join[<<k, v>>] \in Strings
    <3>1. CASE k < n
      <4>1. k + 1 \in 1..n
        BY <1>1, <3>1
      <4>2. s[k + 1] \in Seq(S) /\ v \in Seq(S)
        BY <1>1, <4>1
      <4>3. v \o s[k + 1] \in Strings
        BY <4>2
      <4> HIDE DEF Join, Strings
      <4> QED BY <1>2, <3>1, <4>3
    <3>2. CASE ~(k < n)
      <4> HIDE DEF Join, Strings
      <4> QED BY <1>2, <3>2
    <3> QED BY <3>1, <3>2
  <2> HIDE DEF Join, Strings
  <2> QED BY <2>1 DEF Stays
<1> HIDE DEF Join, Strings, n, none
<1>4. PICK f \in [0..n -> Strings] : Steps(f, n, none, Join)
  BY <1>1, <1>3, StepsExist
<1>5. f[0] = <<>>
  BY <1>4 DEF Steps, none
<1>6. \A k \in 0..(n - 1) : f[k + 1] = f[k] \o s[k + 1]
  <2>1. ASSUME NEW k \in 0..(n - 1) PROVE f[k + 1] = f[k] \o s[k + 1]
    <3>1. k \in Nat /\ k < n /\ k \in 0..n
      BY <1>1
    <3>2. f[k] \in Strings
      BY <1>4, <3>1
    <3>3. f[k + 1] = Join[<<k, f[k]>>]
      BY <1>4 DEF Steps
    <3> QED BY <1>2, <3>1, <3>2, <3>3
  <2> QED BY <2>1
<1>7. ASSUME NEW i \in 1..n PROVE FlattenSeq(First(s, i)) = f[i]
  <2> DEFINE t == First(s, i)
             Is(g) == g = [k \in 1..Len(t) |->
                             IF k = 1 THEN t[k] ELSE g[k - 1] \o t[k]]
             g == [k \in 1..i |-> f[k]]
  <2>1. i \in Nat /\ i # 0 /\ i \in 1..i /\ \A k \in 1..i : k \in 1..n /\ k \in 0..n
    BY <1>1
  <2>2. Len(t) = i /\ t # <<>> /\ \A k \in 1..i : t[k] = s[k]
    <3>1. t = [k \in 1..i |-> t[k]]
      BY DEF First
    <3>2. Len(t) = i
      <4> HIDE DEF t
      <4> QED BY <2>1, <3>1, Tabulated
    <3> QED BY <2>1, <3>2 DEF First
  <2> HIDE DEF t
  <2>3. ASSUME NEW k \in 1..i
        PROVE  f[k] = IF k = 1 THEN t[k] ELSE g[k - 1] \o t[k]
    <3>1. k - 1 \in 0..(n - 1) /\ (k - 1) + 1 = k
      BY <1>1, <2>1
    <3>2. f[k] = f[k - 1] \o s[k] /\ t[k] = s[k]
      BY <1>6, <2>2, <3>1
    <3>3. CASE k = 1
      <4>1. s[k] \in Seq(S)
        BY <1>1, <2>1 DEF Strings
      <4>2. <<>> \o s[k] = s[k]
        BY <4>1
      <4>3. f[k - 1] = <<>>
        BY <1>5, <3>3
      <4> QED BY <3>2, <3>3, <4>2, <4>3
    <3>4. CASE k # 1
      <4>1. k - 1 \in 1..i
        BY <2>1, <3>4
      <4> QED BY <3>2, <3>4, <4>1
    <3> QED BY <3>3, <3>4
  <2>4. Is(g)
    BY <2>2, <2>3
  <2> DEFINE h == CHOOSE x : Is(x)
  <2>5. Is(h)
    <3> HIDE DEF Is, g
    <3> QED BY <2>4
  <2>6. FlattenSeq(t) = h[i]
    BY <2>1, <2>2 DEF FlattenSeq
  <2> HIDE DEF h
  <2> DEFINE A == {k \in Nat : k \in 1..i => h[k] = f[k]}
  <2>7. 0 \in A
    OBVIOUS
  <2>8. ASSUME NEW k \in Nat, k \in A PROVE k + 1 \in A
    <3>1. SUFFICES ASSUME k + 1 \in 1..i PROVE h[k + 1] = f[k + 1]
      OBVIOUS
    <3>2. h[k + 1] = IF k + 1 = 1 THEN t[k + 1] ELSE h[(k + 1) - 1] \o t[k + 1]
      BY <2>2, <2>5, <3>1
    <3>3. f[k + 1] = IF k + 1 = 1 THEN t[k + 1] ELSE g[(k + 1) - 1] \o t[k + 1]
      <4> HIDE DEF g
      <4> QED BY <2>3, <3>1
    <3>4. CASE k = 0
      BY <3>2, <3>3, <3>4
    <3>5. CASE k # 0
      <4>1. k \in 1..i /\ (k + 1) - 1 = k /\ k + 1 # 1
        BY <2>1, <3>1, <3>5
      <4>2. h[k] = f[k] /\ g[k] = f[k]
        BY <2>8, <4>1
      <4> HIDE DEF g
      <4> QED BY <3>2, <3>3, <4>1, <4>2
    <3> QED BY <3>4, <3>5
  <2> HIDE DEF A
  <2>9. Nat \subseteq A
    BY <2>7, <2>8, Induction
  <2>10. h[i] = f[i]
    BY <2>1, <2>9 DEF A
  <2> QED BY <2>6, <2>10 DEF t
<1> QED BY <1>4, <1>5, <1>6, <1>7 DEF n, Strings

LEMMA FirstOfAll ==
  ASSUME NEW S, NEW s \in Seq(S)
  PROVE  First(s, Len(s)) = s
BY DEF First

LEMMA FlattenedParts ==
  ASSUME NEW S, NEW s \in Seq(Seq(S)), s # <<>>
  PROVE  /\ FlattenSeq(s) \in Seq(S)
         /\ \A i \in 0..Len(s) : Len(FlattenSeq(First(s, i))) \in Nat
         /\ Len(FlattenSeq(First(s, 0))) = 0
         /\ \A i \in 1..Len(s) :
              /\ Len(FlattenSeq(First(s, i))) =
                   Len(FlattenSeq(First(s, i - 1))) + Len(s[i])
              /\ Len(FlattenSeq(First(s, i))) <= Len(FlattenSeq(s))
              /\ \A j \in 1..Len(s[i]) :
                   FlattenSeq(s)[Len(FlattenSeq(First(s, i - 1))) + j] = s[i][j]
<1> DEFINE n == Len(s)
<1>1. n \in Nat /\ n # 0 /\ \A k \in 1..n : s[k] \in Seq(S) /\ Len(s[k]) \in Nat
  OBVIOUS
<1> HIDE DEF n
<1>2. PICK f \in [0..n -> Seq(S)] :
           /\ f[0] = <<>>
           /\ \A k \in 0..(n - 1) : f[k + 1] = f[k] \o s[k + 1]
           /\ \A i \in 1..n : FlattenSeq(First(s, i)) = f[i]
  BY Flattened DEF n
<1>3. \A i \in 0..n : f[i] \in Seq(S) /\ Len(f[i]) \in Nat
  BY <1>2
<1>4. FlattenSeq(First(s, 0)) = <<>>
  <2>1. First(s, 0) = <<>>
    BY DEF First
  <2> QED BY <2>1 DEF FlattenSeq
<1>5. \A i \in 0..n : FlattenSeq(First(s, i)) = f[i]
  <2>1. ASSUME NEW i \in 0..n PROVE FlattenSeq(First(s, i)) = f[i]
    <3>1. i = 0 \/ i \in 1..n
      BY <1>1
    <3> QED BY <1>2, <1>4, <3>1
  <2> QED BY <2>1
<1>6. FlattenSeq(s) = f[n]
  <2>1. n \in 1..n /\ First(s, n) = s
    BY <1>1, FirstOfAll DEF n
  <2> QED BY <1>2, <2>1
<1>7. ASSUME NEW i \in 1..n
      PROVE  /\ Len(f[i]) = Len(f[i - 1]) + Len(s[i])
             /\ \A j \in 1..Len(f[i - 1]) : f[i][j] = f[i - 1][j]
             /\ \A j \in 1..Len(s[i]) : f[i][Len(f[i - 1]) + j] = s[i][j]
  <2>1. i - 1 \in 0..(n - 1) /\ (i - 1) + 1 = i /\ i - 1 \in 0..n
    BY <1>1
  <2>2. f[i] = f[i - 1] \o s[i] /\ f[i - 1] \in Seq(S) /\ s[i] \in Seq(S)
    BY <1>1, <1>2, <1>3, <2>1
  <2>3. IsSeq(f[i - 1]) /\ IsSeq(s[i])
    BY <2>2 DEF IsSeq
  <2> DEFINE a == f[i - 1]  b == s[i]
  <2>4. IsSeq(a) /\ IsSeq(b) /\ f[i] = a \o b
    BY <2>2, <2>3
  <2> HIDE DEF a, b
  <2>5. /\ Len(a \o b) = Len(a) + Len(b)
        /\ \A j \in 1..Len(a) : (a \o b)[j] = a[j]
        /\ \A j \in 1..Len(b) : (a \o b)[Len(a) + j] = b[j]
    BY <2>4, Concatenated
  <2>6. /\ Len(f[i]) = Len(a) + Len(b)
        /\ \A j \in 1..Len(a) : f[i][j] = a[j]
        /\ \A j \in 1..Len(b) : f[i][Len(a) + j] = b[j]
    BY <2>4, <2>5
  <2> QED BY <2>6 DEF a, b
<1>8. ASSUME NEW i \in 1..n
      PROVE  \A m \in i..n : Len(f[i]) <= Len(f[m]) /\ \A j \in 1..Len(f[i]) : f[m][j] = f[i][j]
  <2> DEFINE Keeps(m) == Len(f[i]) <= Len(f[m]) /\ \A j \in 1..Len(f[i]) : f[m][j] = f[i][j]
             A == {m \in Nat : m \in i..n => Keeps(m)}
  <2>1. 0 \in A
    OBVIOUS
  <2>2. ASSUME NEW m \in Nat, m \in A PROVE m + 1 \in A
    <3>1. SUFFICES ASSUME m + 1 \in i..n PROVE Keeps(m + 1)
      OBVIOUS
    <3>2. CASE m + 1 = i
      <4>1. Len(f[i]) \in Nat
        BY <1>3
      <4> QED BY <3>2, <4>1
    <3>3. CASE m + 1 # i
      <4>1. m \in i..n /\ m \in 0..n /\ m + 1 \in 1..n /\ (m + 1) - 1 = m /\ i \in 0..n
        BY <1>1, <3>1, <3>3
      <4>2. Keeps(m)
        BY <2>2, <4>1
      <4>3. /\ Len(f[m + 1]) = Len(f[m]) + Len(s[m + 1])
            /\ \A j \in 1..Len(f[m]) : f[m + 1][j] = f[m][j]
        <5> DEFINE k == m + 1
        <5>1. k \in 1..n /\ k - 1 = m
          BY <4>1
        <5> HIDE DEF k
        <5>2. /\ Len(f[k]) = Len(f[k - 1]) + Len(s[k])
              /\ \A j \in 1..Len(f[k - 1]) : f[k][j] = f[k - 1][j]
          BY <1>7, <5>1
        <5>3. /\ Len(f[k]) = Len(f[m]) + Len(s[k])
              /\ \A j \in 1..Len(f[m]) : f[k][j] = f[m][j]
          BY <5>1, <5>2
        <5> QED BY <5>3 DEF k
      <4>4. Len(f[i]) \in Nat /\ Len(f[m]) \in Nat /\ Len(s[m + 1]) \in Nat
        BY <1>1, <1>3, <4>1
      <4>5. Len(f[i]) <= Len(f[m + 1])
        <5> DEFINE a == Len(f[i])  b == Len(f[m])  c == Len(s[m + 1])  d == Len(f[m + 1])
        <5>1. a \in Nat /\ b \in Nat /\ c \in Nat /\ a <= b /\ d = b + c
          BY <4>2, <4>3, <4>4
        <5> HIDE DEF a, b, c, d
        <5>2. a <= d
          BY <5>1
        <5> QED BY <5>2 DEF a, d
      <4>6. \A j \in 1..Len(f[i]) : f[m + 1][j] = f[i][j]
        <5>1. \A j \in 1..Len(f[i]) : j \in 1..Len(f[m])
          BY <4>2, <4>4
        <5> QED BY <4>2, <4>3, <5>1
      <4> QED BY <4>5, <4>6
    <3> QED BY <3>2, <3>3
  <2> HIDE DEF A
  <2>3. Nat \subseteq A
    BY <2>1, <2>2, Induction
  <2>4. \A m \in i..n : m \in Nat
    BY <1>1
  <2> QED BY <2>3, <2>4 DEF A
<1>9. ASSUME NEW i \in 1..n
      PROVE  /\ Len(f[i]) = Len(f[i - 1]) + Len(s[i]) /\ Len(f[i]) <= Len(f[n])
             /\ \A j \in 1..Len(s[i]) : f[n][Len(f[i - 1]) + j] = s[i][j]
  <2>1. n \in i..n /\ i - 1 \in 0..n /\ i \in 0..n
    BY <1>1
  <2>2. Len(f[i]) <= Len(f[n]) /\ \A j \in 1..Len(f[i]) : f[n][j] = f[i][j]
    BY <1>8, <2>1
  <2>3. Len(f[i - 1]) \in Nat /\ Len(s[i]) \in Nat
    BY <1>1, <1>3, <2>1
  <2>4. \A j \in 1..Len(s[i]) : Len(f[i - 1]) + j \in 1..Len(f[i])
    <3> DEFINE a == Len(f[i - 1])  b == Len(s[i])  c == Len(f[i])
    <3>1. a \in Nat /\ b \in Nat /\ c = a + b
      BY <1>7, <2>3
    <3> HIDE DEF a, b, c
    <3>2. \A j \in 1..b : a + j \in 1..c
      BY <3>1
    <3> QED BY <3>2 DEF a, b, c
  <2> QED BY <1>7, <2>2, <2>4
<1>10. \A i \in 1..n : i \in 0..n /\ i - 1 \in 0..n
  BY <1>1
<1>11. Len(f[0]) = 0 /\ 0 \in 0..n /\ n \in 0..n
  BY <1>1, <1>2
<1> QED BY <1>3, <1>5, <1>6, <1>9, <1>10, <1>11 DEF n

LEMMA Three ==
  ASSUME NEW S, NEW a \in S, NEW b \in S, NEW c \in S, NEW s, s = <<a, b, c>>
  PROVE  /\ s \in Seq(S) /\ Len(s) = 3 /\ s[1] = a /\ s[2] = b /\ s[3] = c
         /\ \A j \in 1..Len(s) : s[j] \in {a, b, c}
OBVIOUS

LEMMA Four ==
  ASSUME NEW S, NEW a \in S, NEW b \in S, NEW c \in S, NEW d \in S,
         NEW s, s = <<a, b, c, d>>
  PROVE  /\ s \in Seq(S) /\ Len(s) = 4
         /\ s[1] = a /\ s[2] = b /\ s[3] = c /\ s[4] = d
         /\ \A j \in 1..Len(s) : s[j] \in {a, b, c, d}
OBVIOUS

LEMMA Prefix ==
  ASSUME NEW S, NEW s \in Seq(S), NEW t \in Seq(S)
  PROVE  IsPrefix(s, t) <=> /\ Len(s) <= Len(t)
                            /\ \A j \in 1..Len(s) : s[j] = t[j]
BY DEF IsPrefix

LEMMA Marks ==
  /\ CRLF \in Seq(Symbols) /\ Len(CRLF) = 2 /\ CRLF[1] = "CR" /\ CRLF[2] = "LF"
  /\ {"x", " ", "CL", ":"} \subseteq Symbols
<1>1. {"x", " ", "CL", ":", "CR", "LF"} \subseteq Symbols
  BY RequestAssumption DEF RequestAssumption, EndOfLine
<1>2. \A a, b \in Symbols : <<a, b>> \in Seq(Symbols)
  OBVIOUS
<1> QED BY <1>1, <1>2 DEF CRLF

LEMMA EndedLines ==
  ASSUME NEW L \in Seq(Seq(Symbols)), L # <<>>
  PROVE  /\ Ended(L) \in Seq(Seq(Symbols)) /\ Ended(L) # <<>>
         /\ Len(Ended(L)) = Len(L)
         /\ \A i \in 1..Len(L) :
              /\ Len(Ended(L)[i]) = Len(L[i]) + 2
              /\ \A j \in 1..Len(L[i]) : Ended(L)[i][j] = L[i][j]
              /\ Ended(L)[i][Len(L[i]) + 1] = "CR"
              /\ Ended(L)[i][Len(L[i]) + 2] = "LF"
<1> DEFINE n == Len(L)
<1>1. n \in Nat /\ n # 0 /\ \A i \in 1..n : L[i] \in Seq(Symbols)
  OBVIOUS
<1>2. ASSUME NEW l \in Seq(Symbols)
      PROVE  /\ l \o CRLF \in Seq(Symbols) /\ Len(l \o CRLF) = Len(l) + 2
             /\ \A j \in 1..Len(l) : (l \o CRLF)[j] = l[j]
             /\ (l \o CRLF)[Len(l) + 1] = "CR" /\ (l \o CRLF)[Len(l) + 2] = "LF"
  <2>1. CRLF \in Seq(Symbols) /\ Len(CRLF) = 2 /\ CRLF[1] = "CR" /\ CRLF[2] = "LF"
    BY Marks
  <2> DEFINE e == CRLF
  <2>2. e \in Seq(Symbols) /\ Len(e) = 2 /\ e[1] = "CR" /\ e[2] = "LF"
    BY <2>1
  <2>3. IsSeq(l) /\ IsSeq(e)
    BY <2>2 DEF IsSeq
  <2> HIDE DEF e
  <2>4. /\ l \o e \in Seq(Symbols) /\ Len(l \o e) = Len(l) + 2
        /\ \A j \in 1..Len(l) : (l \o e)[j] = l[j]
        /\ \A j \in 1..2 : (l \o e)[Len(l) + j] = e[j]
    <3>1. l \o e \in Seq(Symbols)
      BY <2>2
    <3>2. /\ Len(l \o e) = Len(l) + Len(e)
          /\ \A j \in 1..Len(l) : (l \o e)[j] = l[j]
          /\ \A j \in 1..Len(e) : (l \o e)[Len(l) + j] = e[j]
      BY <2>3, Concatenated
    <3> QED BY <2>2, <3>1, <3>2
  <2>5. 1 \in 1..2 /\ 2 \in 1..2
    OBVIOUS
  <2> QED BY <2>2, <2>4, <2>5 DEF e
<1>3. \A i \in 1..n : Ended(L)[i] = L[i] \o CRLF
  BY DEF Ended
<1>4. Ended(L) \in [1..n -> Seq(Symbols)]
  <2>1. \A i \in 1..n : L[i] \o CRLF \in Seq(Symbols)
    BY <1>1, <1>2
  <2> QED BY <2>1 DEF Ended
<1>5. Ended(L) \in Seq(Seq(Symbols)) /\ Len(Ended(L)) = n /\ Ended(L) # <<>>
  <2> HIDE DEF n
  <2> QED BY <1>1, <1>4
<1>6. ASSUME NEW i \in 1..n
      PROVE  /\ Len(Ended(L)[i]) = Len(L[i]) + 2
             /\ \A j \in 1..Len(L[i]) : Ended(L)[i][j] = L[i][j]
             /\ Ended(L)[i][Len(L[i]) + 1] = "CR"
             /\ Ended(L)[i][Len(L[i]) + 2] = "LF"
  <2> DEFINE l == L[i]  r == l \o CRLF
  <2>1. l \in Seq(Symbols) /\ Ended(L)[i] = r
    BY <1>1, <1>3
  <2> HIDE DEF l
  <2>2. /\ Len(r) = Len(l) + 2
        /\ \A j \in 1..Len(l) : r[j] = l[j]
        /\ r[Len(l) + 1] = "CR" /\ r[Len(l) + 2] = "LF"
    BY <1>2, <2>1
  <2> HIDE DEF r
  <2> QED BY <2>1, <2>2 DEF l
<1> QED BY <1>5, <1>6 DEF n

LEMMA Places ==
  ASSUME NEW L \in Seq(Seq(Symbols)), L # <<>>
  PROVE  /\ At(L, 0) = 0
         /\ \A i \in 0..Len(L) : At(L, i) \in Nat /\ At(L, i) <= At(L, Len(L))
         /\ \A i \in 1..Len(L) : At(L, i) = At(L, i - 1) + Len(L[i]) + 2
<1> DEFINE e == Ended(L)  n == Len(L)
<1>1. /\ e \in Seq(Seq(Symbols)) /\ e # <<>> /\ Len(e) = n /\ n \in Nat
      /\ \A i \in 1..n : Len(e[i]) = Len(L[i]) + 2 /\ Len(L[i]) \in Nat
  <2>1. n \in Nat /\ \A i \in 1..n : Len(L[i]) \in Nat
    OBVIOUS
  <2> QED BY <2>1, EndedLines
<1>2. \A i \in 0..n : At(L, i) = Len(FlattenSeq(First(e, i)))
  BY DEF At
<1> HIDE DEF e, n
<1>3. FlattenSeq(e) = FlattenSeq(First(e, n))
  BY <1>1, FirstOfAll
<1>4. /\ \A i \in 0..n : Len(FlattenSeq(First(e, i))) \in Nat
      /\ Len(FlattenSeq(First(e, 0))) = 0
      /\ \A i \in 1..n :
           /\ Len(FlattenSeq(First(e, i))) = Len(FlattenSeq(First(e, i - 1))) + Len(e[i])
           /\ Len(FlattenSeq(First(e, i))) <= Len(FlattenSeq(e))
  BY <1>1, FlattenedParts
<1>5. \A i \in 0..n : At(L, i) \in Nat
  BY <1>2, <1>4
<1>6. 0 \in 0..n /\ n \in 0..n /\ At(L, 0) = 0
  <2>1. 0 \in 0..n /\ n \in 0..n
    BY <1>1
  <2> QED BY <2>1, <1>2, <1>4
<1>7. \A i \in 1..n : i \in 0..n /\ i - 1 \in 0..n
  BY <1>1
<1>8. ASSUME NEW i \in 1..n
      PROVE  At(L, i) = At(L, i - 1) + Len(L[i]) + 2 /\ At(L, i) <= At(L, n)
  <2>1. At(L, i) = At(L, i - 1) + Len(e[i]) /\ At(L, i) <= At(L, n)
    BY <1>2, <1>3, <1>4, <1>6, <1>7
  <2>2. Len(e[i]) = Len(L[i]) + 2 /\ Len(L[i]) \in Nat /\ At(L, i - 1) \in Nat
    BY <1>1, <1>5, <1>7
  <2> QED BY <2>1, <2>2
<1>9. \A i \in 0..n : i = 0 \/ i \in 1..n
  BY <1>1
<1>10. \A i \in 0..n : At(L, i) <= At(L, n)
  BY <1>5, <1>6, <1>8, <1>9
<1> QED BY <1>5, <1>6, <1>8, <1>10 DEF n

LEMMA TextStands ==
  ASSUME NEW L \in Seq(Seq(Symbols)), L # <<>>, NEW p \in Seq(Symbols)
  PROVE  /\ Text(L, p) \in Seq(Symbols)
         /\ Len(Text(L, p)) = At(L, Len(L)) + 2 + Len(p)
         /\ \A j \in 1..Len(p) : Text(L, p)[At(L, Len(L)) + 2 + j] = p[j]
         /\ \A i \in 1..Len(L) :
              /\ \A j \in 1..Len(L[i]) : Text(L, p)[At(L, i - 1) + j] = L[i][j]
              /\ Text(L, p)[At(L, i) - 1] = "CR"
              /\ Text(L, p)[At(L, i)] = "LF"
<1> DEFINE e == Ended(L)  n == Len(L)  flat == FlattenSeq(e)
           head == flat \o CRLF  t == head \o p
<1>1. Text(L, p) = t
  BY DEF Text, Ended
<1>2. /\ e \in Seq(Seq(Symbols)) /\ e # <<>> /\ Len(e) = n /\ n \in Nat /\ n # 0
      /\ \A i \in 1..n :
           /\ Len(e[i]) = Len(L[i]) + 2 /\ Len(L[i]) \in Nat
           /\ \A j \in 1..Len(L[i]) : e[i][j] = L[i][j]
           /\ e[i][Len(L[i]) + 1] = "CR" /\ e[i][Len(L[i]) + 2] = "LF"
  <2>1. n \in Nat /\ n # 0 /\ \A i \in 1..n : Len(L[i]) \in Nat
    OBVIOUS
  <2> QED BY <2>1, EndedLines
<1>3. /\ At(L, 0) = 0
      /\ \A i \in 0..n : At(L, i) \in Nat /\ At(L, i) <= At(L, n)
      /\ \A i \in 1..n : At(L, i) = At(L, i - 1) + Len(L[i]) + 2
  BY Places
<1>4. \A i \in 0..n : At(L, i) = Len(FlattenSeq(First(e, i)))
  BY DEF At
<1> HIDE DEF e, n
<1>5. /\ flat \in Seq(Symbols) /\ Len(flat) = At(L, n)
      /\ \A i \in 1..n : \A j \in 1..Len(e[i]) : flat[At(L, i - 1) + j] = e[i][j]
  <2>1. First(e, n) = e /\ n \in 0..n /\ \A i \in 1..n : i - 1 \in 0..n
    BY <1>2, FirstOfAll
  <2>2. /\ flat \in Seq(Symbols)
        /\ \A i \in 1..n : \A j \in 1..Len(e[i]) :
             flat[Len(FlattenSeq(First(e, i - 1))) + j] = e[i][j]
    <3>1. e \in Seq(Seq(Symbols)) /\ e # <<>> /\ Len(e) = n
      BY <1>2
    <3> QED BY <3>1, FlattenedParts DEF flat
  <2> QED BY <1>4, <2>1, <2>2
<1> HIDE DEF flat
<1>6. /\ head \in Seq(Symbols) /\ Len(head) = At(L, n) + 2
      /\ \A k \in 1..At(L, n) : head[k] = flat[k]
  <2>1. CRLF \in Seq(Symbols) /\ Len(CRLF) = 2
    BY Marks
  <2>2. IsSeq(flat) /\ IsSeq(CRLF)
    BY <1>5, <2>1 DEF IsSeq
  <2> DEFINE c == CRLF
  <2>3. c \in Seq(Symbols) /\ Len(c) = 2 /\ IsSeq(c) /\ head = flat \o c
    BY <2>1, <2>2
  <2> HIDE DEF c, head
  <2>4. /\ Len(flat \o c) = Len(flat) + Len(c)
        /\ \A k \in 1..Len(flat) : (flat \o c)[k] = flat[k]
    BY <2>2, <2>3, Concatenated, ZenonT(30)
  <2>5. flat \o c \in Seq(Symbols)
    BY <1>5, <2>3
  <2> QED BY <1>5, <2>3, <2>4, <2>5
<1> HIDE DEF head
<1>7. /\ t \in Seq(Symbols) /\ Len(t) = At(L, n) + 2 + Len(p)
      /\ \A k \in 1..(At(L, n) + 2) : t[k] = head[k]
      /\ \A j \in 1..Len(p) : t[At(L, n) + 2 + j] = p[j]
  <2>1. IsSeq(head) /\ IsSeq(p)
    BY <1>6 DEF IsSeq
  <2>2. /\ Len(head \o p) = Len(head) + Len(p)
        /\ \A k \in 1..Len(head) : (head \o p)[k] = head[k]
        /\ \A j \in 1..Len(p) : (head \o p)[Len(head) + j] = p[j]
    BY <2>1, Concatenated
  <2>3. head \o p \in Seq(Symbols)
    BY <1>6
  <2> QED BY <1>6, <2>2, <2>3
<1> HIDE DEF t
<1>8. \A k \in 1..At(L, n) : t[k] = flat[k]
  <2>1. At(L, n) \in Nat
    BY <1>2, <1>3
  <2>2. \A k \in 1..At(L, n) : k \in 1..(At(L, n) + 2)
    BY <2>1
  <2> QED BY <1>6, <1>7, <2>2
<1>9. ASSUME NEW i \in 1..n
      PROVE  /\ \A j \in 1..Len(L[i]) : t[At(L, i - 1) + j] = L[i][j]
             /\ t[At(L, i) - 1] = "CR" /\ t[At(L, i)] = "LF"
  <2> DEFINE a == At(L, i - 1)  l == Len(L[i])  b == At(L, i)  z == At(L, n)
  <2>1. a \in Nat /\ l \in Nat /\ b = a + l + 2 /\ z \in Nat /\ b <= z
    <3>1. i - 1 \in 0..n /\ i \in 0..n /\ n \in 0..n
      BY <1>2
    <3> QED BY <1>2, <1>3, <3>1
  <2>2. \A j \in 1..(l + 2) : flat[a + j] = e[i][j]
    BY <1>2, <1>5, SMTT(30)
  <2>3. /\ \A j \in 1..l : e[i][j] = L[i][j]
        /\ e[i][l + 1] = "CR" /\ e[i][l + 2] = "LF"
    BY <1>2
  <2>4. \A k \in 1..z : t[k] = flat[k]
    BY <1>8
  <2> HIDE DEF a, l, b, z
  <2>5. /\ \A j \in 1..l : a + j \in 1..z /\ j \in 1..(l + 2)
        /\ a + (l + 1) \in 1..z /\ l + 1 \in 1..(l + 2) /\ b - 1 = a + (l + 1)
        /\ a + (l + 2) \in 1..z /\ l + 2 \in 1..(l + 2) /\ b = a + (l + 2)
    BY <2>1
  <2>6. /\ \A j \in 1..l : t[a + j] = L[i][j]
        /\ t[b - 1] = "CR" /\ t[b] = "LF"
    BY <2>2, <2>3, <2>4, <2>5
  <2> QED BY <2>6 DEF a, l, b
<1> QED BY <1>1, <1>7, <1>9 DEF n

\* What get_payload_len meets up to Content-Length.
Written(L, n, p) ==
  /\ L \in Seq(Seq(Symbols)) /\ L # <<>> /\ Len(L) \in Nat
  /\ n \in Nat /\ 2 <= n /\ n <= Len(L)
  /\ L[n] = <<"CL", ":", " ", Numerals[Len(p)]>>
  /\ \A i \in 1..n :
       /\ Len(L[i]) \in Nat \ {0}
       /\ \A j \in 1..Len(L[i]) : L[i][j] \notin EndOfLine \cup {NUL}
       /\ i < n => ~IsPrefix(LengthName, L[i])

LEMMA LinesFacts ==
  ASSUME NEW before \in Lines, NEW after \in Lines, NEW p \in Payloads,
         NEW L, L = HeaderLines(before, after, p), NEW n, n = Len(before) + 2
  PROVE  Written(L, n, p)
<1>1. /\ p \in Seq(Symbols) /\ Len(p) \in DOMAIN Numerals
      /\ Numerals[Len(p)] \in Symbols /\ Numerals[Len(p)] \notin EndOfLine \cup {NUL}
  BY RequestAssumption DEF RequestAssumption
<1>2. /\ before \in Seq(Headers) /\ after \in Seq(Headers)
      /\ \A i \in 1..Len(before) : before[i] \in Headers
  <2>0. \A l \in Lines : \E m \in 0..MaxHeaders : l \in [1..m -> Headers]
    BY DEF Lines
  <2> MaxHeaders \in Nat
    BY RequestAssumption DEF RequestAssumption
  <2>1. PICK m \in Nat : before \in [1..m -> Headers]
    BY <2>0
  <2>2. PICK k \in Nat : after \in [1..k -> Headers]
    BY <2>0
  <2> QED BY <2>1, <2>2
<1>3. ASSUME NEW h \in Headers
      PROVE  /\ h \in Seq(Symbols) /\ Len(h) \in Nat \ {0}
             /\ \A j \in 1..Len(h) : h[j] \notin EndOfLine \cup {NUL}
             /\ ~IsPrefix(LengthName, h)
  <2>1. h \in Seq(Symbols) /\ h # <<>>
    BY RequestAssumption DEF RequestAssumption
  <2>2. Len(h) \in Nat \ {0}
    BY <2>1
  <2> QED BY <2>1, <2>2, RequestAssumption DEF RequestAssumption
<1> DEFINE first == <<"x", " ", "x">>
           length == ContentLength(p)
           b == Len(before)
<1>4. length = <<"CL", ":", " ", Numerals[Len(p)]>>
  BY DEF ContentLength
<1>5. /\ length \in Seq(Symbols) /\ Len(length) \in Nat \ {0}
      /\ \A j \in 1..Len(length) : length[j] \notin EndOfLine \cup {NUL}
  <2> HIDE DEF length
  <2> DEFINE a == "CL"  e == ":"  c == " "  d == Numerals[Len(p)]
  <2>1. a \in Symbols /\ e \in Symbols /\ c \in Symbols /\ d \in Symbols
    BY <1>1, Marks
  <2>2. length = <<a, e, c, d>>
    BY <1>4
  <2>3. \A x \in {a, e, c, d} : x \notin EndOfLine \cup {NUL}
    BY <1>1 DEF EndOfLine, NUL
  <2> HIDE DEF a, e, c, d
  <2>4. /\ length \in Seq(Symbols) /\ Len(length) = 4
        /\ \A j \in 1..Len(length) : length[j] \in {a, e, c, d}
    BY <2>1, <2>2, Four
  <2> QED BY <2>3, <2>4
<1>6. /\ first \in Seq(Symbols) /\ Len(first) \in Nat \ {0}
      /\ \A j \in 1..Len(first) : first[j] \notin EndOfLine \cup {NUL}
      /\ ~IsPrefix(LengthName, first)
  <2> DEFINE a == "x"  e == " "  c == "CL"  d == ":"  name == LengthName
  <2>1. /\ a \in Symbols /\ e \in Symbols /\ c \in Symbols /\ d \in Symbols
        /\ a # c /\ first = <<a, e, a>> /\ name = <<c, d, e>>
    BY Marks DEF LengthName
  <2>2. \A x \in {a, e} : x \notin EndOfLine \cup {NUL}
    BY DEF EndOfLine, NUL
  <2> HIDE DEF a, e, c, d, first, name
  <2>3. /\ first \in Seq(Symbols) /\ Len(first) = 3 /\ first[1] = a
        /\ \A j \in 1..Len(first) : first[j] \in {a, e, a}
    BY <2>1, Three
  <2>4. name \in Seq(Symbols) /\ Len(name) = 3 /\ name[1] = c
    BY <2>1, Three
  <2>5. ~IsPrefix(name, first)
    <3>1. IsPrefix(name, first) => name[1] = first[1]
      <4>1. IsPrefix(name, first) => \A j \in 1..Len(name) : name[j] = first[j]
        BY <2>3, <2>4, Prefix
      <4> QED BY <2>4, <4>1
    <3> QED BY <2>1, <2>3, <2>4, <3>1
  <2> QED BY <2>2, <2>3, <2>5 DEF name
<1> HIDE DEF first, length
<1> DEFINE S == Seq(Symbols)
<1>7. first \in S /\ length \in S /\ before \in Seq(S) /\ after \in Seq(S) /\ b \in Nat
  <2>1. Headers \subseteq S
    BY <1>3
  <2> HIDE DEF S
  <2> QED BY <1>2, <1>5, <1>6, <2>1 DEF S
<1>8. L = <<first>> \o before \o <<length>> \o after
  BY DEF HeaderLines, first, length
<1> HIDE DEF S
<1>9. /\ L \in Seq(S) /\ Len(L) = b + 2 + Len(after) /\ L[1] = first
      /\ L[b + 2] = length
      /\ \A i \in 1..b : L[i + 1] = before[i]
  BY <1>7, <1>8
<1>10. Len(after) \in Nat
  BY <1>7
<1>11. /\ Len(L) \in Nat /\ n \in Nat /\ 2 <= n /\ n <= Len(L) /\ L # <<>> /\ n = b + 2
  <2>1. Len(L) \in Nat /\ Len(L) # 0 /\ n \in Nat /\ 2 <= n /\ n <= Len(L) /\ n = b + 2
    BY <1>7, <1>9, <1>10
  <2> QED BY <2>1
<1>12. ASSUME NEW i \in 1..n
       PROVE  /\ Len(L[i]) \in Nat \ {0}
              /\ \A j \in 1..Len(L[i]) : L[i][j] \notin EndOfLine \cup {NUL}
              /\ i < n => ~IsPrefix(LengthName, L[i])
  <2>1. CASE i = 1
    BY <1>6, <1>9, <2>1
  <2>2. CASE i = n
    BY <1>5, <1>9, <1>11, <2>2
  <2>3. CASE i # 1 /\ i # n
    <3>1. i - 1 \in 1..b /\ (i - 1) + 1 = i
      BY <1>7, <1>11, <2>3
    <3>2. L[i] = before[i - 1] /\ before[i - 1] \in Headers
      BY <1>2, <1>9, <3>1
    <3> QED BY <1>3, <3>2
  <2> QED BY <2>1, <2>2, <2>3
<1> QED BY <1>4, <1>9, <1>11, <1>12 DEF S, Written

LEMMA Ordered ==
  ASSUME NEW L \in Seq(Seq(Symbols)), L # <<>>, NEW i \in 0..Len(L)
  PROVE  \A k \in i..Len(L) : At(L, i) <= At(L, k)
<1> DEFINE n == Len(L)
           A == {k \in Nat : k \in i..n => At(L, i) <= At(L, k)}
<1>1. /\ n \in Nat /\ \A k \in 0..n : At(L, k) \in Nat
      /\ \A k \in 1..n : At(L, k) = At(L, k - 1) + Len(L[k]) + 2 /\ Len(L[k]) \in Nat
  <2>1. n \in Nat /\ \A k \in 1..n : Len(L[k]) \in Nat
    OBVIOUS
  <2> QED BY <2>1, Places
<1> i \in 0..n
  OBVIOUS
<1> HIDE DEF n
<1>2. 0 \in A
  BY <1>1
<1>3. ASSUME NEW k \in Nat, k \in A PROVE k + 1 \in A
  <2>1. SUFFICES ASSUME k + 1 \in i..n PROVE At(L, i) <= At(L, k + 1)
    OBVIOUS
  <2>2. CASE k + 1 = i
    BY <1>1, <2>2
  <2>3. CASE k + 1 # i
    <3>1. k \in i..n /\ k + 1 \in 1..n /\ (k + 1) - 1 = k /\ k \in 0..n
      BY <1>1, <2>1, <2>3
    <3>2. At(L, i) <= At(L, k)
      BY <1>3, <3>1
    <3> DEFINE m == k + 1
    <3>3. At(L, m) = At(L, m - 1) + Len(L[m]) + 2 /\ Len(L[m]) \in Nat
      BY <1>1, <3>1
    <3>4. At(L, m) = At(L, k) + Len(L[m]) + 2
      BY <3>1, <3>3
    <3>5. At(L, i) \in Nat /\ At(L, k) \in Nat
      BY <1>1, <3>1
    <3> HIDE DEF m
    <3>6. At(L, i) <= At(L, m)
      BY <3>2, <3>3, <3>4, <3>5
    <3> QED BY <3>6 DEF m
  <2> QED BY <2>2, <2>3
<1> HIDE DEF A
<1>4. Nat \subseteq A
  BY <1>2, <1>3, Induction
<1>5. \A k \in i..n : k \in Nat
  BY <1>1
<1> QED BY <1>4, <1>5 DEF A, n

\* The lines up to the n-th, where Content-Length stands.
Fits(L, n) ==
  /\ L \in Seq(Seq(Symbols)) /\ L # <<>> /\ Len(L) \in Nat
  /\ n \in Nat /\ 2 <= n /\ n <= Len(L)
  /\ At(L, 0) = 0 /\ At(L, Len(L)) \in Nat
  /\ \A i \in 0..n : At(L, i) \in Nat /\ At(L, i) <= At(L, Len(L))
  /\ \A i, k \in 0..n : i <= k => At(L, i) <= At(L, k)
  /\ \A i \in 1..n :
       /\ At(L, i) = At(L, i - 1) + Len(L[i]) + 2 /\ Len(L[i]) \in Nat \ {0}
       /\ \A j \in 1..Len(L[i]) : L[i][j] \notin EndOfLine \cup {NUL}
       /\ i < n => ~IsPrefix(LengthName, L[i])
  /\ Len(L[n]) = 4 /\ L[n][1] = "CL" /\ L[n][2] = ":" /\ L[n][3] = " "

LEMMA Fitting ==
  ASSUME NEW before \in Lines, NEW after \in Lines, NEW p \in Payloads,
         NEW L, L = HeaderLines(before, after, p), NEW n, n = Len(before) + 2
  PROVE  Fits(L, n) /\ L[n][4] = Numerals[Len(p)]
<1>0. Written(L, n, p)
  BY LinesFacts
<1>1. /\ L \in Seq(Seq(Symbols)) /\ L # <<>> /\ Len(L) \in Nat
      /\ n \in Nat /\ 2 <= n /\ n <= Len(L)
      /\ L[n] = <<"CL", ":", " ", Numerals[Len(p)]>>
  BY <1>0 DEF Written
<1>2. /\ At(L, 0) = 0
      /\ \A i \in 0..Len(L) : At(L, i) \in Nat /\ At(L, i) <= At(L, Len(L))
      /\ \A i \in 1..Len(L) : At(L, i) = At(L, i - 1) + Len(L[i]) + 2
  BY <1>1, Places
<1>3. /\ \A i \in 0..n : i \in 0..Len(L)
      /\ \A i \in 1..n : i \in 1..Len(L)
      /\ Len(L) \in 0..Len(L)
      /\ \A i, k \in 0..n : i <= k => k \in i..Len(L)
  <2> DEFINE m == Len(L)
  <2>1. m \in Nat /\ n \in Nat /\ n <= m
    BY <1>1
  <2> HIDE DEF m
  <2> QED BY <2>1 DEF m
<1>4. \A i, k \in 0..n : i <= k => At(L, i) <= At(L, k)
  BY <1>1, <1>3, Ordered
<1>5. /\ Len(L[n]) = 4 /\ L[n][1] = "CL" /\ L[n][2] = ":" /\ L[n][3] = " "
      /\ L[n][4] = Numerals[Len(p)]
  <2> DEFINE a == "CL"  b == ":"  c == " "  d == Numerals[Len(p)]  l == L[n]
  <2>1. l = <<a, b, c, d>> /\ a \in Symbols /\ b \in Symbols /\ c \in Symbols /\ d \in Symbols
    BY <1>1, Marks, RequestAssumption DEF RequestAssumption
  <2> HIDE DEF a, b, c, d, l
  <2>2. Len(l) = 4 /\ l[1] = a /\ l[2] = b /\ l[3] = c /\ l[4] = d
    BY <2>1, Four
  <2> QED BY <2>2 DEF a, b, c, d, l
<1>6. /\ At(L, Len(L)) \in Nat
      /\ \A i \in 0..n : At(L, i) \in Nat /\ At(L, i) <= At(L, Len(L))
  BY <1>2, <1>3
<1>7. \A i \in 1..n : At(L, i) = At(L, i - 1) + Len(L[i]) + 2
  BY <1>2, <1>3
<1> QED BY <1>0, <1>1, <1>2, <1>4, <1>5, <1>6, <1>7 DEF Fits, Written
----------------------------------------------------------------------------
(* What strtok returns. *)

LEMMA MinIs ==
  ASSUME NEW S, S \subseteq Int, NEW x \in S, \A y \in S : x <= y
  PROVE  Min(S) = x
<1> DEFINE m == Min(S)
<1>1. \E y \in S : \A z \in S : y <= z
  OBVIOUS
<1>2. m \in S /\ \A z \in S : m <= z
  BY <1>1 DEF Min
<1> HIDE DEF m
<1>3. m = x
  BY <1>2
<1> QED BY <1>3 DEF m

LEMMA MaxIs ==
  ASSUME NEW S, S \subseteq Int, NEW x \in S, \A y \in S : y <= x
  PROVE  Max(S) = x
<1> DEFINE m == Max(S)
<1>1. \E y \in S : \A z \in S : y >= z
  OBVIOUS
<1>2. m \in S /\ \A z \in S : m >= z
  BY <1>1 DEF Max
<1> HIDE DEF m
<1>3. m = x
  BY <1>2
<1> QED BY <1>3 DEF m

LEMMA NoToken ==
  ASSUME NEW delims
  PROVE  strtok(0, delims) = [token |-> 0, mem |-> mem, save |-> 0]
BY DEF strtok

\* From there delimiters up to start, where a token begins that ends at end.
TokenStands(from, delims, start, end) ==
  /\ from \in Nat \ {0} /\ start \in Nat /\ end \in Nat
  /\ from <= start /\ start <= end /\ end <= Len(mem)
  /\ \A i \in from..(start - 1) : mem[i] \in delims
  /\ mem[start] \notin delims /\ mem[start] # NUL
  /\ \A i \in start..(end - 1) : mem[i] \notin delims \cup {NUL}
  /\ mem[end] \in delims \cup {NUL}

LEMMA Token ==
  ASSUME mem \in Seq(Symbols), NEW delims, NEW from, NEW start, NEW end,
         TokenStands(from, delims, start, end)
  PROVE  strtok(from, delims) =
           IF mem[end] = NUL THEN [token |-> start, mem |-> mem, save |-> 0]
           ELSE [token |-> start, mem |-> [mem EXCEPT ![end] = NUL],
                 save |-> end + 1]
<1> USE DEF TokenStands
<1> DEFINE skipped == {i \in from..Len(mem) : mem[i] \notin delims}
           ends == {i \in start..Len(mem) : mem[i] \in delims \cup {NUL}}
<1>1. Len(mem) \in Nat
  OBVIOUS
<1>2. start \in skipped /\ skipped \subseteq Int /\ \A y \in skipped : start <= y
  <2>1. start \in from..Len(mem)
    BY <1>1
  <2>2. \A y \in skipped : ~(y < start)
    <3>1. \A y \in from..Len(mem) : y < start => y \in from..(start - 1)
      BY <1>1
    <3> QED BY <3>1
  <2>3. skipped \subseteq from..Len(mem)
    OBVIOUS
  <2> HIDE DEF skipped
  <2>4. \A y \in skipped : start <= y
    BY <1>1, <2>2, <2>3
  <2> QED BY <1>1, <2>1, <2>3, <2>4 DEF skipped
<1>3. end \in ends /\ ends \subseteq Int /\ \A y \in ends : end <= y
  <2>1. end \in start..Len(mem)
    BY <1>1
  <2>2. \A y \in ends : ~(y < end)
    <3>1. \A y \in start..Len(mem) : y < end => y \in start..(end - 1)
      BY <1>1
    <3> QED BY <3>1
  <2>3. ends \subseteq start..Len(mem)
    OBVIOUS
  <2> HIDE DEF ends
  <2>4. \A y \in ends : end <= y
    BY <1>1, <2>2, <2>3
  <2> QED BY <1>1, <2>1, <2>3, <2>4 DEF ends
<1>4. Min(skipped) = start
  <2> HIDE DEF skipped
  <2> QED BY <1>2, MinIs
<1>5. Min(ends) = end
  <2> HIDE DEF ends
  <2> QED BY <1>3, MinIs
<1>6. skipped # {} /\ ends # {}
  <2> HIDE DEF skipped, ends
  <2> QED BY <1>2, <1>3
<1>7. strtok(from, delims) =
        LET first == Min(skipped)
            es == {i \in first..Len(mem) : mem[i] \in delims \cup {NUL}}
            e == Min(es)
        IN IF from = 0 \/ skipped = {} \/ mem[first] = NUL
           THEN [token |-> 0, mem |-> mem, save |-> 0]
           ELSE IF es = {} \/ mem[e] = NUL
           THEN [token |-> first, mem |-> mem, save |-> 0]
           ELSE [token |-> first, mem |-> [mem EXCEPT ![e] = NUL], save |-> e + 1]
  BY DEF strtok
<1>8. strtok(from, delims) =
        IF from = 0 \/ skipped = {} \/ mem[start] = NUL
        THEN [token |-> 0, mem |-> mem, save |-> 0]
        ELSE IF ends = {} \/ mem[Min(ends)] = NUL
        THEN [token |-> start, mem |-> mem, save |-> 0]
        ELSE [token |-> start, mem |-> [mem EXCEPT ![Min(ends)] = NUL],
              save |-> Min(ends) + 1]
  <2> HIDE DEF skipped
  <2> QED BY <1>4, <1>7
<1> HIDE DEF skipped, ends
<1> QED BY <1>5, <1>6, <1>8

LEMMA FitsAt ==
  ASSUME NEW L, NEW n, Fits(L, n), NEW k \in 1..n
  PROVE  /\ At(L, k - 1) \in Nat /\ At(L, k) \in Nat /\ Len(L[k]) \in Nat \ {0}
         /\ At(L, k) = At(L, k - 1) + Len(L[k]) + 2
         /\ At(L, Len(L)) \in Nat /\ At(L, k) <= At(L, Len(L))
         /\ \A i \in (k + 1)..n : At(L, k) <= At(L, i - 1)
<1>1. n \in Nat
  BY DEF Fits
<1>2. k - 1 \in 0..n /\ k \in 0..n
  BY <1>1
<1>3. \A i \in (k + 1)..n : i - 1 \in 0..n /\ k <= i - 1
  BY <1>1
<1>4. /\ \A i \in 0..n : At(L, i) \in Nat /\ At(L, i) <= At(L, Len(L))
      /\ At(L, Len(L)) \in Nat
      /\ \A i \in 1..n : At(L, i) = At(L, i - 1) + Len(L[i]) + 2 /\ Len(L[i]) \in Nat \ {0}
  BY DEF Fits
<1>5. \A i, m \in 0..n : i <= m => At(L, i) <= At(L, m)
  BY DEF Fits
<1>6. \A i \in (k + 1)..n : At(L, k) <= At(L, i - 1)
  BY <1>2, <1>3, <1>5
<1> QED BY <1>2, <1>4, <1>6

LEMMA Replaced ==
  ASSUME NEW S, NEW s \in Seq(S), NEW c \in 1..Len(s), NEW x \in S,
         NEW t, t = [s EXCEPT ![c] = x]
  PROVE  /\ t \in Seq(S) /\ Len(t) = Len(s) /\ t[c] = x
         /\ \A j \in 1..Len(s) : j # c => t[j] = s[j]
<1>1. t \in [1..Len(s) -> S] /\ Len(s) \in Nat
  OBVIOUS
<1>2. t \in Seq(S) /\ Len(t) = Len(s)
  BY <1>1
<1> QED BY <1>2

\* The scan of lines finds the k-th, from its beginning or the LF before it.
LEMMA LineToken ==
  ASSUME mem \in Seq(Symbols), NEW L, NEW n, Fits(L, n), NEW k \in 1..n,
         LineStands(L, k), At(L, k) <= Len(mem), NEW from,
         \/ from = At(L, k - 1) + 1
         \/ from = At(L, k - 1) /\ from # 0 /\ mem[from] = "LF"
  PROVE  strtok(from, EndOfLine) =
           [token |-> At(L, k - 1) + 1,
            mem |-> [mem EXCEPT ![At(L, k) - 1] = NUL], save |-> At(L, k)]
<1> DEFINE a == At(L, k - 1)  l == Len(L[k])  b == At(L, k)  m == Len(mem)
           end == b - 1
<1>1. a \in Nat /\ l \in Nat \ {0} /\ b = a + l + 2 /\ b <= m /\ m \in Nat
  BY FitsAt
<1>2. /\ \A j \in 1..l : mem[a + j] = L[k][j] /\ L[k][j] \notin EndOfLine \cup {NUL}
      /\ mem[end] = "CR"
  <2>1. \A j \in 1..l : L[k][j] \notin EndOfLine \cup {NUL}
    BY DEF Fits
  <2> QED BY <2>1 DEF LineStands, WordsStand
<1>3. from = a + 1 \/ (from = a /\ from # 0 /\ mem[from] = "LF")
  OBVIOUS
<1> HIDE DEF a, l, b, m
<1>4. \A i \in (a + 1)..(end - 1) : mem[i] \notin EndOfLine \cup {NUL}
  <2>1. ASSUME NEW i \in (a + 1)..(end - 1) PROVE mem[i] \notin EndOfLine \cup {NUL}
    <3> DEFINE j == i - a
    <3>1. j \in 1..l /\ a + j = i
      BY <1>1
    <3> HIDE DEF j
    <3> QED BY <1>2, <3>1
  <2> QED BY <2>1
<1>5. /\ from \in Nat \ {0} /\ a + 1 \in Nat /\ end \in Nat
      /\ from <= a + 1 /\ a + 1 <= end /\ end <= m
      /\ a + 1 \in (a + 1)..(end - 1)
      /\ \A i \in from..((a + 1) - 1) : i = from /\ from = a
  BY <1>1, <1>3
<1>6. \A i \in from..((a + 1) - 1) : mem[i] \in EndOfLine
  <2>1. ASSUME NEW i \in from..((a + 1) - 1) PROVE mem[i] \in EndOfLine
    <3>1. i = from /\ from # a + 1
      BY <1>1, <1>5
    <3>2. mem[i] = "LF"
      BY <1>3, <3>1
    <3> QED BY <3>2 DEF EndOfLine
  <2> QED BY <2>1
<1>7. mem[a + 1] \notin EndOfLine /\ mem[a + 1] # NUL
  BY <1>4, <1>5
<1>8. mem[end] \in EndOfLine \cup {NUL} /\ mem[end] # NUL
  BY <1>2 DEF EndOfLine, NUL
<1> DEFINE s == a + 1
<1>9. s \in Nat /\ from \in Nat \ {0} /\ end \in Nat /\ from <= s /\ s <= end /\ end <= m
  BY <1>5
<1> HIDE DEF s, end
<1>10. strtok(from, EndOfLine) =
         IF mem[end] = NUL THEN [token |-> s, mem |-> mem, save |-> 0]
         ELSE [token |-> s, mem |-> [mem EXCEPT ![end] = NUL], save |-> end + 1]
  <2>1. end <= Len(mem)
    BY <1>9 DEF m
  <2>2. \A i \in from..(s - 1) : mem[i] \in EndOfLine
    BY <1>6 DEF s
  <2>3. mem[s] \notin EndOfLine /\ mem[s] # NUL
    BY <1>7 DEF s
  <2>4. \A i \in s..(end - 1) : mem[i] \notin EndOfLine \cup {NUL}
    BY <1>4 DEF s
  <2>5. TokenStands(from, EndOfLine, s, end)
    BY <1>8, <1>9, <2>1, <2>2, <2>3, <2>4 DEF TokenStands
  <2> QED BY <2>5, Token
<1>11. end + 1 = b /\ end = b - 1
  BY <1>1 DEF end
<1>12. strtok(from, EndOfLine) = [token |-> s, mem |-> [mem EXCEPT ![end] = NUL], save |-> b]
  BY <1>8, <1>10, <1>11
<1> QED BY <1>11, <1>12 DEF s, a, b

\* The NUL that ends the k-th line changes no other.
LEMMA LineCut ==
  ASSUME mem \in Seq(Symbols), NEW L, NEW n, Fits(L, n), NEW k \in 1..n,
         WordsStand(L, k), mem[At(L, k)] = "LF", BodyStands(L),
         \A i \in (k + 1)..n : LineStands(L, i),
         mem' = [mem EXCEPT ![At(L, k) - 1] = NUL], sent' = sent,
         Len(sent) \in Nat
  PROVE  /\ mem' \in Seq(Symbols) /\ BodyStands(L)' /\ LineIsCut(L, k)'
         /\ \A i \in (k + 1)..n : LineStands(L, i)'
<1> DEFINE c == At(L, k) - 1  z == At(L, Len(L))  a == At(L, k - 1)  l == Len(L[k])
<1>1. /\ c \in Nat \ {0} /\ z \in Nat /\ c < z /\ Len(mem) \in Nat /\ a \in Nat
      /\ l \in Nat /\ c = a + l + 1 /\ At(L, k) = c + 1 /\ At(L, k) \in Nat
      /\ n \in Nat
  <2> DEFINE b == At(L, k)
  <2>1. /\ b = a + l + 2 /\ a \in Nat /\ l \in Nat \ {0} /\ z \in Nat
        /\ b <= z /\ b \in Nat /\ c = b - 1
    BY FitsAt
  <2>2. Len(mem) \in Nat /\ n \in Nat
    <3>1. Len(mem) \in Nat
      OBVIOUS
    <3>2. n \in Nat
      BY DEF Fits
    <3> QED BY <3>1, <3>2
  <2> HIDE DEF a, b, c, l, z
  <2>3. c \in Nat \ {0} /\ c < z /\ c = a + l + 1 /\ b = c + 1
    BY <2>1
  <2> QED BY <2>1, <2>2, <2>3 DEF b
<1>2. Len(mem) = z + 2 + Len(sent) /\ \A j \in 1..Len(sent) : mem[z + 2 + j] = sent[j]
  BY DEF BodyStands
<1>3. \A i \in (k + 1)..n :
        /\ At(L, i) = At(L, i - 1) + Len(L[i]) + 2 /\ Len(L[i]) \in Nat
        /\ At(L, i - 1) \in Nat /\ c < At(L, i - 1)
  <2>1. ASSUME NEW i \in (k + 1)..n
        PROVE  /\ At(L, i) = At(L, i - 1) + Len(L[i]) + 2 /\ Len(L[i]) \in Nat
               /\ At(L, i - 1) \in Nat /\ c < At(L, i - 1)
    <3>1. i \in 1..n
      BY <1>1
    <3>2. At(L, k) <= At(L, i - 1) /\ At(L, i - 1) \in Nat
      BY <3>1, FitsAt
    <3>3. At(L, i) = At(L, i - 1) + Len(L[i]) + 2 /\ Len(L[i]) \in Nat
      BY <3>1, FitsAt
    <3>4. c < At(L, i - 1)
      <4> DEFINE x == At(L, i - 1)
      <4>1. x \in Nat /\ c + 1 <= x
        BY <1>1, <3>2
      <4> HIDE DEF x, c
      <4>2. c < x
        BY <1>1, <4>1
      <4> QED BY <4>2 DEF x
    <3> QED BY <3>2, <3>3, <3>4
  <2> QED BY <2>1
<1> HIDE DEF c, z, a, l
<1>4. mem' = [mem EXCEPT ![c] = NUL] /\ NUL \in Symbols
  BY RequestAssumption DEF c, RequestAssumption
<1>5. /\ mem' \in Seq(Symbols) /\ Len(mem') = Len(mem) /\ mem'[c] = NUL
      /\ \A j \in 1..Len(mem) : j # c => mem'[j] = mem[j]
  <2>1. c \in 1..Len(mem)
    BY <1>1, <1>2
  <2> DEFINE t == mem'
  <2>2. mem \in Seq(Symbols) /\ NUL \in Symbols /\ t = [mem EXCEPT ![c] = NUL]
    BY <1>4
  <2> HIDE DEF t
  <2>3. /\ t \in Seq(Symbols) /\ Len(t) = Len(mem) /\ t[c] = NUL
        /\ \A j \in 1..Len(mem) : j # c => t[j] = mem[j]
    BY <2>1, <2>2, Replaced
  <2> QED BY <2>3 DEF t
<1>6. \A j \in Int : j > 0 /\ j <= z + 2 + Len(sent) /\ j # c => mem'[j] = mem[j]
  BY <1>1, <1>2, <1>5
<1>7. BodyStands(L)'
  <2>1. \A j \in 1..Len(sent) : mem'[z + 2 + j] = sent[j]
    <3>1. ASSUME NEW j \in 1..Len(sent) PROVE mem'[z + 2 + j] = mem[z + 2 + j]
      <4> DEFINE x == z + 2 + j
      <4>1. x \in Int /\ x > 0 /\ x <= z + 2 + Len(sent) /\ x # c
        BY <1>1
      <4> HIDE DEF x
      <4>2. mem'[x] = mem[x]
        BY <1>6, <4>1
      <4> QED BY <4>2 DEF x
    <3> QED BY <1>2, <3>1
  <2>2. Len(mem') = z + 2 + Len(sent)
    BY <1>2, <1>5
  <2> QED BY <2>1, <2>2 DEF BodyStands, z
<1>8. LineIsCut(L, k)'
  <2>1. \A j \in 1..l : mem'[a + j] = L[k][j]
    <3>1. ASSUME NEW j \in 1..l PROVE mem'[a + j] = mem[a + j]
      <4> DEFINE x == a + j
      <4>1. x \in Int /\ x > 0 /\ x <= z + 2 + Len(sent) /\ x # c
        BY <1>1
      <4> HIDE DEF x
      <4>2. mem'[x] = mem[x]
        BY <1>6, <4>1
      <4> QED BY <4>2 DEF x
    <3>2. \A j \in 1..l : mem[a + j] = L[k][j]
      BY DEF WordsStand, a, l
    <3> QED BY <3>1, <3>2
  <2>2. mem'[At(L, k)] = "LF"
    <3> DEFINE x == At(L, k)
    <3>1. x \in Int /\ x > 0 /\ x <= z + 2 + Len(sent) /\ x # c
      BY <1>1
    <3>2. mem[x] = "LF"
      OBVIOUS
    <3> HIDE DEF x
    <3>3. mem'[x] = "LF"
      BY <1>6, <3>1, <3>2
    <3> QED BY <3>3 DEF x
  <2>3. mem'[At(L, k) - 1] = NUL
    BY <1>5 DEF c
  <2> QED BY <2>1, <2>2, <2>3 DEF LineIsCut, WordsStand, a, l
<1>9. ASSUME NEW i \in (k + 1)..n PROVE LineStands(L, i)'
  <2> DEFINE d == At(L, i - 1)  w == Len(L[i])  e == At(L, i)
  <2>1. e = d + w + 2 /\ w \in Nat /\ d \in Nat /\ c < d /\ e <= z
    <3>1. i \in 1..n
      BY <1>1
    <3>2. e <= z
      BY <3>1, FitsAt DEF z
    <3> QED BY <1>3, <3>2
  <2>2. /\ \A j \in 1..w : mem[d + j] = L[i][j]
        /\ mem[e - 1] = "CR" /\ mem[e] = "LF"
    BY DEF LineStands, WordsStand
  <2> HIDE DEF d, w, e
  <2>3. \A x \in (d + 1)..e : mem'[x] = mem[x]
    <3>1. \A x \in (d + 1)..e : x \in Int /\ x > 0 /\ x <= z + 2 + Len(sent) /\ x # c
      BY <1>1, <2>1
    <3> QED BY <1>6, <3>1
  <2>4. /\ \A j \in 1..w : d + j \in (d + 1)..e
        /\ e - 1 \in (d + 1)..e /\ e \in (d + 1)..e
    BY <2>1
  <2>5. /\ \A j \in 1..w : mem'[d + j] = L[i][j]
        /\ mem'[e - 1] = "CR" /\ mem'[e] = "LF"
    BY <2>2, <2>3, <2>4
  <2> QED BY <2>5 DEF LineStands, WordsStand, d, w, e
<1> QED BY <1>5, <1>7, <1>8, <1>9

----------------------------------------------------------------------------
(* The steps of the scan. *)

Of(before, after, L, n) ==
  L = HeaderLines(before, after, sent) /\ n = Len(before) + 2

Stages == {"first", "compare", "next", "value", "rest", "done"}

LEMMA Setting ==
  ASSUME ScanInv
  PROVE  \E before, after \in Lines : \E L, n :
           /\ Of(before, after, L, n) /\ Fits(L, n) /\ Scanned(L, n)
           /\ L[n][4] = Numerals[Len(sent)]
<1>1. PICK before \in Lines, after \in Lines :
        Scanned(HeaderLines(before, after, sent), Len(before) + 2)
  BY DEF ScanInv
<1> DEFINE L == HeaderLines(before, after, sent)  n == Len(before) + 2
<1>2. Scanned(L, n) /\ L = HeaderLines(before, after, sent) /\ n = Len(before) + 2
  BY <1>1
<1>3. sent \in Payloads
  BY DEF ScanInv
<1> HIDE DEF L, n
<1>4. Fits(L, n) /\ L[n][4] = Numerals[Len(sent)]
  BY <1>2, <1>3, Fitting
<1> QED BY <1>2, <1>4 DEF Of

LEMMA Resumes ==
  ASSUME NEW before \in Lines, NEW after \in Lines, NEW L, NEW n,
         Of(before, after, L, n), sent' = sent, sent \in Payloads,
         mem' \in Seq(Symbols), scan' \in Stages, Scanned(L, n)'
  PROVE  ScanInv'
<1>1. Scanned(HeaderLines(before, after, sent), Len(before) + 2)'
  BY DEF Of
<1> QED BY <1>1 DEF ScanInv, Stages

LEMMA InitScan == ScanInit /\ measured => ScanInv
<1> SUFFICES ASSUME ScanInit, measured PROVE ScanInv
  OBVIOUS
<1>1. PICK before \in Lines, after \in Lines :
        sent \in Payloads /\ mem = Text(HeaderLines(before, after, sent), sent)
  BY DEF ScanInit
<1> DEFINE L == HeaderLines(before, after, sent)  n == Len(before) + 2
<1>2. L = HeaderLines(before, after, sent) /\ n = Len(before) + 2 /\ mem = Text(L, sent)
  BY <1>1
<1> HIDE DEF L, n
<1>3. Fits(L, n)
  BY <1>1, <1>2, Fitting
<1>4. L \in Seq(Seq(Symbols)) /\ L # <<>> /\ \A i \in 1..n : i \in 1..Len(L)
  <2>1. Len(L) \in Nat /\ n \in Nat /\ n <= Len(L) /\ L \in Seq(Seq(Symbols)) /\ L # <<>>
    BY <1>3 DEF Fits
  <2> QED BY <2>1
<1>5. sent \in Seq(Symbols)
  BY <1>1, RequestAssumption DEF RequestAssumption
<1>6. /\ mem \in Seq(Symbols) /\ Len(mem) = At(L, Len(L)) + 2 + Len(sent)
      /\ \A j \in 1..Len(sent) : mem[At(L, Len(L)) + 2 + j] = sent[j]
      /\ \A i \in 1..Len(L) :
           /\ \A j \in 1..Len(L[i]) : mem[At(L, i - 1) + j] = L[i][j]
           /\ mem[At(L, i) - 1] = "CR" /\ mem[At(L, i)] = "LF"
  <2> DEFINE t == Text(L, sent)
  <2>1. t = mem
    BY <1>2
  <2>2. /\ t \in Seq(Symbols) /\ Len(t) = At(L, Len(L)) + 2 + Len(sent)
        /\ \A j \in 1..Len(sent) : t[At(L, Len(L)) + 2 + j] = sent[j]
        /\ \A i \in 1..Len(L) :
             /\ \A j \in 1..Len(L[i]) : t[At(L, i - 1) + j] = L[i][j]
             /\ t[At(L, i) - 1] = "CR" /\ t[At(L, i)] = "LF"
    BY <1>4, <1>5, TextStands
  <2> HIDE DEF t
  <2> QED BY <2>1, <2>2
<1>7. BodyStands(L) /\ \A i \in 1..n : LineStands(L, i)
  BY <1>4, <1>6 DEF BodyStands, LineStands, WordsStand
<1>8. Scanned(L, n)
  <2>1. scan = "first" /\ save = 0
    BY DEF ScanInit
  <2> QED BY <1>7, <2>1 DEF Scanned
<1>9. scan = "first"
  BY DEF ScanInit
<1>10. Scanned(HeaderLines(before, after, sent), Len(before) + 2)
  BY <1>2, <1>8
<1> QED BY <1>1, <1>6, <1>9, <1>10 DEF ScanInv

\* strtok ends the k-th line and stops behind it.
LEMMA LineRead ==
  ASSUME mem \in Seq(Symbols), Len(sent) \in Nat, NEW L, NEW n, Fits(L, n),
         NEW k \in 1..n, \A i \in k..n : LineStands(L, i), BodyStands(L), NEW from,
         \/ from = At(L, k - 1) + 1
         \/ from = At(L, k - 1) /\ from # 0 /\ mem[from] = "LF",
         NEW t, t = strtok(from, EndOfLine), Takes(t),
         sep' = t.token, sent' = sent, scan' = "compare"
  PROVE  mem' \in Seq(Symbols) /\ BodyStands(L)' /\ InLine(L, n)' /\ save' # 0
<1>0. n \in Nat
  BY DEF Fits
<1>1. LineStands(L, k) /\ \A i \in (k + 1)..n : LineStands(L, i)
  BY <1>0
<1>2. At(L, k) <= Len(mem)
  <2> DEFINE b == At(L, k)  z == At(L, Len(L))
  <2>1. b \in Nat /\ z \in Nat /\ b <= z
    BY FitsAt
  <2>2. Len(mem) = z + 2 + Len(sent)
    BY DEF BodyStands
  <2> HIDE DEF b, z
  <2>3. b <= Len(mem)
    BY <2>1, <2>2
  <2> QED BY <2>3 DEF b
<1>3. t = [token |-> At(L, k - 1) + 1,
           mem |-> [mem EXCEPT ![At(L, k) - 1] = NUL], save |-> At(L, k)]
  BY <1>1, <1>2, LineToken
<1>4. /\ mem' = [mem EXCEPT ![At(L, k) - 1] = NUL] /\ save' = At(L, k)
      /\ sep' = At(L, k - 1) + 1
  BY <1>3 DEF Takes
<1>5. WordsStand(L, k) /\ mem[At(L, k)] = "LF"
  BY <1>1 DEF LineStands
<1>6. /\ mem' \in Seq(Symbols) /\ BodyStands(L)' /\ LineIsCut(L, k)'
      /\ \A i \in (k + 1)..n : LineStands(L, i)'
  BY <1>1, <1>4, <1>5, LineCut
<1>7. save' # 0
  <2> DEFINE a == At(L, k - 1)  l == Len(L[k])  b == At(L, k)
  <2>1. a \in Nat /\ l \in Nat /\ b = a + l + 2
    BY FitsAt
  <2> HIDE DEF a, l, b
  <2>2. b # 0
    BY <2>1
  <2> QED BY <1>4, <2>2 DEF b
<1>8. InLine(L, n)'
  BY <1>4, <1>6 DEF InLine
<1> QED BY <1>6, <1>7, <1>8

LEMMA BodyLength ==
  ASSUME sent \in Payloads
  PROVE  sent \in Seq(Symbols) /\ Len(sent) \in Nat
<1>1. sent \in Seq(Symbols)
  BY RequestAssumption DEF RequestAssumption
<1> QED BY <1>1

LEMMA FirstLineKeeps ==
  ASSUME ScanInv, FirstLine
  PROVE  ScanInv'
<1>1. PICK before \in Lines, after \in Lines : \E L, n :
        Of(before, after, L, n) /\ Fits(L, n) /\ Scanned(L, n)
  BY Setting
<1>2. PICK L, n : Of(before, after, L, n) /\ Fits(L, n) /\ Scanned(L, n)
  BY <1>1
<1>3. sent \in Payloads /\ mem \in Seq(Symbols) /\ Len(sent) \in Nat
  BY BodyLength DEF ScanInv
<1>4. BodyStands(L) /\ \A i \in 1..n : LineStands(L, i)
  BY <1>2 DEF FirstLine, Scanned
<1> DEFINE t == strtok(1, EndOfLine)
<1>5. Takes(t) /\ sep' = t.token /\ scan' = "compare" /\ sent' = sent
  BY DEF FirstLine
<1>6. 1 \in 1..n /\ At(L, 1 - 1) + 1 = 1
  <2>1. n \in Nat /\ 2 <= n /\ At(L, 0) = 0
    BY <1>2 DEF Fits
  <2>2. 1 - 1 = 0
    OBVIOUS
  <2> QED BY <2>1, <2>2
<1> HIDE DEF t
<1>7. mem' \in Seq(Symbols) /\ BodyStands(L)' /\ InLine(L, n)' /\ save' # 0
  <2> DEFINE k == 1
  <2>1. k \in 1..n /\ 1 = At(L, k - 1) + 1 /\ \A i \in k..n : LineStands(L, i)
    BY <1>4, <1>6
  <2>2. t = strtok(1, EndOfLine)
    BY DEF t
  <2> HIDE DEF k
  <2> QED BY <1>2, <1>3, <1>4, <1>5, <2>1, <2>2, LineRead
<1>8. Scanned(L, n)'
  BY <1>5, <1>7 DEF Scanned
<1>9. scan' \in Stages
  BY <1>5 DEF Stages
<1> QED BY <1>2, <1>3, <1>5, <1>7, <1>8, <1>9, Resumes

LEMMA NextLineKeeps ==
  ASSUME ScanInv, NextLine
  PROVE  ScanInv'
<1>1. PICK before \in Lines, after \in Lines : \E L, n :
        Of(before, after, L, n) /\ Fits(L, n) /\ Scanned(L, n)
  BY Setting
<1>2. PICK L, n : Of(before, after, L, n) /\ Fits(L, n) /\ Scanned(L, n)
  BY <1>1
<1>3. sent \in Payloads /\ mem \in Seq(Symbols) /\ Len(sent) \in Nat
  BY BodyLength DEF ScanInv
<1> DEFINE t == strtok(save, EndOfLine)
<1>4. /\ Takes(t) /\ sep' = t.token /\ scan = "next" /\ scan' = "compare"
      /\ sent' = sent /\ payload_len' = payload_len
  BY DEF NextLine, LinesFrom
<1>5. BodyStands(L)
  BY <1>2 DEF Scanned
<1>6. t = strtok(save, EndOfLine)
  OBVIOUS
<1> HIDE DEF t
<1>7. CASE save = 0
  <2>1. mem' = mem /\ save' = 0 /\ sep' = 0
    BY <1>4, <1>6, <1>7, NoToken DEF Takes
  <2>2. payload_len = Len(sent)
    BY <1>2, <1>4, <1>7 DEF Scanned
  <2>3. BodyStands(L)'
    BY <1>4, <1>5, <2>1 DEF BodyStands
  <2>4. Scanned(L, n)'
    BY <1>4, <2>1, <2>2, <2>3 DEF Scanned
  <2>5. scan' \in Stages /\ mem' \in Seq(Symbols)
    BY <1>3, <1>4, <2>1 DEF Stages
  <2> QED BY <1>2, <1>3, <1>4, <2>4, <2>5, Resumes
<1>8. CASE save # 0
  <2>1. InLine(L, n)
    BY <1>2, <1>4, <1>8 DEF Scanned
  <2>2. PICK i \in 1..n :
          /\ save = At(L, i) /\ mem[At(L, i)] = "LF" /\ i < n
          /\ \A k \in (i + 1)..n : LineStands(L, k)
    BY <1>4, <2>1 DEF InLine, LineIsCut
  <2>3. n \in Nat
    BY <1>2 DEF Fits
  <2> DEFINE k == i + 1
  <2>4. k \in 1..n /\ k - 1 = i /\ \A j \in k..n : LineStands(L, j)
    BY <2>2, <2>3
  <2> HIDE DEF k
  <2>5. save = At(L, k - 1) /\ save # 0 /\ mem[save] = "LF"
    BY <1>8, <2>2, <2>4
  <2>6. mem' \in Seq(Symbols) /\ BodyStands(L)' /\ InLine(L, n)' /\ save' # 0
    BY <1>2, <1>3, <1>4, <1>5, <1>6, <2>4, <2>5, LineRead
  <2>7. Scanned(L, n)'
    BY <1>4, <2>6 DEF Scanned
  <2>8. scan' \in Stages
    BY <1>4 DEF Stages
  <2> QED BY <1>2, <1>3, <1>4, <2>6, <2>7, <2>8, Resumes
<1> QED BY <1>7, <1>8

LEMMA OneToThree == 1 \in 1..3 /\ 2 \in 1..3 /\ 3 \in 1..3
OBVIOUS

\* The comparison tells the line of Content-Length from those before it.
LEMMA Compared ==
  ASSUME mem \in Seq(Symbols), Len(sent) \in Nat, NEW L, NEW n, Fits(L, n),
         NEW i \in 1..n, LineIsCut(L, i), BodyStands(L), sep = At(L, i - 1) + 1
  PROVE  IsContentLength <=> i = n
<1> DEFINE a == At(L, i - 1)  l == Len(L[i])  b == At(L, i)  z == At(L, Len(L))
           m == Len(mem)  part == SubSeq(mem, sep, sep + 2)
<1>1. /\ a \in Nat /\ l \in Nat \ {0} /\ b = a + l + 2 /\ z \in Nat /\ b <= z
      /\ m = z + 2 + Len(sent) /\ m \in Nat /\ sep = a + 1
  <2>1. /\ a \in Nat /\ l \in Nat \ {0} /\ b = a + l + 2 /\ z \in Nat /\ b <= z
    BY FitsAt
  <2>2. m = z + 2 + Len(sent) /\ m \in Nat
    BY DEF BodyStands
  <2> QED BY <2>1, <2>2
<1>2. (\A j \in 1..l : mem[a + j] = L[i][j]) /\ mem[b - 1] = NUL
  BY DEF LineIsCut, WordsStand
<1>3. LengthName = <<"CL", ":", " ">>
  BY DEF LengthName
<1>4. /\ LengthName \in Seq(Symbols) /\ Len(LengthName) = 3
      /\ LengthName[1] = "CL" /\ LengthName[2] = ":" /\ LengthName[3] = " "
  <2> DEFINE c == "CL"  d == ":"  e == " "  s == LengthName
  <2>1. c \in Symbols /\ d \in Symbols /\ e \in Symbols /\ s = <<c, d, e>>
    BY <1>3, Marks
  <2> HIDE DEF c, d, e, s
  <2>2. s \in Seq(Symbols) /\ Len(s) = 3 /\ s[1] = c /\ s[2] = d /\ s[3] = e
    BY <2>1, Three
  <2> QED BY <2>2 DEF c, d, e, s
<1> HIDE DEF a, l, b, z, m
<1>5. ASSUME sep + 2 <= m
      PROVE  IsSeq(part) /\ Len(part) = 3 /\ \A j \in 1..3 : part[j] = mem[a + j]
  <2>1. /\ sep \in Nat \ {0} /\ sep + 2 \in Nat /\ sep <= (sep + 2) + 1
        /\ (sep + 2) - sep + 1 = 3 /\ \A j \in 1..3 : sep + j - 1 = a + j
    <3> DEFINE x == sep
    <3>1. x \in Nat \ {0} /\ x = a + 1
      BY <1>1
    <3> HIDE DEF x
    <3>2. /\ x + 2 \in Nat /\ x <= (x + 2) + 1 /\ (x + 2) - x + 1 = 3
          /\ \A j \in 1..3 : x + j - 1 = a + j
      BY <1>1, <3>1
    <3> QED BY <3>1, <3>2 DEF x
  <2>0. IsSeq(mem)
    BY DEF IsSeq
  <2> DEFINE e == sep + 2
  <2>2. e \in Nat /\ e <= Len(mem) /\ sep <= e + 1 /\ e - sep + 1 = 3
    BY <1>5, <2>1 DEF m
  <2> HIDE DEF e
  <2>3. /\ IsSeq(SubSeq(mem, sep, e)) /\ Len(SubSeq(mem, sep, e)) = e - sep + 1
        /\ \A j \in 1..(e - sep + 1) : SubSeq(mem, sep, e)[j] = mem[sep + j - 1]
    <3> DEFINE x == sep  s == mem
    <3>1. IsSeq(s) /\ x \in Nat \ {0} /\ e \in Nat /\ e <= Len(s) /\ x <= e + 1
      BY <2>0, <2>1, <2>2
    <3> HIDE DEF x, s
    <3>2. /\ IsSeq(SubSeq(s, x, e)) /\ Len(SubSeq(s, x, e)) = e - x + 1
          /\ \A j \in 1..(e - x + 1) : SubSeq(s, x, e)[j] = s[x + j - 1]
      BY <3>1, Piece
    <3> QED BY <3>2 DEF x, s
  <2> QED BY <2>1, <2>2, <2>3 DEF e
<1> HIDE DEF part
<1>6. IsContentLength <=> sep + 2 <= m /\ part = LengthName
  BY DEF IsContentLength, m, part
<1>7. CASE i = n
  <2>1. l = 4 /\ L[i][1] = "CL" /\ L[i][2] = ":" /\ L[i][3] = " "
    BY <1>7 DEF Fits, l
  <2>0. l = 4
    BY <2>1
  <2>2. sep + 2 <= m
    BY <1>1, <2>0
  <2>3. mem[a + 1] = "CL" /\ mem[a + 2] = ":" /\ mem[a + 3] = " "
    <3>1. 1 \in 1..l /\ 2 \in 1..l /\ 3 \in 1..l
      BY <2>0
    <3>2. mem[a + 1] = L[i][1] /\ mem[a + 2] = L[i][2] /\ mem[a + 3] = L[i][3]
      BY <1>2, <3>1
    <3> QED BY <2>1, <3>2
  <2>4. part[1] = "CL" /\ part[2] = ":" /\ part[3] = " "
    <3>1. \A j \in 1..3 : part[j] = mem[a + j]
      BY <1>5, <2>2
    <3>2. part[1] = mem[a + 1] /\ part[2] = mem[a + 2] /\ part[3] = mem[a + 3]
      BY <3>1, OneToThree
    <3> QED BY <2>3, <3>2
  <2>5. \A j \in 1..3 : part[j] = LengthName[j]
    <3>1. \A j \in 1..3 : j = 1 \/ j = 2 \/ j = 3
      OBVIOUS
    <3> QED BY <1>4, <2>4, <3>1
  <2>6. IsSeq(LengthName) /\ IsSeq(part) /\ Len(part) = Len(LengthName)
    BY <1>4, <1>5, <2>2 DEF IsSeq
  <2>7. part = LengthName
    BY <1>4, <2>5, <2>6, SameSequences
  <2> QED BY <1>6, <1>7, <2>2, <2>7
<1>8. CASE i # n
  <2>1. ~IsPrefix(LengthName, L[i]) /\ L[i] \in Seq(Symbols)
    <3>1. n \in Nat /\ n <= Len(L) /\ Len(L) \in Nat /\ L \in Seq(Seq(Symbols))
      BY DEF Fits
    <3>2. i < n /\ i \in 1..Len(L)
      BY <1>8, <3>1
    <3>3. ~IsPrefix(LengthName, L[i])
      BY <3>2 DEF Fits
    <3> QED BY <3>1, <3>2, <3>3
  <2>2. SUFFICES ASSUME sep + 2 <= m, part = LengthName PROVE FALSE
    BY <1>6, <1>8
  <2>3. mem[a + 1] = "CL" /\ mem[a + 2] = ":" /\ mem[a + 3] = " "
    <3>1. \A j \in 1..3 : LengthName[j] = mem[a + j]
      BY <1>5, <2>2
    <3>2. /\ LengthName[1] = mem[a + 1] /\ LengthName[2] = mem[a + 2]
          /\ LengthName[3] = mem[a + 3]
      BY <3>1, OneToThree
    <3> QED BY <1>4, <3>2
  <2>4. CASE l >= 3
    <3>1. \A j \in 1..3 : j \in 1..l
      BY <1>1, <2>4
    <3>2. \A j \in 1..3 : LengthName[j] = L[i][j]
      BY <1>2, <1>5, <2>2, <3>1
    <3>3. IsPrefix(LengthName, L[i])
      <4> DEFINE s == LengthName  r == L[i]
      <4>1. /\ s \in Seq(Symbols) /\ r \in Seq(Symbols) /\ Len(s) <= Len(r)
            /\ \A j \in 1..Len(s) : s[j] = r[j]
        BY <1>1, <1>4, <2>1, <2>4, <3>2 DEF l
      <4> HIDE DEF s, r
      <4>2. IsPrefix(s, r)
        BY <4>1, Prefix
      <4> QED BY <4>2 DEF s, r
    <3> QED BY <2>1, <3>3
  <2>5. CASE l = 1
    <3>1. b - 1 = a + 2
      BY <1>1, <2>5
    <3> QED BY <1>2, <2>3, <3>1 DEF NUL
  <2>6. CASE l = 2
    <3>1. b - 1 = a + 3
      BY <1>1, <2>6
    <3> QED BY <1>2, <2>3, <3>1 DEF NUL
  <2>7. l >= 3 \/ l = 1 \/ l = 2
    BY <1>1
  <2> QED BY <2>4, <2>5, <2>6, <2>7
<1> QED BY <1>7, <1>8

LEMMA CompareKeeps ==
  ASSUME ScanInv, Compare
  PROVE  ScanInv'
<1>1. PICK before \in Lines, after \in Lines : \E L, n :
        Of(before, after, L, n) /\ Fits(L, n) /\ Scanned(L, n)
  BY Setting
<1>2. PICK L, n : Of(before, after, L, n) /\ Fits(L, n) /\ Scanned(L, n)
  BY <1>1
<1>3. sent \in Payloads /\ mem \in Seq(Symbols) /\ Len(sent) \in Nat
  BY BodyLength DEF ScanInv
<1>4. /\ scan = "compare" /\ sep # 0
      /\ scan' = IF IsContentLength THEN "value" ELSE "next"
      /\ mem' = mem /\ save' = save /\ sep' = sep /\ payload_len' = payload_len
      /\ sent' = sent
  BY DEF Compare
<1>5. BodyStands(L) /\ save # 0 /\ InLine(L, n)
  BY <1>2, <1>4 DEF Scanned
<1>6. PICK i \in 1..n :
        /\ sep = At(L, i - 1) + 1 /\ save = At(L, i)
        /\ LineIsCut(L, i) /\ \A k \in (i + 1)..n : LineStands(L, k)
  BY <1>5 DEF InLine
<1>7. IsContentLength <=> i = n
  BY <1>2, <1>3, <1>5, <1>6, Compared
<1>8. scan' = "next" => i < n
  <2>1. n \in Nat
    BY <1>2 DEF Fits
  <2>2. scan' = "next" => i # n
    BY <1>4, <1>7
  <2> QED BY <2>1, <2>2
<1>9. scan' = "value" => i = n
  BY <1>4, <1>7
<1>10. LineIsCut(L, i)' /\ \A k \in (i + 1)..n : LineStands(L, k)'
  BY <1>4, <1>6 DEF LineIsCut, LineStands, WordsStand
<1>11. InLine(L, n)'
  BY <1>4, <1>6, <1>8, <1>9, <1>10 DEF InLine
<1>12. BodyStands(L)'
  BY <1>4, <1>5 DEF BodyStands
<1>13. Scanned(L, n)'
  BY <1>4, <1>5, <1>11, <1>12 DEF Scanned
<1>14. scan' \in Stages /\ mem' \in Seq(Symbols)
  BY <1>3, <1>4 DEF Stages
<1> QED BY <1>2, <1>3, <1>4, <1>13, <1>14, Resumes

\* The line of Content-Length, symbol by symbol, when strtok has ended it.
LEMMA LengthLine ==
  ASSUME Len(sent) \in Nat, NEW L, NEW n, Fits(L, n), L[n][4] = Numerals[Len(sent)],
         LineIsCut(L, n), BodyStands(L), NEW v, v = At(L, n - 1)
  PROVE  /\ v \in Nat /\ At(L, Len(L)) \in Nat /\ v + 6 <= At(L, Len(L))
         /\ mem[v + 1] = "CL" /\ mem[v + 2] = ":" /\ mem[v + 3] = " "
         /\ mem[v + 4] = Numerals[Len(sent)] /\ mem[v + 5] = NUL
<1> DEFINE l == L[n]  b == At(L, n)  z == At(L, Len(L))
<1>1. n \in 1..n
  <2>1. n \in Nat /\ 2 <= n
    BY DEF Fits
  <2> QED BY <2>1
<1>2. v \in Nat /\ z \in Nat /\ b \in Nat /\ b = v + Len(l) + 2 /\ b <= z
  BY <1>1, FitsAt
<1>3. Len(l) = 4
  BY DEF Fits
<1>4. l[1] = "CL" /\ l[2] = ":" /\ l[3] = " " /\ l[4] = Numerals[Len(sent)]
  BY DEF Fits
<1>5. (\A j \in 1..Len(l) : mem[v + j] = l[j]) /\ mem[b - 1] = NUL
  BY DEF LineIsCut, WordsStand
<1> HIDE DEF l, b, z
<1>6. b - 1 = v + 5 /\ v + 6 <= z
  BY <1>2, <1>3
<1>7. /\ mem[v + 1] = l[1] /\ mem[v + 2] = l[2] /\ mem[v + 3] = l[3]
      /\ mem[v + 4] = l[4]
  <2>1. 1 \in 1..Len(l) /\ 2 \in 1..Len(l) /\ 3 \in 1..Len(l) /\ 4 \in 1..Len(l)
    BY <1>3
  <2> QED BY <1>5, <2>1
<1>8. mem[v + 5] = NUL
  BY <1>5, <1>6
<1> QED BY <1>2, <1>4, <1>6, <1>7, <1>8 DEF z

LEMMA NumeralFacts ==
  ASSUME sent \in Payloads
  PROVE  /\ Len(sent) \in DOMAIN Numerals
         /\ Numerals[Len(sent)] \notin EndOfLine \cup {NUL, ":", " "}
         /\ \A m \in DOMAIN Numerals : Numerals[m] = Numerals[Len(sent)] => m = Len(sent)
<1>1. Len(sent) \in DOMAIN Numerals
  BY RequestAssumption DEF RequestAssumption
<1> QED BY <1>1, RequestAssumption DEF RequestAssumption

LEMMA GetValueKeeps ==
  ASSUME ScanInv, GetValue
  PROVE  ScanInv'
<1>1. PICK before \in Lines, after \in Lines : \E L, n :
        /\ Of(before, after, L, n) /\ Fits(L, n) /\ Scanned(L, n)
        /\ L[n][4] = Numerals[Len(sent)]
  BY Setting
<1>2. PICK L, n : /\ Of(before, after, L, n) /\ Fits(L, n) /\ Scanned(L, n)
                  /\ L[n][4] = Numerals[Len(sent)]
  BY <1>1
<1>3. sent \in Payloads /\ mem \in Seq(Symbols) /\ Len(sent) \in Nat
  BY BodyLength DEF ScanInv
<1> DEFINE colon == {":", " "}
           t == strtok(sep, colon)
           v == At(L, n - 1)
           z == At(L, Len(L))
<1>4. /\ scan = "value" /\ scan' = "rest" /\ mem' = t.mem /\ save' = t.save
      /\ sent' = sent
  BY DEF GetValue, Takes
<1>5. BodyStands(L) /\ InLine(L, n)
  BY <1>2, <1>4 DEF Scanned
<1>6. sep = v + 1 /\ LineIsCut(L, n)
  BY <1>4, <1>5 DEF InLine
<1>7. /\ v \in Nat /\ z \in Nat /\ v + 6 <= z
      /\ mem[v + 1] = "CL" /\ mem[v + 2] = ":" /\ mem[v + 3] = " "
      /\ mem[v + 4] = Numerals[Len(sent)] /\ mem[v + 5] = NUL
  BY <1>2, <1>3, <1>5, <1>6, LengthLine
<1>8. /\ Len(mem) = z + 2 + Len(sent) /\ Len(mem) \in Nat
      /\ \A j \in 1..Len(sent) : mem[z + 2 + j] = sent[j]
  <2>1. Len(mem) \in Nat
    BY <1>3
  <2> QED BY <1>5, <2>1 DEF BodyStands
<1>9. t = strtok(sep, colon)
  OBVIOUS
<1>10. /\ \A x \in {"CL"} : x \notin colon \cup {NUL}
       /\ ":" \in colon \cup {NUL} /\ ":" # NUL
  BY DEF NUL
<1> HIDE DEF t, v, z, colon
<1>11. /\ v \in Nat /\ z \in Nat /\ v + 6 <= z
  BY <1>7
<1> DEFINE s == v + 1  e == v + 2
<1>12. /\ s \in Nat \ {0} /\ e \in Nat /\ s <= e /\ e <= Len(mem)
       /\ (\A i \in s..(s - 1) : FALSE) /\ (\A i \in s..(e - 1) : i = s)
       /\ e \in 1..Len(mem) /\ e + 1 = v + 3 /\ s <= s
  BY <1>3, <1>8, <1>11
<1>13. mem[s] \notin colon \cup {NUL} /\ mem[e] \in colon \cup {NUL} /\ mem[e] # NUL
  BY <1>7, <1>10
<1> HIDE DEF s, e
<1>14. TokenStands(s, colon, s, e)
  BY <1>12, <1>13 DEF TokenStands
<1>15. t = [token |-> s, mem |-> [mem EXCEPT ![e] = NUL], save |-> e + 1]
  <2>1. sep = s
    BY <1>6 DEF s
  <2> QED BY <1>3, <1>9, <1>13, <1>14, <2>1, Token
<1>16. mem' = [mem EXCEPT ![e] = NUL] /\ save' = v + 3
  BY <1>4, <1>12, <1>15
<1>17. /\ mem' \in Seq(Symbols) /\ Len(mem') = Len(mem)
       /\ \A j \in 1..Len(mem) : j # e => mem'[j] = mem[j]
  <2> DEFINE c == mem'
  <2>1. NUL \in Symbols
    BY RequestAssumption DEF RequestAssumption
  <2>2. c = [mem EXCEPT ![e] = NUL]
    BY <1>16
  <2> HIDE DEF c
  <2>3. /\ c \in Seq(Symbols) /\ Len(c) = Len(mem)
        /\ \A j \in 1..Len(mem) : j # e => c[j] = mem[j]
    BY <1>3, <1>12, <2>1, <2>2, Replaced
  <2> QED BY <2>3 DEF c
<1>18. /\ v + 3 \in 1..Len(mem) /\ v + 3 # e /\ v + 4 \in 1..Len(mem) /\ v + 4 # e
       /\ v + 5 \in 1..Len(mem) /\ v + 5 # e
       /\ \A j \in 1..Len(sent) : z + 2 + j \in 1..Len(mem) /\ z + 2 + j # e
  BY <1>3, <1>8, <1>11, SMTT(30) DEF e
<1>19. NumberStands(v)'
  <2>1. mem'[v + 3] = mem[v + 3] /\ mem'[v + 4] = mem[v + 4] /\ mem'[v + 5] = mem[v + 5]
    BY <1>17, <1>18
  <2> QED BY <1>4, <1>7, <2>1 DEF NumberStands
<1>20. BodyStands(L)'
  <2>1. \A j \in 1..Len(sent) : mem'[z + 2 + j] = mem[z + 2 + j]
    BY <1>17, <1>18
  <2> QED BY <1>4, <1>8, <1>17, <2>1 DEF BodyStands, z
<1>21. Scanned(L, n)'
  BY <1>4, <1>16, <1>19, <1>20 DEF Scanned, v
<1>22. scan' \in Stages
  BY <1>4 DEF Stages
<1> QED BY <1>2, <1>3, <1>4, <1>17, <1>21, <1>22, Resumes

\* strtol reads the length of the body.
LEMMA NumberRead ==
  ASSUME sent \in Payloads, mem \in Seq(Symbols), NEW v \in Nat, NumberStands(v),
         v + 6 <= Len(mem)
  PROVE  strtol(v + 3) = Len(sent)
<1> DEFINE str == v + 3
           digits == {i \in str..Len(mem) : \A j \in str..i : mem[j] = " "}
<1>0. str \in Nat /\ v + 4 = str + 1
  OBVIOUS
<1>1. /\ mem[v + 3] = " " /\ mem[v + 4] = Numerals[Len(sent)]
      /\ Numerals[Len(sent)] # " "
  BY NumeralFacts DEF NumberStands
<1>2. digits = {str}
  <2>1. Len(mem) \in Nat
    OBVIOUS
  <2>2. str \in str..Len(mem) /\ \A j \in str..str : j = str
    BY <2>1
  <2>3. str \in digits
    BY <1>1, <2>2
  <2>4. ASSUME NEW i \in digits PROVE i = str
    <3>1. i \in str..Len(mem) /\ \A j \in str..i : mem[j] = " "
      OBVIOUS
    <3>2. v + 4 \in str..i => mem[v + 4] = " "
      BY <3>1
    <3>3. v + 4 \notin str..i
      BY <1>1, <3>2
    <3>4. str \in Nat /\ v + 4 = str + 1
      BY <1>0
    <3>5. i \in str..Len(mem)
      OBVIOUS
    <3> HIDE DEF str, digits
    <3> QED BY <2>1, <3>3, <3>4, <3>5
  <2> HIDE DEF digits
  <2> QED BY <2>3, <2>4
<1>3. Max(digits) = str
  <2>0. str \in Int
    OBVIOUS
  <2>1. digits \subseteq Int /\ str \in digits /\ \A y \in digits : y <= str
    <3> HIDE DEF digits, str
    <3> QED BY <1>2, <2>0
  <2> HIDE DEF digits, str
  <2> QED BY <2>1, MaxIs
<1>4. strtol(str) =
        LET first == IF digits = {} THEN str ELSE Max(digits) + 1
        IN IF \E m \in DOMAIN Numerals : Numerals[m] = mem[first]
           THEN CHOOSE m \in DOMAIN Numerals : Numerals[m] = mem[first] ELSE 0
  BY DEF strtol
<1>5. digits # {}
  BY <1>2
<1>6. str + 1 = v + 4
  OBVIOUS
<1> HIDE DEF digits
<1>7. strtol(str) =
        IF \E m \in DOMAIN Numerals : Numerals[m] = mem[v + 4]
        THEN CHOOSE m \in DOMAIN Numerals : Numerals[m] = mem[v + 4] ELSE 0
  <2> HIDE DEF str
  <2> QED BY <1>3, <1>4, <1>5, <1>6
<1>8. /\ Len(sent) \in DOMAIN Numerals
      /\ \A m \in DOMAIN Numerals : Numerals[m] = mem[v + 4] <=> m = Len(sent)
  BY <1>1, NumeralFacts
<1>9. (CHOOSE m \in DOMAIN Numerals : Numerals[m] = mem[v + 4]) = Len(sent)
  BY <1>8
<1> HIDE DEF str
<1> QED BY <1>7, <1>8, <1>9 DEF str

LEMMA GetRestKeeps ==
  ASSUME ScanInv, GetRest
  PROVE  ScanInv'
<1>1. PICK before \in Lines, after \in Lines : \E L, n :
        Of(before, after, L, n) /\ Fits(L, n) /\ Scanned(L, n)
  BY Setting
<1>2. PICK L, n : Of(before, after, L, n) /\ Fits(L, n) /\ Scanned(L, n)
  BY <1>1
<1>3. sent \in Payloads /\ mem \in Seq(Symbols) /\ Len(sent) \in Nat
  BY BodyLength DEF ScanInv
<1> DEFINE t == strtok(save, EndOfLine)
           v == At(L, n - 1)
<1>4. /\ scan = "rest" /\ mem' = t.mem /\ sent' = sent
      /\ t.token # 0 => /\ o' = t.token /\ save' = t.save /\ scan' = scan
                        /\ payload_len' = payload_len
      /\ t.token = 0 => /\ save' = t.save /\ scan' = "next"
                        /\ payload_len' = strtol(o)
  BY DEF GetRest, AfterValue
<1>5. /\ BodyStands(L) /\ NumberStands(v)
      /\ save = v + 3 \/ (save = 0 /\ o = v + 3)
  BY <1>2, <1>4 DEF Scanned
<1>6. v \in Nat /\ v + 6 <= Len(mem) /\ Len(mem) \in Nat
  <2> DEFINE z == At(L, Len(L))  b == At(L, n)  l == Len(L[n])
  <2>1. n \in 1..n
    <3>1. n \in Nat /\ 2 <= n
      BY <1>2 DEF Fits
    <3> QED BY <3>1
  <2>2. v \in Nat /\ z \in Nat /\ b \in Nat /\ b = v + l + 2 /\ b <= z
    BY <1>2, <2>1, FitsAt
  <2>3. l = 4
    BY <1>2 DEF Fits
  <2>4. Len(mem) = z + 2 + Len(sent)
    BY <1>5 DEF BodyStands
  <2> HIDE DEF v, z, b, l
  <2> QED BY <1>3, <2>2, <2>3, <2>4
<1>7. t = strtok(save, EndOfLine)
  OBVIOUS
<1> HIDE DEF t, v
<1>8. CASE save = v + 3
  <2>1. /\ mem[v + 3] = " " /\ mem[v + 4] = Numerals[Len(sent)] /\ mem[v + 5] = NUL
        /\ Numerals[Len(sent)] \notin EndOfLine \cup {NUL}
        /\ " " \notin EndOfLine \cup {NUL}
    BY <1>3, <1>5, NumeralFacts DEF NumberStands, EndOfLine, NUL
  <2> DEFINE s == v + 3  e == v + 5
  <2>2. /\ s \in Nat \ {0} /\ e \in Nat /\ s <= s /\ s <= e /\ e <= Len(mem)
        /\ (\A i \in s..(s - 1) : FALSE)
        /\ (\A i \in s..(e - 1) : i = s \/ i = v + 4)
    BY <1>6
  <2>3. mem[s] \notin EndOfLine \cup {NUL} /\ mem[v + 4] \notin EndOfLine \cup {NUL}
    BY <2>1
  <2>4. mem[e] \in EndOfLine \cup {NUL} /\ mem[e] = NUL
    BY <2>1
  <2>5. save = s
    BY <1>8
  <2> HIDE DEF s, e
  <2>6. \A i \in s..(e - 1) : mem[i] \notin EndOfLine \cup {NUL}
    BY <2>2, <2>3
  <2>7. TokenStands(s, EndOfLine, s, e)
    BY <2>2, <2>3, <2>4, <2>6 DEF TokenStands
  <2>8. t = [token |-> s, mem |-> mem, save |-> 0]
    BY <1>3, <1>7, <2>4, <2>5, <2>7, Token
  <2>9. mem' = mem /\ save' = 0 /\ o' = v + 3 /\ scan' = "rest"
    <3>1. t.token # 0 /\ t.token = s /\ t.save = 0 /\ t.mem = mem
      BY <2>2, <2>8
    <3> QED BY <1>4, <3>1 DEF s
  <2>10. BodyStands(L)' /\ NumberStands(v)'
    BY <1>4, <1>5, <2>9 DEF BodyStands, NumberStands
  <2>11. Scanned(L, n)'
    BY <2>9, <2>10 DEF Scanned, v
  <2>12. scan' \in Stages /\ mem' \in Seq(Symbols)
    BY <1>3, <2>9 DEF Stages
  <2> QED BY <1>2, <1>3, <1>4, <2>11, <2>12, Resumes
<1>9. CASE save = 0 /\ o = v + 3
  <2>1. t = [token |-> 0, mem |-> mem, save |-> 0]
    BY <1>7, <1>9, NoToken
  <2>2. strtol(o) = Len(sent)
    BY <1>3, <1>5, <1>6, <1>9, NumberRead
  <2>3. mem' = mem /\ save' = 0 /\ scan' = "next" /\ payload_len' = Len(sent)
    BY <1>4, <2>1, <2>2
  <2>4. BodyStands(L)'
    BY <1>4, <1>5, <2>3 DEF BodyStands
  <2>5. Scanned(L, n)'
    BY <1>4, <2>3, <2>4 DEF Scanned
  <2>6. scan' \in Stages /\ mem' \in Seq(Symbols)
    BY <1>3, <2>3 DEF Stages
  <2> QED BY <1>2, <1>3, <1>4, <2>5, <2>6, Resumes
<1> QED BY <1>5, <1>8, <1>9

LEMMA CutKeeps ==
  ASSUME ScanInv, Cut
  PROVE  ScanInv'
<1>1. PICK before \in Lines, after \in Lines : \E L, n :
        Of(before, after, L, n) /\ Fits(L, n) /\ Scanned(L, n)
  BY Setting
<1>2. PICK L, n : Of(before, after, L, n) /\ Fits(L, n) /\ Scanned(L, n)
  BY <1>1
<1>3. sent \in Payloads /\ mem \in Seq(Symbols) /\ sent \in Seq(Symbols) /\ Len(sent) \in Nat
  BY BodyLength DEF ScanInv
<1>4. /\ scan = "compare" /\ sep = 0 /\ scan' = "done" /\ mem' = mem /\ save' = save
      /\ sent' = sent
      /\ payload' = SubSeq(mem, (Len(mem) - payload_len) + 1,
                           (Len(mem) - payload_len) + payload_len)
  BY DEF Cut, Start
<1>5. BodyStands(L) /\ (save # 0 => InLine(L, n)) /\ (save = 0 => payload_len = Len(sent))
  BY <1>2, <1>4 DEF Scanned
<1>6. save = 0
  <2>1. SUFFICES ASSUME save # 0 PROVE FALSE
    OBVIOUS
  <2>2. PICK i \in 1..n : sep = At(L, i - 1) + 1
    BY <1>5, <2>1 DEF InLine
  <2>3. At(L, i - 1) \in Nat
    BY <1>2, FitsAt
  <2> QED BY <1>4, <2>2, <2>3
<1> DEFINE z == At(L, Len(L))  k == Len(sent)  m == Len(mem)
           from == (m - k) + 1  to == (m - k) + k
<1>7. /\ m = z + 2 + k /\ z \in Nat /\ k \in Nat /\ m \in Nat
      /\ \A j \in 1..k : mem[z + 2 + j] = sent[j]
  <2>1. z \in Nat
    BY <1>2 DEF Fits
  <2>2. m \in Nat
    BY <1>3
  <2> QED BY <1>3, <1>5, <2>1, <2>2 DEF BodyStands
<1>8. payload' = SubSeq(mem, from, to)
  BY <1>4, <1>5, <1>6
<1>9. m = Len(mem)
  OBVIOUS
<1> HIDE DEF z, k, m
<1>10. /\ from \in Nat \ {0} /\ to \in Nat /\ to <= m /\ from <= to + 1
       /\ to - from + 1 = k /\ \A j \in 1..k : from + j - 1 = z + 2 + j
  BY <1>7
<1> HIDE DEF from, to
<1>11. /\ IsSeq(SubSeq(mem, from, to)) /\ Len(SubSeq(mem, from, to)) = to - from + 1
       /\ \A j \in 1..(to - from + 1) : SubSeq(mem, from, to)[j] = mem[from + j - 1]
  <2> DEFINE s == mem
  <2>1. IsSeq(s) /\ to <= Len(s)
    BY <1>3, <1>9, <1>10 DEF IsSeq
  <2> HIDE DEF s
  <2>2. /\ IsSeq(SubSeq(s, from, to)) /\ Len(SubSeq(s, from, to)) = to - from + 1
        /\ \A j \in 1..(to - from + 1) : SubSeq(s, from, to)[j] = s[from + j - 1]
    BY <1>10, <2>1, Piece
  <2> QED BY <2>2 DEF s
<1> DEFINE part == SubSeq(mem, from, to)
<1>12. IsSeq(part) /\ Len(part) = k /\ \A j \in 1..k : part[j] = sent[j]
  BY <1>7, <1>10, <1>11
<1>13. IsSeq(sent)
  BY <1>3 DEF IsSeq
<1>14. payload' = part
  BY <1>8
<1> HIDE DEF part
<1>15. part = sent
  BY <1>12, <1>13, SameSequences DEF k
<1>16. BodyStands(L)'
  BY <1>4, <1>5 DEF BodyStands
<1>17. Scanned(L, n)'
  BY <1>4, <1>6, <1>14, <1>15, <1>16 DEF Scanned
<1>18. scan' \in Stages /\ mem' \in Seq(Symbols)
  BY <1>3, <1>4 DEF Stages
<1> QED BY <1>2, <1>3, <1>4, <1>17, <1>18, Resumes

LEMMA ScanStutters ==
  ASSUME ScanInv, UNCHANGED request
  PROVE  ScanInv'
<1>1. PICK before \in Lines, after \in Lines : \E L, n :
        Of(before, after, L, n) /\ Fits(L, n) /\ Scanned(L, n)
  BY Setting
<1>2. PICK L, n : Of(before, after, L, n) /\ Fits(L, n) /\ Scanned(L, n)
  BY <1>1
<1>3. /\ scan' = scan /\ mem' = mem /\ save' = save /\ sep' = sep /\ o' = o
      /\ payload_len' = payload_len /\ payload' = payload /\ sent' = sent
  BY DEF request
<1>4. /\ BodyStands(L)' <=> BodyStands(L)
      /\ \A i : LineStands(L, i)' <=> LineStands(L, i)
      /\ NumberStands(At(L, n - 1))' <=> NumberStands(At(L, n - 1))
  BY <1>3 DEF BodyStands, LineStands, WordsStand, NumberStands
<1>5. \A i : LineIsCut(L, i)' <=> LineIsCut(L, i)
  BY <1>3 DEF LineIsCut, WordsStand
<1>6. InLine(L, n) => InLine(L, n)'
  BY <1>3, <1>4, <1>5 DEF InLine
<1>7. Scanned(L, n)'
  BY <1>2, <1>3, <1>4, <1>6 DEF Scanned
<1>8. sent \in Payloads /\ mem' \in Seq(Symbols) /\ scan' \in Stages
  BY <1>3 DEF ScanInv, Stages
<1> QED BY <1>2, <1>3, <1>7, <1>8, Resumes

\* strtok does not leave the segment if a token is there, and an end of it.
LEMMA InsideIs ==
  ASSUME mem \in Seq(Symbols), NEW delims, NEW from \in Nat, NEW start \in Nat,
         NEW end \in Nat, from <= start, start <= end, end <= Len(mem),
         mem[start] \notin delims, mem[end] \in delims \cup {NUL}
  PROVE  Inside(from, delims)
<1>1. Len(mem) \in Nat
  OBVIOUS
<1>2. end \in from..Len(mem) /\ start \in from..end
  BY <1>1
<1> QED BY <1>2 DEF Inside

\* Nor does the scan of a line, from its beginning or the LF before it.
LEMMA LineInside ==
  ASSUME mem \in Seq(Symbols), Len(sent) \in Nat, NEW L, NEW n, Fits(L, n),
         NEW k \in 1..n, LineStands(L, k), BodyStands(L), NEW from \in Nat,
         from = At(L, k - 1) + 1 \/ from = At(L, k - 1)
  PROVE  Inside(from, EndOfLine)
<1> DEFINE a == At(L, k - 1)  l == Len(L[k])  b == At(L, k)  z == At(L, Len(L))
           m == Len(mem)  start == a + 1  end == b - 1
<1>1. a \in Nat /\ l \in Nat \ {0} /\ b = a + l + 2 /\ z \in Nat /\ b <= z
  BY FitsAt
<1>2. m = z + 2 + Len(sent)
  BY DEF BodyStands
<1>3. mem[start] \notin EndOfLine
  <2>1. 1 \in 1..l
    BY <1>1
  <2>2. mem[a + 1] = L[k][1] /\ L[k][1] \notin EndOfLine
    <3>1. mem[a + 1] = L[k][1]
      BY <2>1 DEF LineStands, WordsStand
    <3>2. L[k][1] \notin EndOfLine
      BY <2>1 DEF Fits
    <3> QED BY <3>1, <3>2
  <2> QED BY <2>2
<1>4. mem[end] \in EndOfLine \cup {NUL}
  BY DEF LineStands, EndOfLine
<1>5. from = a + 1 \/ from = a
  OBVIOUS
<1>6. m = Len(mem)
  OBVIOUS
<1> HIDE DEF a, l, b, z, m
<1>7. /\ start \in Nat /\ end \in Nat /\ from <= start /\ start <= end /\ end <= m
  BY <1>1, <1>2, <1>5
<1> HIDE DEF start, end
<1> QED BY <1>3, <1>4, <1>6, <1>7, InsideIs

LEMMA NeverStrays ==
  ASSUME ScanInv
  PROVE  ~Stray
<1>1. PICK before \in Lines, after \in Lines : \E L, n :
        /\ Of(before, after, L, n) /\ Fits(L, n) /\ Scanned(L, n)
        /\ L[n][4] = Numerals[Len(sent)]
  BY Setting
<1>2. PICK L, n : /\ Of(before, after, L, n) /\ Fits(L, n) /\ Scanned(L, n)
                  /\ L[n][4] = Numerals[Len(sent)]
  BY <1>1
<1>3. sent \in Payloads /\ mem \in Seq(Symbols) /\ Len(sent) \in Nat
  BY BodyLength DEF ScanInv
<1>4. BodyStands(L) /\ n \in Nat /\ 2 <= n
  BY <1>2 DEF Scanned, Fits
<1>5. scan = "first" => Inside(1, EndOfLine)
  <2>1. SUFFICES ASSUME scan = "first" PROVE Inside(1, EndOfLine)
    OBVIOUS
  <2> DEFINE k == 1
  <2>2. k \in 1..n /\ 1 = At(L, k - 1) + 1 /\ 1 \in Nat
    <3>1. At(L, 0) = 0
      BY <1>2 DEF Fits
    <3>2. k - 1 = 0
      OBVIOUS
    <3>3. 1 \in 1..n
      BY <1>4
    <3> QED BY <3>1, <3>2, <3>3
  <2>3. LineStands(L, k)
    BY <1>2, <2>1, <2>2 DEF Scanned
  <2> HIDE DEF k
  <2> QED BY <1>2, <1>3, <1>4, <2>2, <2>3, LineInside
<1>6. scan = "next" => Inside(LinesFrom, EndOfLine)
  <2>1. SUFFICES ASSUME scan = "next" PROVE Inside(save, EndOfLine)
    BY DEF LinesFrom
  <2>2. CASE save = 0
    BY <2>2 DEF Inside
  <2>3. CASE save # 0
    <3>1. InLine(L, n)
      BY <1>2, <2>1, <2>3 DEF Scanned
    <3>2. PICK i \in 1..n : /\ save = At(L, i) /\ i < n
                            /\ \A k \in (i + 1)..n : LineStands(L, k)
      BY <2>1, <3>1 DEF InLine
    <3>3. save \in Nat
      BY <1>2, <3>2, FitsAt
    <3> DEFINE k == i + 1
    <3>4. k \in 1..n /\ save = At(L, k - 1) /\ LineStands(L, k)
      BY <1>4, <3>2
    <3> HIDE DEF k
    <3> QED BY <1>2, <1>3, <1>4, <3>3, <3>4, LineInside
  <2> QED BY <2>2, <2>3
<1> DEFINE v == At(L, n - 1)  z == At(L, Len(L))
<1>7. scan = "value" => Inside(sep, {":", " "})
  <2>1. SUFFICES ASSUME scan = "value" PROVE Inside(sep, {":", " "})
    OBVIOUS
  <2>2. sep = v + 1 /\ LineIsCut(L, n)
    BY <1>2, <2>1 DEF Scanned, InLine
  <2>3. /\ v \in Nat /\ z \in Nat /\ v + 6 <= z
        /\ mem[v + 1] = "CL" /\ mem[v + 2] = ":"
    BY <1>2, <1>3, <1>4, <2>2, LengthLine
  <2>4. Len(mem) = z + 2 + Len(sent)
    BY <1>4 DEF BodyStands
  <2> HIDE DEF v, z
  <2> DEFINE s == v + 1  e == v + 2  colon == {":", " "}
  <2>5. sep = s /\ s \in Nat /\ e \in Nat /\ s <= s /\ s <= e /\ e <= Len(mem)
    BY <1>3, <2>2, <2>3, <2>4
  <2>6. mem[s] \notin colon /\ mem[e] \in colon \cup {NUL}
    BY <2>3
  <2> HIDE DEF s, e, colon
  <2>7. Inside(sep, colon)
    BY <1>3, <2>5, <2>6, InsideIs
  <2> QED BY <2>7 DEF colon
<1>8. scan = "rest" => Inside(save, EndOfLine)
  <2>1. SUFFICES ASSUME scan = "rest" PROVE Inside(save, EndOfLine)
    OBVIOUS
  <2>2. CASE save = 0
    BY <2>2 DEF Inside
  <2>3. CASE save # 0
    <3>1. save = v + 3 /\ NumberStands(v)
      BY <1>2, <2>1, <2>3 DEF Scanned
    <3>2. v \in Nat /\ z \in Nat /\ At(L, n) \in Nat /\ At(L, n) = v + 6 /\ At(L, n) <= z
      <4> DEFINE b == At(L, n)  l == Len(L[n])
      <4>1. n \in 1..n
        BY <1>4
      <4>2. v \in Nat /\ z \in Nat /\ b \in Nat /\ b = v + l + 2 /\ b <= z
        BY <1>2, <4>1, FitsAt
      <4>3. l = 4
        BY <1>2 DEF Fits
      <4> HIDE DEF v, z, b, l
      <4>4. b = v + 6
        BY <4>2, <4>3
      <4> QED BY <4>2, <4>4 DEF b
    <3>3. Len(mem) = z + 2 + Len(sent)
      BY <1>4 DEF BodyStands
    <3> HIDE DEF v, z
    <3> DEFINE s == v + 3  e == v + 5
    <3>4. save = s /\ s \in Nat /\ e \in Nat /\ s <= s /\ s <= e /\ e <= Len(mem)
      BY <1>3, <3>1, <3>2, <3>3
    <3>5. mem[s] \notin EndOfLine /\ mem[e] \in EndOfLine \cup {NUL}
      BY <3>1 DEF NumberStands, EndOfLine
    <3> HIDE DEF s, e
    <3> QED BY <1>3, <3>4, <3>5, InsideIs
  <2> QED BY <2>2, <2>3
<1> QED BY <1>5, <1>6, <1>7, <1>8 DEF Stray

LEMMA NeverElsewhere ==
  ASSUME ScanInv
  PROVE  ~CutElsewhere
<1>1. SUFFICES ASSUME scan = "compare", sep = 0 PROVE ~(payload_len > Len(mem))
  BY DEF CutElsewhere
<1>2. PICK before \in Lines, after \in Lines : \E L, n :
        Of(before, after, L, n) /\ Fits(L, n) /\ Scanned(L, n)
  BY Setting
<1>3. PICK L, n : Of(before, after, L, n) /\ Fits(L, n) /\ Scanned(L, n)
  BY <1>2
<1>4. save = 0
  <2>1. SUFFICES ASSUME save # 0 PROVE FALSE
    OBVIOUS
  <2>2. PICK i \in 1..n : sep = At(L, i - 1) + 1
    BY <1>1, <1>3, <2>1 DEF Scanned, InLine
  <2>3. At(L, i - 1) \in Nat
    BY <1>3, FitsAt
  <2> QED BY <1>1, <2>2, <2>3
<1>5. payload_len = Len(sent)
  BY <1>1, <1>3, <1>4 DEF Scanned
<1>6. Len(sent) \in Nat
  BY BodyLength DEF ScanInv
<1> DEFINE z == At(L, Len(L))
<1>7. z \in Nat /\ Len(mem) = z + 2 + Len(sent)
  BY <1>3 DEF Fits, Scanned, BodyStands
<1> HIDE DEF z
<1> QED BY <1>5, <1>6, <1>7

MeasuredInv == measured => ScanInv

LEMMA ScanInvHolds == ScanSpec => []MeasuredInv
<1>1. ASSUME MeasuredInv, [ScanNext]_request PROVE MeasuredInv'
  <2>1. measured' = measured
    BY <1>1 DEF ScanNext, request, FirstLine, NextLine, Compare, GetValue, GetRest,
                Stray, Cut, CutElsewhere
  <2>2. SUFFICES ASSUME ScanInv PROVE ScanInv'
    BY <1>1, <2>1 DEF MeasuredInv
  <2>3. CASE FirstLine
    BY <2>2, <2>3, FirstLineKeeps
  <2>4. CASE NextLine
    BY <2>2, <2>4, NextLineKeeps
  <2>5. CASE Compare
    BY <2>2, <2>5, CompareKeeps
  <2>6. CASE GetValue
    BY <2>2, <2>6, GetValueKeeps
  <2>7. CASE GetRest
    BY <2>2, <2>7, GetRestKeeps
  <2>8. CASE Cut
    BY <2>2, <2>8, CutKeeps
  <2>9. CASE UNCHANGED request
    BY <2>2, <2>9, ScanStutters
  <2>10. ~Stray /\ ~CutElsewhere
    BY <2>2, NeverStrays, NeverElsewhere
  <2> QED BY <1>1, <2>3, <2>4, <2>5, <2>6, <2>7, <2>8, <2>9, <2>10 DEF ScanNext
<1>2. ScanInit => MeasuredInv
  BY InitScan DEF MeasuredInv
<1> QED BY <1>1, <1>2, PTL DEF ScanSpec
----------------------------------------------------------------------------
(***************************************************************************)
(* handle_request gets the body, of any length and with any bytes, of a    *)
(* request with one Content-Length, and any headers before it and after    *)
(* (tcp.c:26-47, 115-122).                                                 *)
(***************************************************************************)
THEOREM PayloadIsTheBody == ScanSpec => []PayloadIsBody
<1>1. MeasuredInv => PayloadIsBody
  BY DEF MeasuredInv, ScanInv, Scanned, PayloadIsBody
<1> QED BY <1>1, ScanInvHolds, PTL

(***************************************************************************)
(* In a request with one Content-Length strtok's pointer never leaves the  *)
(* headers, whatever and however many they are, so that neither scan       *)
(* writes into the body or reads past the segment (tcp.c:26-47).  Without  *)
(* one it does both, and the theorem says nothing.                         *)
(***************************************************************************)
THEOREM ScanStays == ScanSpec => []ScanStaysInHeaders
<1>1. ASSUME ScanInv PROVE save <= Len(mem) - Len(sent)
  <2>1. PICK before \in Lines, after \in Lines : \E L, n :
          Of(before, after, L, n) /\ Fits(L, n) /\ Scanned(L, n)
    BY <1>1, Setting
  <2>2. PICK L, n : Of(before, after, L, n) /\ Fits(L, n) /\ Scanned(L, n)
    BY <2>1
  <2>3. /\ sent \in Payloads /\ mem \in Seq(Symbols)
        /\ scan \in {"first", "compare", "next", "value", "rest", "done"}
    BY <1>1 DEF ScanInv
  <2>4. Len(sent) \in Nat
    BY <2>3, BodyLength
  <2> DEFINE z == At(L, Len(L))
  <2>5. z \in Nat /\ n \in Nat /\ 2 <= n
    BY <2>2 DEF Fits
  <2>6. Len(mem) = z + 2 + Len(sent)
    BY <2>2 DEF Scanned, BodyStands
  <2> DEFINE v == At(L, n - 1)  b == At(L, n)  l == Len(L[n])
  <2>7. v \in Nat /\ l \in Nat \ {0} /\ b = v + l + 2 /\ b <= z
    <3>1. n \in 1..n
      BY <2>5
    <3> QED BY <2>2, <3>1, FitsAt
  <2>8. save = 0 \/ save = v + 3 \/ \E i \in 1..n : save = At(L, i)
    BY <2>2, <2>3 DEF Scanned, InLine
  <2>9. \A i \in 1..n : At(L, i) \in Nat /\ At(L, i) <= z
    BY <2>2, FitsAt
  <2>10. save \in Nat /\ save <= z
    <3>1. CASE save = 0
      BY <2>5, <3>1
    <3>2. CASE save = v + 3
      <4> HIDE DEF v, b, l, z
      <4> QED BY <2>5, <2>7, <3>2
    <3>3. CASE \E i \in 1..n : save = At(L, i)
      BY <2>9, <3>3
    <3> QED BY <2>8, <3>1, <3>2, <3>3
  <2> HIDE DEF z
  <2> QED BY <2>4, <2>5, <2>6, <2>10
<1>2. MeasuredInv => ScanStaysInHeaders
  BY <1>1 DEF MeasuredInv, ScanStaysInHeaders
<1> QED BY <1>2, ScanInvHolds, PTL
=============================================================================
