---------------------------- MODULE ExpModProofs ----------------------------
(***************************************************************************)
(* Theorems about ExpMod for every exponent, every size of limbs, every    *)
(* choice of windows and every call that fails.                            *)
(***************************************************************************)
EXTENDS ExpMod, MpiLemmas

----------------------------------------------------------------------------
(* The invariant of the allocations. *)

Working == {"square", "first", "table", "entries", "scan", "remaining", "cleanup"}

CallInv ==
  /\ pc \in Working \cup {"idle", "enter", "returned"}
  /\ calls \in 0..2 /\ (pc # "idle" => calls # 0)
  /\ shared \in BOOLEAN
  /\ calls = 0 => cache = None
  /\ cache # None => shared
  /\ pc # "idle" => E \in Exponents

TableLoop ==
  /\ pc \in {"table", "entries"} => wsize > 1
  /\ pc = "entries" => i \in (FirstEntry + 1)..(TwoTo[wsize] - 1)

Owned == {Entry(1), Temp("T"), Temp("Apos"), Temp("RR")}

MemoryInv ==
  /\ cache # None => Temp("RR") \in blocks
  /\ pc \in {"idle", "enter", "returned"} =>
       blocks = IF cache = None THEN {} ELSE {Temp("RR")}
  /\ pc \in Working => blocks \subseteq Freed_table \cup Owned

----------------------------------------------------------------------------
(* The invariant of the numbers. *)

Power(k) == [e |-> k, r |-> 1, s |-> 1]
RSquared == [e |-> 0, r |-> 2, s |-> 1]

TableInv ==
  /\ cache \in {None, RSquared}
  /\ pc = "first" => RR = RSquared
  /\ W \in [Table -> Number \cup {None}]
  /\ \A k \in Table : W[k] \in {None, Power(k)}
  /\ pc \in {"table", "entries", "scan", "remaining"} => W[1] # None
  /\ pc = "entries" => \A k \in FirstEntry..(i - 1) : W[k] # None
  /\ pc \in {"scan", "remaining"} =>
       \A k \in FirstEntry..(TwoTo[wsize] - 1) : W[k] # None

\* The bits of the window, and of the exponent down to where it is read.
Window(v) ==
  /\ win.wbits = v * TwoTo[wsize - win.nbits]
  /\ win.nbits > 0 => v >= TwoTo[win.nbits - 1]
  /\ X.e * TwoTo[win.nbits] + v = Prefix

ScanInv ==
  /\ X = Power(X.e) /\ X.e \in Nat
  /\ nblimbs \in 0..Len(E.p) /\ bufsize \in 0..(biL - 1)
  /\ bufsize > 0 => nblimbs < Len(E.p)
  /\ win \in [state : 0..2, nbits : 0..(wsize - 1), wbits : Nat]
  /\ win.state = 2 <=> win.nbits > 0
  /\ win.state = 0 => X.e = 0
  /\ \E v \in 0..(TwoTo[win.nbits] - 1) : Window(v)

Replayed(v) ==
  /\ win.wbits = v * TwoTo[(wsize - win.nbits) + i]
  /\ X.e * TwoTo[win.nbits - i] + (v % TwoTo[win.nbits - i]) = Magnitude(E.p)

RemainingInv ==
  /\ X = Power(X.e) /\ X.e \in Nat
  /\ win \in [state : 0..2, nbits : 0..(wsize - 1), wbits : Nat]
  /\ i \in 0..win.nbits
  /\ \E v \in 0..(TwoTo[win.nbits] - 1) : Replayed(v)

Scanning == pc \in {"table", "entries", "scan"} => ScanInv
Ending == pc = "remaining" => RemainingInv
Ended ==
  pc \in {"cleanup", "returned"} /\ ok =>
    X = [e |-> Magnitude(E.p), r |-> 0, s |-> sign]

PowerInv == CallInv /\ TableLoop /\ TableInv /\ Scanning /\ Ending /\ Ended
Inv == MemoryInv /\ PowerInv
----------------------------------------------------------------------------
(* Powers of two in quotients. *)

LEMMA NextBit ==
  ASSUME NEW x \in Nat, NEW n \in Nat
  PROVE  /\ x \div TwoTo[n + 1] \in Nat
         /\ x \div TwoTo[n] = 2 * (x \div TwoTo[n + 1]) + ((x \div TwoTo[n]) % 2)
<1>1. TwoTo[n] \in Nat \ {0} /\ TwoTo[n + 1] = TwoTo[n] * 2
  BY TwoToAt
<1>2. x \div TwoTo[n + 1] = (x \div TwoTo[n]) \div 2
  BY <1>1, QuotientOfQuotient
<1> DEFINE q == x \div TwoTo[n]
<1>3. q \in Nat
  <2> DEFINE y == TwoTo[n]
  <2>1. y \in Nat \ {0}
    BY <1>1
  <2> HIDE DEF y
  <2>2. x \div y \in Nat
    BY <2>1, QuotientRemainder
  <2> QED BY <2>2 DEF y
<1>4. x \div TwoTo[n + 1] = q \div 2
  BY <1>2
<1> HIDE DEF q
<1>5. q \div 2 \in Nat /\ q = 2 * (q \div 2) + (q % 2)
  BY <1>3
<1> QED BY <1>4, <1>5 DEF q
----------------------------------------------------------------------------
(* Windows and the numbers in them. *)

LEMMA WindowSizes ==
  /\ wsize \in {1, 3, 4, 5, 6}
  /\ wsize - 1 \in Nat /\ FirstEntry \in 1..32
  /\ TwoTo[wsize] = 2 * FirstEntry
  /\ wsize > 1 => FirstEntry >= 4
<1>1. wsize \in {1, 3, 4, 5, 6}
  BY DEF wsize
<1>2. /\ TwoTo[1 - 1] = 1 /\ TwoTo[3 - 1] = 4 /\ TwoTo[4 - 1] = 8
      /\ TwoTo[5 - 1] = 16 /\ TwoTo[6 - 1] = 32
  BY SmallPowersOfTwo, TwoToIsDefined
<1> QED BY <1>1, <1>2, SmallPowersOfTwo DEF FirstEntry

LEMMA PowersMultiply ==
  ASSUME NEW j \in Nat, NEW k \in Nat
  PROVE  montmul(Power(j), Power(k)) = Power(j + k)
BY DEF montmul, Power

LEMMA SquaredPower ==
  ASSUME NEW a \in Nat, NEW t \in Nat
  PROVE  Squared(Power(a), t) = Power(a * TwoTo[t])
<1> DEFINE P(n) == Power(a * TwoTo[n])
           Is(g) == g = [n \in 0..t |-> IF n = 0 THEN Power(a)
                                        ELSE montmul(g[n - 1], g[n - 1])]
           h == [n \in 0..t |-> P(n)]
<1>1. P(0) = Power(a)
  BY TwoToIsDefined
<1>2. ASSUME NEW n \in 0..t, n # 0 PROVE P(n) = montmul(P(n - 1), P(n - 1))
  <2> DEFINE b == TwoTo[n - 1]
  <2>1. b \in Nat /\ TwoTo[n] = 2 * b
    <3>1. n - 1 \in Nat /\ (n - 1) + 1 = n
      BY <1>2
    <3> QED BY <3>1, TwoToAt
  <2> HIDE DEF b
  <2>2. a * b \in Nat /\ a * (2 * b) = a * b + a * b
    BY <2>1
  <2>3. montmul(Power(a * b), Power(a * b)) = Power(a * (2 * b))
    BY <2>2, PowersMultiply
  <2> QED BY <2>1, <2>3 DEF b
<1> HIDE DEF P
<1>3. Is(h)
  <2>1. \A n \in 0..t : h[n] = IF n = 0 THEN Power(a)
                               ELSE montmul(h[n - 1], h[n - 1])
    <3> SUFFICES ASSUME NEW n \in 0..t
                 PROVE  h[n] = IF n = 0 THEN Power(a)
                               ELSE montmul(h[n - 1], h[n - 1])
      OBVIOUS
    <3>1. h[n] = P(n)
      OBVIOUS
    <3>2. CASE n = 0
      BY <1>1, <3>1, <3>2
    <3>3. CASE n # 0
      <4>1. n - 1 \in 0..t
        BY <3>3
      <4>2. h[n - 1] = P(n - 1)
        BY <4>1
      <4> QED BY <1>2, <3>1, <3>3, <4>2
    <3> QED BY <3>2, <3>3
  <2> QED BY <2>1
<1> DEFINE sq == CHOOSE g : Is(g)
<1>4. Is(sq)
  BY <1>3
<1>5. Squared(Power(a), t) = sq[t]
  BY DEF Squared
<1> HIDE DEF sq, h
<1>6. \A n \in 0..t : sq[n] = IF n = 0 THEN Power(a)
                              ELSE montmul(sq[n - 1], sq[n - 1])
  BY <1>4
<1> HIDE DEF Is
<1> DEFINE S == {n \in Nat : n <= t => sq[n] = P(n)}
<1>7. 0 \in S
  BY <1>1, <1>6
<1>8. ASSUME NEW n \in Nat, n \in S PROVE n + 1 \in S
  <2>1. SUFFICES ASSUME n + 1 <= t PROVE sq[n + 1] = P(n + 1)
    OBVIOUS
  <2>2. n + 1 \in 0..t /\ n + 1 # 0 /\ (n + 1) - 1 = n /\ sq[n] = P(n)
    BY <1>8, <2>1
  <2> QED BY <1>2, <1>6, <2>2
<1>9. Nat \subseteq S
  <2> HIDE DEF S
  <2> QED BY <1>7, <1>8, Induction
<1> QED BY <1>5, <1>9 DEF P

LEMMA SameExponent ==
  ASSUME E' = E
  PROVE  wsize' = wsize /\ FirstEntry' = FirstEntry /\ Freed_table' = Freed_table
<1>1. wsize' = wsize
  BY DEF wsize
<1> QED BY <1>1 DEF FirstEntry, Freed_table
----------------------------------------------------------------------------
(* Calls and the memory they take. *)

LEMMA CallsAreInductive ==
  /\ Init => CallInv
  /\ CallInv /\ [Next]_vars => CallInv'
<1>1. Init => CallInv
  <2>1. Init => shared \in BOOLEAN /\ (cache # None => shared)
    BY Zenon DEF Init
  <2>2. Init => /\ pc \in Working \cup {"idle", "enter", "returned"}
                /\ calls \in 0..2 /\ (pc # "idle" => calls # 0)
                /\ calls = 0 => cache = None
                /\ pc # "idle" => E \in Exponents
    BY DEF Init
  <2> QED BY <2>1, <2>2, Zenon DEF CallInv
<1>2. SUFFICES ASSUME CallInv, [Next]_vars PROVE CallInv'
  BY <1>1
<1>3. CASE UNCHANGED vars
  BY <1>2, <1>3 DEF CallInv, vars, caller
<1>4. CASE Call
  BY <1>2, <1>4 DEF CallInv, Call, Working
<1>5. CASE Return \/ FreeCache
  <2>1. shared' \in BOOLEAN /\ (cache' # None => shared')
    BY <1>2, <1>5, Zenon DEF CallInv, Return, FreeCache
  <2>2. /\ pc' \in Working \cup {"idle", "enter", "returned"}
        /\ calls' \in 0..2 /\ (pc' # "idle" => calls' # 0)
        /\ calls' = 0 => cache' = None
        /\ pc' # "idle" => E' \in Exponents
    BY <1>2, <1>5 DEF CallInv, Return, FreeCache
  <2> QED BY <2>1, <2>2, Zenon DEF CallInv
<1>6. CASE Enter \/ Precompute \/ TakeCached
  BY <1>2, <1>6 DEF CallInv, Enter, Precompute, TakeCached, Missing, Fail,
       Working, caller
<1>7. CASE First \/ TableFirst \/ TableNext
  BY <1>2, <1>7 DEF CallInv, First, TableFirst, TableNext, Made, Fail, Working,
       caller
<1>8. CASE SkipZero \/ SquareZero \/ AddBit \/ FullWindow
  BY <1>2, <1>8 DEF CallInv, SkipZero, SquareZero, AddBit, FullWindow, Read,
       Working, caller
<1>9. CASE EndOfBits \/ Remaining \/ Finish \/ Cleanup
  BY <1>2, <1>9 DEF CallInv, EndOfBits, Remaining, Finish, Cleanup, Fail,
       Working, caller
<1> QED BY <1>2, <1>3, <1>4, <1>5, <1>6, <1>7, <1>8, <1>9 DEF Next

\* The index runs through the upper half of the table.
LEMMA TableLoopIsInductive ==
  /\ Init => TableLoop
  /\ TableLoop /\ [Next]_vars => TableLoop'
<1>1. Init => TableLoop
  BY DEF Init, TableLoop
<1>2. SUFFICES ASSUME TableLoop, [Next]_vars PROVE TableLoop'
  BY <1>1
<1>3. CASE UNCHANGED vars
  <2>1. E' = E
    BY <1>3 DEF vars, caller
  <2> QED BY <1>2, <1>3, <2>1, SameExponent DEF TableLoop, vars
<1>4. CASE First
  <2>1. /\ E' = E
        /\ pc' = "table" => wsize > 1
        /\ pc' \in {"table", "scan", "cleanup"}
    BY <1>4 DEF First, Fail, caller
  <2> QED BY <2>1, SameExponent DEF TableLoop
<1>5. CASE TableFirst
  <2>1. /\ E' = E /\ pc = "table"
        /\ \/ pc' = "entries" /\ i' = FirstEntry + 1
           \/ pc' = "cleanup"
    BY <1>5 DEF TableFirst, Made, Fail, caller
  <2>2. FirstEntry + 1 \in (FirstEntry + 1)..(TwoTo[wsize] - 1)
    BY <1>2, <2>1, WindowSizes DEF TableLoop
  <2> QED BY <1>2, <2>1, <2>2, SameExponent DEF TableLoop
<1>6. CASE TableNext
  <2>1. /\ E' = E /\ pc = "entries"
        /\ \/ pc' = "entries" /\ i' = i + 1 /\ i + 1 < TwoTo[wsize]
           \/ pc' \in {"scan", "cleanup"}
    BY <1>6 DEF TableNext, Made, Fail, caller
  <2>2. i + 1 < TwoTo[wsize] => i + 1 \in (FirstEntry + 1)..(TwoTo[wsize] - 1)
    BY <1>2, <2>1, WindowSizes DEF TableLoop
  <2> QED BY <1>2, <2>1, <2>2, SameExponent DEF TableLoop
<1>7. CASE pc' \notin {"table", "entries"}
  BY <1>7 DEF TableLoop
<1>8. Next => First \/ TableFirst \/ TableNext \/ pc' \notin {"table", "entries"}
  BY DEF Next, Call, Enter, Precompute, TakeCached, SkipZero, SquareZero, AddBit,
     FullWindow, Read, EndOfBits, Remaining, Finish, Cleanup, Return, FreeCache,
     Fail
<1> QED BY <1>2, <1>3, <1>4, <1>5, <1>6, <1>7, <1>8

LEMMA TemporariesAreOwned ==
  /\ Len(Temps) \in Nat
  /\ \A n \in Nat : n <= Len(Temps) =>
       Taken(n) \subseteq {Entry(1), Temp("T"), Temp("Apos")}
<1> DEFINE S == {Entry(1), Temp("T"), Temp("Apos")}
<1>1. <<Entry(1), Temp("T")>> \in Seq(S)
      /\ (IF sign = -1 THEN <<Temp("Apos")>> ELSE <<>>) \in Seq(S)
  <2>1. ASSUME NEW a \in S, NEW b \in S, NEW c \in S
        PROVE  <<a, b>> \in Seq(S) /\ <<c>> \in Seq(S) /\ <<>> \in Seq(S)
    <3> HIDE DEF S
    <3> QED OBVIOUS
  <2>2. Entry(1) \in S /\ Temp("T") \in S /\ Temp("Apos") \in S
    OBVIOUS
  <2> HIDE DEF S
  <2>3. <<Entry(1), Temp("T")>> \in Seq(S)
    BY <2>1, <2>2
  <2>4. <<Temp("Apos")>> \in Seq(S) /\ <<>> \in Seq(S)
    BY <2>1, <2>2
  <2> QED BY <2>3, <2>4
<1> HIDE DEF S
<1>2. Temps \in Seq(S)
  BY <1>1 DEF Temps
<1>3. Len(Temps) \in Nat /\ \A k \in 1..Len(Temps) : Temps[k] \in S
  BY <1>2
<1> QED BY <1>3 DEF Taken, S

LEMMA MemoryIsInductive ==
  /\ Init => MemoryInv
  /\ CallInv /\ TableLoop /\ MemoryInv /\ [Next]_vars => MemoryInv'
<1>1. Init => MemoryInv
  BY DEF Init, MemoryInv, Working
<1>2. SUFFICES ASSUME CallInv, TableLoop, MemoryInv, [Next]_vars
               PROVE  MemoryInv'
  BY <1>1
<1>3. CASE UNCHANGED vars
  <2>1. E' = E
    BY <1>3 DEF vars, caller
  <2> QED BY <1>2, <1>3, <2>1, SameExponent
      DEF MemoryInv, vars, caller, numbers, reading
<1>4. CASE Call \/ Return
  BY <1>2, <1>4 DEF MemoryInv, Call, Return, Working
<1>5. CASE FreeCache
  BY <1>2, <1>5 DEF MemoryInv, FreeCache, Working
<1>6. CASE Enter
  <2>1. E' = E /\ cache' = cache /\ pc = "enter"
        /\ pc' \in {"square", "cleanup"}
    BY <1>6 DEF Enter, Fail, caller
  <2>2. \E n \in Nat : n <= Len(Temps) /\ blocks' = blocks \cup Taken(n)
    BY <1>6, TemporariesAreOwned DEF Enter, Fail
  <2>3. blocks' \subseteq Owned /\ blocks \subseteq blocks'
    BY <1>2, <2>1, <2>2, TemporariesAreOwned DEF MemoryInv, Owned
  <2> QED BY <1>2, <2>1, <2>3 DEF MemoryInv, Working
<1>7. CASE Precompute
  <2>1. E' = E /\ pc = "square" /\ pc' \in {"first", "cleanup"}
    BY <1>7 DEF Precompute, Fail, caller
  <2>2. \E got \in SUBSET {Temp("RR")} :
          /\ blocks' = blocks \cup got
          /\ cache' = cache \/ Temp("RR") \in got
    BY <1>7 DEF Precompute, Fail
  <2> QED BY <1>2, <2>1, <2>2, SameExponent DEF MemoryInv, Working, Owned
<1>8. CASE TakeCached
  <2>1. E' = E
    BY <1>8 DEF TakeCached, caller
  <2> QED BY <1>2, <1>8, <2>1, SameExponent DEF MemoryInv, TakeCached, Working
<1>9. CASE First
  <2>1. E' = E
    BY <1>9 DEF First, Fail, caller
  <2> QED BY <1>2, <1>9, <2>1, SameExponent DEF MemoryInv, First, Fail, Working
<1>10. CASE TableFirst \/ TableNext
  <2>1. /\ E' = E /\ cache' = cache /\ pc \in Working /\ pc' \in Working
        /\ \/ blocks' = blocks
           \/ blocks' = blocks \cup {Entry(IF pc = "table" THEN FirstEntry ELSE i)}
    BY <1>10 DEF TableFirst, TableNext, Made, Fail, Working, caller
  <2>2. (IF pc = "table" THEN FirstEntry ELSE i) \in FirstEntry..(TwoTo[wsize] - 1)
    <3>1. pc \in {"table", "entries"}
      BY <1>10 DEF TableFirst, TableNext
    <3>2. pc = "table" => FirstEntry \in FirstEntry..(TwoTo[wsize] - 1)
      BY WindowSizes
    <3>3. pc = "entries" => i \in FirstEntry..(TwoTo[wsize] - 1)
      BY <1>2, WindowSizes DEF TableLoop
    <3> QED BY <3>1, <3>2, <3>3
  <2>3. blocks' \subseteq Freed_table \cup Owned
    BY <1>2, <2>1, <2>2 DEF MemoryInv, Freed_table
  <2> QED BY <1>2, <2>1, <2>3, SameExponent DEF MemoryInv, Working, Owned
<1>11. CASE SkipZero \/ SquareZero \/ AddBit \/ FullWindow
  <2>1. E' = E
    BY <1>11 DEF SkipZero, SquareZero, AddBit, FullWindow, Read, caller
  <2> QED BY <1>2, <1>11, <2>1, SameExponent
      DEF MemoryInv, SkipZero, SquareZero, AddBit, FullWindow, Read, Working
<1>12. CASE EndOfBits \/ Remaining \/ Finish
  <2>1. E' = E
    BY <1>12 DEF EndOfBits, Remaining, Finish, Fail, caller
  <2> QED BY <1>2, <1>12, <2>1, SameExponent
      DEF MemoryInv, EndOfBits, Remaining, Finish, Fail, Working
<1>13. CASE Cleanup
  <2>1. /\ pc = "cleanup" /\ pc' = "returned" /\ cache' = cache
        /\ blocks' = blocks \ Freed
    BY <1>13 DEF Cleanup
  <2>2. blocks \subseteq Freed_table \cup Owned
    BY <1>2, <2>1 DEF MemoryInv, Working
  <2>3. Temp("RR") \notin Freed_table \cup {Entry(1), Temp("T"), Temp("Apos")}
    BY DEF Freed_table, Temp, Entry
  <2>4. Missing <=> cache = None
    BY <1>2 DEF CallInv, Missing
  <2>5. CASE cache = None
    BY <1>2, <2>1, <2>2, <2>4, <2>5 DEF MemoryInv, Freed, Owned, Working
  <2>6. CASE cache # None
    BY <1>2, <2>1, <2>2, <2>3, <2>4, <2>6 DEF MemoryInv, Freed, Owned, Working
  <2> QED BY <2>5, <2>6
<1> QED BY <1>2, <1>3, <1>4, <1>5, <1>6, <1>7, <1>8, <1>9, <1>10, <1>11, <1>12,
     <1>13 DEF Next

(***************************************************************************)
(* A call frees what it took, and the limbs of R^2 stay as long as the     *)
(* cache refers to them (bignum.c:1594-1598, 1729-1737; srp.c:147).        *)
(***************************************************************************)
THEOREM CacheKeepsItsLimbs == Spec => []CacheOwnsItsLimbs
<1> DEFINE Memory == CallInv /\ TableLoop /\ MemoryInv
<1>1. Init => Memory
  BY CallsAreInductive, TableLoopIsInductive, MemoryIsInductive
<1>2. Memory /\ [Next]_vars => Memory'
  BY CallsAreInductive, TableLoopIsInductive, MemoryIsInductive
<1>3. Memory => CacheOwnsItsLimbs
  BY DEF MemoryInv, CacheOwnsItsLimbs
<1> QED BY <1>1, <1>2, <1>3, PTL DEF Spec
----------------------------------------------------------------------------
(* The table. *)

LEMMA PowersAreNumbers ==
  /\ \A k \in Nat : Power(k) \in Number /\ Power(k) # None
  /\ RSquared \in Number /\ RSquared # None
<1>1. (\A k \in Nat : Power(k) \in Number) /\ RSquared \in Number
  BY DEF Power, RSquared, Number
<1> QED BY <1>1, NoneAssumption

\* An entry is made.
LEMMA EntryIsMade ==
  ASSUME TableInv, NEW k \in Table, W' = [W EXCEPT ![k] = Power(k)]
  PROVE  /\ W' \in [Table -> Number \cup {None}]
         /\ \A j \in Table : W'[j] \in {None, Power(j)}
         /\ W'[k] # None
         /\ \A j \in Table : W[j] # None => W'[j] # None
<1>1. k \in Nat /\ Power(k) \in Number /\ Power(k) # None
  BY PowersAreNumbers DEF Table
<1>2. /\ W \in [Table -> Number \cup {None}]
      /\ \A j \in Table : W[j] \in {None, Power(j)}
  BY DEF TableInv
<1> QED BY <1>1, <1>2

LEMMA TableIsInductive ==
  /\ Init => TableInv
  /\ CallInv /\ TableLoop /\ TableInv /\ [Next]_vars => TableInv'
<1>1. Init => TableInv
  BY DEF Init, TableInv
<1>2. SUFFICES ASSUME CallInv, TableLoop, TableInv, [Next]_vars PROVE TableInv'
  BY <1>1
<1>3. 1 \in Table
  BY DEF Table
<1>4. ASSUME W' = W, E' = E, RR' = RR, cache' \in {cache, None, RSquared},
             \/ pc' = pc /\ i' = i
             \/ pc = "scan" /\ pc' = "remaining"
             \/ pc' \in {"idle", "enter", "square", "cleanup", "returned"}
      PROVE  TableInv'
  BY <1>2, <1>4, SameExponent DEF TableInv
<1>5. CASE UNCHANGED vars
  BY <1>4, <1>5 DEF vars, caller, numbers
<1>6. CASE Call \/ FreeCache
  <2>1. /\ W' = W /\ RR' = RR /\ cache' \in {cache, None}
        /\ pc' \in {"idle", "enter"}
    BY <1>6 DEF Call, FreeCache, numbers
  <2> QED BY <1>2, <2>1 DEF TableInv
<1>7. CASE Enter \/ Cleanup \/ EndOfBits
  BY <1>4, <1>7 DEF Enter, Cleanup, EndOfBits, Fail, caller, numbers
<1>8. CASE Precompute
  <2>1. CASE Fail({}) \/ Fail({Temp("RR")})
    BY <1>4, <2>1 DEF Fail, caller, numbers
  <2>2. CASE RR' = RSquared /\ cache' \in {cache, RR'} /\ W' = W /\ pc' = "first"
    BY <1>2, <2>2 DEF TableInv
  <2> QED BY <1>8, <2>1, <2>2 DEF Precompute, RSquared
<1>9. CASE TakeCached
  <2>1. RR' = cache /\ cache # None /\ cache' = cache /\ W' = W /\ pc' = "first"
    BY <1>9 DEF TakeCached, Missing
  <2> QED BY <1>2, <2>1 DEF TableInv
<1>10. CASE First
  <2>1. CASE Fail({})
    BY <1>4, <2>1 DEF Fail, caller, numbers
  <2>2. CASE ~Fail({})
    <3>1. /\ W' = [W EXCEPT ![1] = montmul([e |-> 1, r |-> 0, s |-> 1], RR)]
          /\ cache' = cache /\ E' = E /\ pc = "first"
          /\ pc' = IF wsize > 1 THEN "table" ELSE "scan"
      BY <1>10, <2>2 DEF First, caller
    <3>2. montmul([e |-> 1, r |-> 0, s |-> 1], RR) = Power(1)
      BY <1>2, <3>1 DEF TableInv, montmul, Power, RSquared
    <3>3. /\ W' \in [Table -> Number \cup {None}]
          /\ \A j \in Table : W'[j] \in {None, Power(j)}
          /\ W'[1] # None
      BY <1>2, <1>3, <3>1, <3>2, EntryIsMade
    <3>4. wsize <= 1 => FirstEntry..(TwoTo[wsize] - 1) = {1}
      BY WindowSizes, SmallPowersOfTwo
    <3>5. wsize <= 1 => \A k \in FirstEntry..(TwoTo[wsize] - 1) : W'[k] # None
      BY <3>3, <3>4
    <3>6. pc' = "table" \/ (pc' = "scan" /\ wsize <= 1)
      BY <3>1, WindowSizes
    <3> QED BY <1>2, <3>1, <3>3, <3>5, <3>6, SameExponent DEF TableInv
  <2> QED BY <2>1, <2>2
<1>11. CASE TableFirst
  <2>1. CASE Fail({})
    BY <1>4, <2>1 DEF Fail, caller, numbers
  <2>2. CASE ~Fail({})
    <3>1. /\ W' = [W EXCEPT ![FirstEntry] = Squared(W[1], wsize - 1)]
          /\ cache' = cache /\ E' = E /\ pc = "table" /\ pc' = "entries"
          /\ i' = FirstEntry + 1
      BY <1>11, <2>2 DEF TableFirst, Made, caller
    <3>2. Squared(W[1], wsize - 1) = Power(FirstEntry)
      <4>1. W[1] = Power(1)
        BY <1>2, <1>3, <3>1 DEF TableInv
      <4>2. Squared(Power(1), wsize - 1) = Power(1 * FirstEntry)
        BY WindowSizes, SquaredPower DEF FirstEntry
      <4> QED BY <4>1, <4>2, WindowSizes
    <3>3. /\ W' \in [Table -> Number \cup {None}]
          /\ \A j \in Table : W'[j] \in {None, Power(j)}
          /\ W'[FirstEntry] # None /\ W'[1] # None
      <4>1. FirstEntry \in Table
        BY WindowSizes DEF Table
      <4>2. W[1] # None
        BY <1>2, <3>1 DEF TableInv
      <4> HIDE DEF FirstEntry
      <4> QED BY <1>2, <1>3, <3>1, <3>2, <4>1, <4>2, EntryIsMade
    <3>4. FirstEntry..(i' - 1) = {FirstEntry}
      BY <3>1, WindowSizes
    <3> QED BY <1>2, <3>1, <3>3, <3>4, SameExponent DEF TableInv
  <2> QED BY <2>1, <2>2
<1>12. CASE TableNext
  <2>1. CASE Fail({})
    BY <1>4, <2>1 DEF Fail, caller, numbers
  <2>2. CASE ~Fail({})
    <3>1. /\ W' = [W EXCEPT ![i] = montmul(W[i - 1], W[1])]
          /\ cache' = cache /\ E' = E /\ pc = "entries" /\ i' = i + 1
          /\ pc' = IF i + 1 < TwoTo[wsize] THEN "entries" ELSE "scan"
      BY <1>12, <2>2 DEF TableNext, Made, caller
    <3>2. /\ i \in (FirstEntry + 1)..(TwoTo[wsize] - 1)
          /\ i \in Table /\ i - 1 \in Table /\ i - 1 \in FirstEntry..(i - 1)
          /\ i - 1 \in Nat
      <4>1. i \in (FirstEntry + 1)..(TwoTo[wsize] - 1)
        BY <1>2, <3>1 DEF TableLoop
      <4> QED BY <4>1, WindowSizes DEF Table
    <3>3. montmul(W[i - 1], W[1]) = Power(i)
      <4>1. W[1] = Power(1) /\ W[i - 1] = Power(i - 1)
        BY <1>2, <1>3, <3>1, <3>2 DEF TableInv
      <4>2. montmul(Power(i - 1), Power(1)) = Power((i - 1) + 1)
        BY <3>2, PowersMultiply
      <4>3. (i - 1) + 1 = i
        BY <3>2 DEF Table
      <4> QED BY <4>1, <4>2, <4>3
    <3>4. /\ W' \in [Table -> Number \cup {None}]
          /\ \A j \in Table : W'[j] \in {None, Power(j)}
          /\ W'[i] # None /\ W'[1] # None
          /\ \A j \in Table : W[j] # None => W'[j] # None
      BY <1>2, <1>3, <3>1, <3>2, <3>3, EntryIsMade DEF TableInv
    <3>5. \A k \in FirstEntry..i : W'[k] # None
      <4> SUFFICES ASSUME NEW k \in FirstEntry..i PROVE W'[k] # None
        OBVIOUS
      <4>1. k = i \/ (k \in FirstEntry..(i - 1) /\ k \in Table)
        BY <3>2, WindowSizes DEF Table
      <4> QED BY <1>2, <3>1, <3>4, <4>1 DEF TableInv
    <3>6. /\ FirstEntry..(i' - 1) = FirstEntry..i
          /\ ~(i + 1 < TwoTo[wsize]) =>
               FirstEntry..(TwoTo[wsize] - 1) = FirstEntry..i
      BY <3>1, <3>2, WindowSizes DEF Table
    <3> QED BY <1>2, <3>1, <3>4, <3>5, <3>6, SameExponent DEF TableInv
  <2> QED BY <2>1, <2>2
<1>13. CASE SkipZero \/ SquareZero \/ AddBit \/ FullWindow
  BY <1>4, <1>13 DEF SkipZero, SquareZero, AddBit, FullWindow, Read, caller
<1>14. CASE Remaining \/ Finish
  <2>1. /\ W' = W /\ RR' = RR /\ cache' = cache /\ E' = E
        /\ pc' \in {pc, "cleanup"} /\ pc = "remaining"
    BY <1>14 DEF Remaining, Finish, Fail, caller, numbers
  <2> QED BY <1>2, <2>1, SameExponent DEF TableInv
<1>15. CASE Return
  BY <1>2, <1>15 DEF TableInv, Return
<1> QED BY <1>2, <1>5, <1>6, <1>7, <1>8, <1>9, <1>10, <1>11, <1>12, <1>13,
     <1>14, <1>15 DEF Next
----------------------------------------------------------------------------
(* The bits of the exponent. *)

LEMMA ExponentsAreNumbers ==
  ASSUME E \in Exponents
  PROVE  E.p \in Seq(Limbs) /\ Len(E.p) \in Nat /\ Magnitude(E.p) \in Nat
<1>1. E.p \in Seq(Limbs)
  BY ExponentsAssumption
<1> QED BY <1>1, MagnitudeIsNatural, LimbsAreNatural

Place(l, b) == l * biL + b

LEMMA BitIsRead ==
  ASSUME E \in Exponents, nblimbs \in 0..Len(E.p), bufsize \in 0..(biL - 1),
         bufsize > 0 => nblimbs < Len(E.p), ~AtEnd
  PROVE  /\ limb \in 0..(Len(E.p) - 1) /\ bit \in 0..(biL - 1)
         /\ ei \in {0, 1} /\ Prefix \in Nat
         /\ Magnitude(E.p) \div TwoTo[Place(limb, bit)] = 2 * Prefix + ei
<1> DEFINE n == Len(E.p)
           M == Magnitude(E.p)
           next == Place(limb, bit)
<1>1. E.p \in Seq(Limbs) /\ n \in Nat /\ M \in Nat
  BY ExponentsAreNumbers
<1>2. limb \in 0..(n - 1) /\ bit \in 0..(biL - 1)
  BY <1>1, BaseIsPositive DEF limb, bit, AtEnd
<1>3. next \in Nat /\ Place(nblimbs, bufsize) = next + 1
  <2>1. limb * biL \in Nat
    BY <1>1, <1>2, BaseIsPositive
  <2>2. next \in Nat
    BY <1>2, <2>1, BaseIsPositive DEF Place
  <2>3. CASE bufsize = 0
    <3>1. nblimbs * biL = (nblimbs - 1) * biL + biL
      BY BaseIsPositive
    <3>2. (nblimbs - 1) * biL \in Int
      BY BaseIsPositive
    <3> QED BY <2>2, <2>3, <3>1, <3>2, BaseIsPositive DEF Place, limb, bit
  <2>4. CASE bufsize # 0
    BY <2>1, <2>2, <2>4 DEF Place, limb, bit
  <2> QED BY <2>3, <2>4
<1>4. ei = (M \div TwoTo[next]) % 2
  BY <1>1, <1>2, BitOfMagnitude DEF ei, Place
<1>5. Prefix = M \div TwoTo[next + 1]
  BY <1>3 DEF Prefix, Place
<1> HIDE DEF n, M, next
<1>6. Prefix \in Nat /\ M \div TwoTo[next] = 2 * Prefix + ei
  BY <1>1, <1>3, <1>4, <1>5, NextBit
<1>7. ei \in {0, 1}
  <2> DEFINE q == M \div TwoTo[next]
  <2>1. q \in Int
    <3>1. TwoTo[next] \in Nat \ {0}
      BY <1>3, TwoToAt
    <3> QED BY <1>1, <3>1
  <2> HIDE DEF q
  <2>2. q % 2 \in {0, 1}
    BY <2>1
  <2> QED BY <1>4, <2>2 DEF q
<1> QED BY <1>2, <1>6, <1>7 DEF n, M, next

LEMMA PrefixGrows ==
  ASSUME E \in Exponents, ScanInv, Read
  PROVE  /\ nblimbs' \in 0..Len(E.p) /\ bufsize' \in 0..(biL - 1)
         /\ bufsize' > 0 => nblimbs' < Len(E.p)
         /\ E' = E /\ ei \in {0, 1} /\ Prefix \in Nat
         /\ Prefix' = 2 * Prefix + ei
<1>1. /\ limb \in 0..(Len(E.p) - 1) /\ bit \in 0..(biL - 1)
      /\ ei \in {0, 1} /\ Prefix \in Nat
      /\ Magnitude(E.p) \div TwoTo[Place(limb, bit)] = 2 * Prefix + ei
  BY BitIsRead DEF ScanInv, Read
<1>2. nblimbs' = limb /\ bufsize' = bit /\ E' = E
  BY DEF Read, caller
<1>3. Prefix' = Magnitude(E.p) \div TwoTo[Place(limb, bit)]
  BY <1>2 DEF Prefix, Place
<1>4. limb \in 0..Len(E.p) /\ limb < Len(E.p)
  BY <1>1, ExponentsAreNumbers
<1> QED BY <1>1, <1>2, <1>3, <1>4
----------------------------------------------------------------------------
(* The window. *)

Pending(v) ==
  /\ v \in 0..(TwoTo[win.nbits] - 1)
  /\ Window(v)

LEMMA WindowIsTyped ==
  ASSUME ScanInv
  PROVE  /\ win.state \in 0..2 /\ win.nbits \in 0..(wsize - 1) /\ win.wbits \in Nat
         /\ wsize - win.nbits \in Nat /\ wsize - win.nbits - 1 \in Nat
         /\ win.nbits + 1 \in Nat /\ X = Power(X.e) /\ X.e \in Nat
<1>1. win.state \in 0..2 /\ win.nbits \in 0..(wsize - 1) /\ win.wbits \in Nat
  BY DEF ScanInv
<1> QED BY <1>1, WindowSizes DEF ScanInv

\* A bit that joins the window.
LEMMA WindowTakesBit ==
  ASSUME ScanInv, ei \in {0, 1}, Prefix \in Nat, Joins, NEW v, Pending(v)
  PROVE  /\ 2 * v + ei \in TwoTo[win.nbits]..(TwoTo[win.nbits + 1] - 1)
         /\ Widened(win).wbits = (2 * v + ei) * TwoTo[wsize - (win.nbits + 1)]
         /\ X.e * TwoTo[win.nbits + 1] + (2 * v + ei) = 2 * Prefix + ei
<1> DEFINE n == win.nbits
           t == TwoTo[n]
           c == TwoTo[wsize - n - 1]
           e == X.e
           b == ei
<1>1. n \in Nat /\ wsize - n - 1 \in Nat /\ e \in Nat /\ win.wbits \in Nat
      /\ wsize - n = (wsize - n - 1) + 1 /\ wsize - (n + 1) = wsize - n - 1
      /\ wsize \in Int
  BY WindowIsTyped, WindowSizes
<1>2. t \in Nat \ {0} /\ TwoTo[n + 1] = 2 * t
  BY <1>1, TwoToAt
<1>3. c \in Nat \ {0} /\ TwoTo[wsize - n] = 2 * c
  BY <1>1, TwoToAt
<1>4. v \in 0..(t - 1) /\ win.wbits = v * (2 * c) /\ e * t + v = Prefix
  BY <1>3 DEF Pending, Window
<1>5. 2 * v + b \in t..(2 * t - 1)
  <2>1. CASE n = 0
    <3>1. t = 1
      BY <2>1, TwoToIsDefined
    <3>2. b = 1
      BY <2>1 DEF ScanInv, Joins
    <3> QED BY <1>4, <3>1, <3>2
  <2>2. CASE n # 0
    <3> DEFINE h == TwoTo[n - 1]
    <3>1. n > 0 /\ n - 1 \in Nat /\ (n - 1) + 1 = n
      BY <1>1, <2>2
    <3>2. h \in Nat /\ t = 2 * h
      BY <3>1, TwoToAt
    <3>3. v >= h
      BY <3>1 DEF Pending, Window
    <3> HIDE DEF h, t, n, b
    <3> QED BY <1>2, <1>4, <3>2, <3>3 DEF b
  <2> QED BY <2>1, <2>2
<1>6. Widened(win).wbits = (2 * v + b) * c
  <2>1. Widened(win).wbits = win.wbits + b * c
    BY DEF Widened
  <2> HIDE DEF b, c, t, n, e
  <2>2. v * (2 * c) + b * c = (2 * v + b) * c
    BY <1>3, <1>4 DEF b
  <2> QED BY <1>4, <2>1, <2>2
<1>7. e * (2 * t) + (2 * v + b) = 2 * Prefix + b
  <2> HIDE DEF b, c, t, n, e
  <2>1. e * (2 * t) = 2 * (e * t) /\ e * t \in Nat
    BY <1>1, <1>2
  <2> QED BY <1>4, <2>1 DEF b
<1> QED BY <1>1, <1>2, <1>5, <1>6, <1>7

LEMMA ScanStays ==
  ASSUME ScanInv, E' = E, X' = X, UNCHANGED reading
  PROVE  ScanInv'
<1>1. nblimbs' = nblimbs /\ bufsize' = bufsize /\ win' = win
  BY DEF reading
<1>2. Prefix' = Prefix /\ wsize' = wsize
  BY <1>1, SameExponent DEF Prefix
<1>3. (\E v \in 0..(TwoTo[win.nbits] - 1) : Window(v))'
  BY <1>1, <1>2 DEF ScanInv, Window
<1> QED BY <1>1, <1>2, <1>3 DEF ScanInv

LEMMA ScanIsInductive ==
  /\ Init => Scanning
  /\ CallInv /\ TableInv /\ Scanning /\ [Next]_vars => Scanning'
<1>1. Init => Scanning
  BY DEF Init, Scanning
<1>2. SUFFICES ASSUME CallInv, TableInv, Scanning, [Next]_vars,
                      pc' \in {"table", "entries", "scan"}
               PROVE  ScanInv'
  BY <1>1 DEF Scanning
<1>3. CASE UNCHANGED vars
  <2>1. pc' = pc /\ E' = E /\ X' = X /\ UNCHANGED reading
    BY <1>3 DEF vars, caller, numbers
  <2> QED BY <1>2, <2>1, ScanStays DEF Scanning
<1>4. CASE First
  <2>1. /\ E' = E /\ X' = montred(RR) /\ nblimbs' = Len(E.p) /\ bufsize' = 0
        /\ win' = Closed /\ pc = "first"
    BY <1>2, <1>4 DEF First, Fail, caller
  <2>2. E \in Exponents /\ RR = RSquared
    BY <1>2, <2>1 DEF CallInv, TableInv
  <2>3. X' = Power(0) /\ Power(0).e = 0
    BY <2>1, <2>2 DEF montred, RSquared, Power
  <2>4. Prefix' = 0
    <3> DEFINE p == E.p
               n == Len(p)
    <3>1. p \in Seq(Limbs) /\ n \in 0..n /\ n - n = 0 /\ n * biL + 0 = n * biL
      BY <2>2, ExponentsAreNumbers, BaseIsPositive
    <3>2. Magnitude(p) \div TwoTo[n * biL] = TopLimbs(p)[0]
      BY <3>1, QuotientOfMagnitude
    <3>3. TopLimbs(p)[0] = 0
      BY <3>1, TopLimbsAreDefined
    <3> QED BY <2>1, <3>1, <3>2, <3>3 DEF Prefix
  <2>5. wsize' = wsize
    BY <2>1, SameExponent
  <2>6. /\ win' \in [state : 0..2, nbits : 0..(wsize - 1), wbits : Nat]
        /\ win'.state = 0 /\ win'.nbits = 0 /\ win'.wbits = 0
    BY <2>1, WindowSizes DEF Closed
  <2>7. nblimbs' \in 0..Len(E.p) /\ bufsize' \in 0..(biL - 1)
    BY <2>1, <2>2, ExponentsAreNumbers, BaseIsPositive
  <2>8. 0 \in 0..(TwoTo[win'.nbits] - 1) /\ Window(0)'
    <3>1. TwoTo[0] = 1 /\ wsize - 0 \in Nat /\ TwoTo[wsize - 0] \in Nat
      <4>1. wsize - 0 \in Nat
        BY WindowSizes
      <4> QED BY <4>1, TwoToAt, TwoToIsDefined
    <3> QED BY <2>3, <2>4, <2>5, <2>6, <3>1 DEF Window
  <2> QED BY <2>1, <2>3, <2>5, <2>6, <2>7, <2>8 DEF ScanInv
<1>5. CASE TableFirst \/ TableNext
  <2>1. pc \in {"table", "entries"} /\ E' = E /\ X' = X /\ UNCHANGED reading
    BY <1>2, <1>5 DEF TableFirst, TableNext, Made, Fail, caller
  <2> QED BY <1>2, <2>1, ScanStays DEF Scanning
<1>6. CASE SkipZero \/ SquareZero \/ AddBit \/ FullWindow
  <2>1. Read /\ pc = "scan" /\ ScanInv /\ E \in Exponents
    BY <1>2, <1>6
    DEF SkipZero, SquareZero, AddBit, FullWindow, Read, Scanning, CallInv
  <2>2. /\ nblimbs' \in 0..Len(E'.p) /\ bufsize' \in 0..(biL - 1)
        /\ bufsize' > 0 => nblimbs' < Len(E'.p)
    BY <2>1, PrefixGrows
  <2>3. /\ ei \in {0, 1} /\ Prefix \in Nat /\ Prefix' = 2 * Prefix + ei
        /\ wsize' = wsize
    BY <2>1, PrefixGrows, SameExponent
  <2>4. PICK v : Pending(v)
    BY <2>1 DEF ScanInv, Pending
  <2>5. /\ win.state \in 0..2 /\ win.nbits \in 0..(wsize - 1) /\ win.wbits \in Nat
        /\ wsize - win.nbits \in Nat /\ X = Power(X.e) /\ X.e \in Nat
        /\ (win.state = 2 <=> win.nbits > 0) /\ (win.state = 0 => X.e = 0)
    BY <2>1, WindowIsTyped DEF ScanInv
  <2>6. TwoTo[0] = 1 /\ TwoTo[wsize] \in Nat /\ wsize - 0 = wsize
    BY WindowSizes, TwoToIsDefined
  <2>7. CASE SkipZero \/ SquareZero
    <3>1. ei = 0 /\ win.state \in {0, 1} /\ win' = win /\ win.nbits = 0
      BY <2>3, <2>5, <2>7 DEF SkipZero, SquareZero, Joins
    <3>2. v = 0 /\ win.wbits = 0 /\ X.e = Prefix
      <4>1. v \in 0..(TwoTo[0] - 1) /\ win.wbits = v * TwoTo[wsize - 0]
            /\ X.e * TwoTo[0] + v = Prefix
        BY <2>4, <3>1 DEF Pending, Window
      <4>2. v = 0 /\ win.wbits = 0 * TwoTo[wsize] /\ X.e * 1 + 0 = Prefix
        BY <2>6, <4>1
      <4>3. X.e \in Nat
        BY <2>5
      <4> QED BY <2>6, <4>2, <4>3
    <3>3. X' = Power(2 * X.e)
      <4>1. CASE SkipZero
        <5>1. X' = X /\ X.e = 0
          BY <2>5, <4>1 DEF SkipZero
        <5>2. 2 * X.e = X.e
          BY <5>1
        <5> QED BY <2>5, <5>1, <5>2
      <4>2. CASE SquareZero
        <5>1. montmul(Power(X.e), Power(X.e)) = Power(X.e + X.e) /\ X.e + X.e = 2 * X.e
          <6>1. X.e \in Nat
            BY <2>5
          <6> QED BY <6>1, PowersMultiply
        <5> QED BY <2>5, <4>2, <5>1 DEF SquareZero
      <4> QED BY <2>7, <4>1, <4>2
    <3>4. X'.e = 2 * X.e /\ X'.e \in Nat
      BY <2>5, <3>3 DEF Power
    <3>5. win'.state = 0 => X'.e = 0
      BY <2>5, <3>1, <3>4
    <3>6. 0 \in 0..(TwoTo[win'.nbits] - 1) /\ Window(0)'
      BY <2>3, <2>6, <3>1, <3>2, <3>4 DEF Window
    <3>7. /\ win' \in [state : 0..2, nbits : 0..(wsize - 1), wbits : Nat]
          /\ (win'.state = 2 <=> win'.nbits > 0)
      BY <2>1, <3>1 DEF ScanInv
    <3> QED BY <2>2, <2>3, <3>3, <3>4, <3>5, <3>6, <3>7 DEF ScanInv
  <2>8. CASE AddBit
    <3>1. Joins /\ win' = Widened(win) /\ X' = X /\ win.nbits + 1 < wsize
      BY <2>8 DEF AddBit
    <3>0. PICK w : w = 2 * v + ei
      OBVIOUS
    <3>2. /\ w \in TwoTo[win.nbits]..(TwoTo[win.nbits + 1] - 1)
          /\ Widened(win).wbits = w * TwoTo[wsize - (win.nbits + 1)]
          /\ X.e * TwoTo[win.nbits + 1] + w = 2 * Prefix + ei
      BY <2>1, <2>3, <2>4, <3>0, <3>1, WindowTakesBit
    <3>3. /\ win'.state = 2 /\ win'.nbits = win.nbits + 1
          /\ win'.wbits = Widened(win).wbits
          /\ win' = [state |-> 2, nbits |-> win.nbits + 1, wbits |-> win'.wbits]
      BY <3>1 DEF Widened
    <3>4. /\ TwoTo[win.nbits] \in Nat /\ TwoTo[win.nbits + 1] \in Nat
          /\ TwoTo[wsize - (win.nbits + 1)] \in Nat
      <4>1. win.nbits \in Nat /\ win.nbits + 1 \in Nat
            /\ wsize - (win.nbits + 1) \in Nat
        BY <2>5, <3>1, WindowSizes
      <4> QED BY <4>1, TwoToAt
    <3>5. w \in 0..(TwoTo[win'.nbits] - 1) /\ w \in Nat
      BY <3>2, <3>3, <3>4
    <3>6. win'.wbits \in Nat /\ win'.nbits \in 1..(wsize - 1)
      <4>1. w * TwoTo[wsize - (win.nbits + 1)] \in Nat
        BY <3>4, <3>5
      <4> QED BY <2>5, <3>1, <3>2, <3>3, <4>1, WindowSizes
    <3>7. Window(w)'
      <4>1. win'.nbits - 1 = win.nbits
        BY <2>5, <3>3
      <4>2. w >= TwoTo[win.nbits]
        BY <3>2, <3>4
      <4> QED BY <2>3, <3>1, <3>2, <3>3, <4>1, <4>2 DEF Window
    <3>8. win' \in [state : 0..2, nbits : 0..(wsize - 1), wbits : Nat]
      BY <3>3, <3>6
    <3>9. (\E u \in 0..(TwoTo[win.nbits] - 1) : Window(u))'
      BY <3>5, <3>7
    <3>10. /\ X' = Power(X'.e) /\ X'.e \in Nat
           /\ (win'.state = 2 <=> win'.nbits > 0)
           /\ (win'.state = 0 => X'.e = 0)
      BY <2>5, <3>1, <3>3, <3>6
    <3> QED BY <2>2, <2>3, <3>8, <3>9, <3>10 DEF ScanInv
  <2>9. CASE FullWindow
    <3>1. /\ Joins /\ win' = Emptied /\ win.nbits + 1 = wsize
          /\ X' = IF W[Widened(win).wbits] = None THEN None
                  ELSE montmul(Squared(X, wsize), W[Widened(win).wbits])
      BY <2>9 DEF FullWindow
    <3> DEFINE w == 2 * v + ei
    <3>2. /\ w \in TwoTo[win.nbits]..(TwoTo[wsize] - 1)
          /\ Widened(win).wbits = w * TwoTo[wsize - wsize]
          /\ X.e * TwoTo[wsize] + w = 2 * Prefix + ei
      BY <2>1, <2>3, <2>4, <3>1, WindowTakesBit
    <3> HIDE DEF w
    <3>3. w \in FirstEntry..(TwoTo[wsize] - 1) /\ w \in Table
      <4>1. win.nbits = wsize - 1
        BY <2>5, <3>1, WindowSizes
      <4> QED BY <3>2, <4>1, WindowSizes DEF FirstEntry, Table
    <3>4. w \in Nat /\ Widened(win).wbits = w
      <4>1. wsize - wsize = 0
        BY WindowSizes
      <4>2. w \in Nat
        BY <3>3 DEF Table
      <4> QED BY <2>6, <3>2, <4>1, <4>2
    <3>5. W[w] = Power(w) /\ W[w] # None
      BY <1>2, <2>1, <3>3 DEF TableInv
    <3>6. X' = Power(X.e * TwoTo[wsize] + w)
      <4>1. X.e * TwoTo[wsize] \in Nat
        BY <2>5, <2>6
      <4>2. Squared(X, wsize) = Power(X.e * TwoTo[wsize])
        <5>1. wsize \in Nat
          BY WindowSizes
        <5>2. Squared(Power(X.e), wsize) = Power(X.e * TwoTo[wsize])
          BY <2>5, <5>1, SquaredPower
        <5> QED BY <2>5, <5>2
      <4>3. montmul(Power(X.e * TwoTo[wsize]), Power(w))
              = Power(X.e * TwoTo[wsize] + w)
        BY <3>4, <4>1, PowersMultiply
      <4> QED BY <3>1, <3>4, <3>5, <4>2, <4>3
    <3>7. X' = Power(Prefix') /\ X'.e = Prefix' /\ Prefix' \in Nat
      BY <2>3, <3>2, <3>6 DEF Power
    <3>8. /\ win' \in [state : 0..2, nbits : 0..(wsize - 1), wbits : Nat]
          /\ win'.state = 1 /\ win'.nbits = 0 /\ win'.wbits = 0
      BY <3>1, WindowSizes DEF Emptied
    <3>9. 0 \in 0..(TwoTo[win'.nbits] - 1) /\ Window(0)'
      BY <2>3, <2>6, <3>7, <3>8 DEF Window
    <3> QED BY <2>2, <2>3, <3>7, <3>8, <3>9 DEF ScanInv
  <2> QED BY <1>6, <2>7, <2>8, <2>9
<1>7. Next => \/ First \/ TableFirst \/ TableNext
              \/ SkipZero \/ SquareZero \/ AddBit \/ FullWindow
              \/ pc' \notin {"table", "entries", "scan"}
  BY DEF Next, Call, Enter, Precompute, TakeCached, EndOfBits, Remaining, Finish,
     Cleanup, Return, FreeCache, Fail
<1> QED BY <1>2, <1>3, <1>4, <1>5, <1>6, <1>7
----------------------------------------------------------------------------
(* The bits of a window that did not fill up. *)

LEMMA EndingIsInductive ==
  /\ Init => Ending
  /\ CallInv /\ TableInv /\ Scanning /\ Ending /\ [Next]_vars => Ending'
<1>1. Init => Ending
  BY DEF Init, Ending
<1>2. SUFFICES ASSUME CallInv, TableInv, Scanning, Ending, [Next]_vars,
                      pc' = "remaining"
               PROVE  RemainingInv'
  BY <1>1 DEF Ending
<1>3. CASE UNCHANGED vars
  <2>1. E' = E /\ X' = X /\ win' = win /\ i' = i /\ pc = "remaining"
    BY <1>2, <1>3 DEF vars, caller, numbers, reading
  <2>2. RemainingInv /\ wsize' = wsize
    BY <1>2, <2>1, SameExponent DEF Ending
  <2>3. (\E v \in 0..(TwoTo[win.nbits] - 1) : Replayed(v))'
    BY <2>1, <2>2 DEF RemainingInv, Replayed
  <2> QED BY <2>1, <2>2, <2>3 DEF RemainingInv
<1>4. CASE EndOfBits
  <2>1. /\ pc = "scan" /\ AtEnd /\ i' = 0
        /\ E' = E /\ X' = X /\ win' = win
    BY <1>4 DEF EndOfBits, caller, numbers, reading
  <2>2. ScanInv /\ E \in Exponents /\ wsize' = wsize
    BY <1>2, <2>1, SameExponent DEF Scanning, CallInv
  <2>3. PICK v : Pending(v)
    BY <2>2 DEF ScanInv, Pending
  <2>4. Prefix = Magnitude(E.p)
    <3>1. nblimbs * biL + bufsize = 0
      BY <2>1, BaseIsPositive DEF AtEnd
    <3>2. Magnitude(E.p) \div 1 = Magnitude(E.p)
      BY <2>2, ExponentsAreNumbers
    <3> QED BY <3>1, <3>2, TwoToIsDefined DEF Prefix
  <2>5. /\ win.nbits \in 0..(wsize - 1) /\ wsize - win.nbits \in Nat
        /\ X = Power(X.e) /\ X.e \in Nat
    BY <2>2, WindowIsTyped
  <2>6. /\ win.nbits - i' = win.nbits
        /\ (wsize - win.nbits) + i' = wsize - win.nbits
        /\ i' \in 0..win.nbits
    BY <2>1, <2>5, WindowSizes
  <2>7. v \in 0..(TwoTo[win.nbits] - 1) /\ v % TwoTo[win.nbits] = v
    <3> DEFINE t == TwoTo[win.nbits]
    <3>1. t \in Nat \ {0} /\ v \in 0..(t - 1)
      BY <2>3, <2>5, TwoToAt DEF Pending
    <3> HIDE DEF t
    <3>2. v % t = v
      BY <3>1
    <3> QED BY <3>1, <3>2 DEF t
  <2>8. Replayed(v)'
    BY <2>1, <2>2, <2>3, <2>4, <2>6, <2>7 DEF Replayed, Pending, Window
  <2>9. (\E u \in 0..(TwoTo[win.nbits] - 1) : Replayed(u))'
    BY <2>1, <2>7, <2>8
  <2> QED BY <2>1, <2>2, <2>5, <2>6, <2>9 DEF RemainingInv, ScanInv
<1>5. CASE Remaining
  <2>1. /\ pc = "remaining" /\ i < win.nbits /\ i' = i + 1
        /\ win' = [win EXCEPT !.wbits = 2 * @]
        /\ X' = IF (win'.wbits \div TwoTo[wsize]) % 2 = 1
                THEN montmul(montmul(X, X), W[1]) ELSE montmul(X, X)
        /\ E' = E
    BY <1>5 DEF Remaining, caller
  <2>2. RemainingInv /\ wsize' = wsize /\ W[1] = Power(1)
    <3>1. 1 \in Table /\ 1 \in Nat
      BY DEF Table
    <3> QED BY <1>2, <2>1, <3>1, SameExponent DEF Ending, TableInv
  <2>3. PICK v \in 0..(TwoTo[win.nbits] - 1) : Replayed(v)
    BY <2>2 DEF RemainingInv
  <2>4. /\ win \in [state : 0..2, nbits : 0..(wsize - 1), wbits : Nat]
        /\ X = Power(X.e) /\ X.e \in Nat /\ i \in 0..win.nbits
    BY <2>2 DEF RemainingInv
  <2>5. /\ win'.nbits = win.nbits /\ win'.wbits = 2 * win.wbits
        /\ win' \in [state : 0..2, nbits : 0..(wsize - 1), wbits : Nat]
    BY <2>1, <2>4
  <2> DEFINE n == win.nbits
             m == n - i - 1
             c == TwoTo[m]
             d == TwoTo[(wsize - n) + i + 1]
             b == (v \div c) % 2
  <2>6. /\ n \in Nat /\ i \in Nat /\ m \in Nat /\ n - i = m + 1 /\ n - (i + 1) = m
        /\ (wsize - n) + i \in Nat /\ (wsize - n) + i + 1 \in Nat
        /\ (wsize - n) + (i + 1) = (wsize - n) + i + 1
        /\ wsize = ((wsize - n) + i + 1) + m
        /\ i + 1 \in 0..n
    <3>1. n \in 0..(wsize - 1) /\ i \in 0..n /\ i < n /\ wsize \in Nat
      <4>1. n \in 0..(wsize - 1)
        BY <2>4
      <4>2. wsize \in Nat
        BY WindowSizes
      <4> QED BY <2>1, <2>4, <4>1, <4>2
    <3> HIDE DEF n
    <3> QED BY <3>1
  <2>7. /\ c \in Nat \ {0} /\ TwoTo[n - i] = 2 * c
        /\ d \in Nat \ {0} /\ d = 2 * TwoTo[(wsize - n) + i]
        /\ TwoTo[wsize] = d * c
        /\ TwoTo[(wsize - n) + i] \in Nat
    <3>1. TwoTo[((wsize - n) + i + 1) + m] = d * c
      BY <2>6, TwoToSum
    <3>2. c \in Nat \ {0} /\ TwoTo[n - i] = 2 * c
      BY <2>6, TwoToAt
    <3>3. d \in Nat \ {0} /\ d = 2 * TwoTo[(wsize - n) + i]
          /\ TwoTo[(wsize - n) + i] \in Nat
      BY <2>6, TwoToAt
    <3> QED BY <2>6, <3>1, <3>2, <3>3
  <2>8. v \in Nat
    <3>1. TwoTo[n] \in Nat
      BY <2>6, TwoToAt
    <3> QED BY <2>3, <3>1
  <2>9. win'.wbits = v * d
    <3>1. win.wbits = v * TwoTo[(wsize - n) + i]
      BY <2>3 DEF Replayed
    <3> DEFINE h == TwoTo[(wsize - n) + i]
    <3>2. h \in Nat /\ d = 2 * h /\ win.wbits = v * h
      BY <2>7, <3>1
    <3> HIDE DEF h, d
    <3>3. 2 * (v * h) = v * (2 * h)
      BY <2>8, <3>2
    <3> QED BY <2>5, <3>2, <3>3
  <2>10. win'.wbits \div TwoTo[wsize] = v \div c
    <3> HIDE DEF c, d
    <3>1. (v * d) \div (d * c) = ((v * d) \div d) \div c
      <4>1. v * d \in Int
        BY <2>7, <2>8
      <4> QED BY <2>7, <4>1, QuotientOfQuotient
    <3>2. (v * d) \div d = v
      <4>1. d * v + 0 = v * d /\ 0 \in 0..(d - 1)
        BY <2>7, <2>8
      <4> QED BY <2>7, <2>8, <4>1, QuotientUnique
    <3> QED BY <2>7, <2>9, <3>1, <3>2
  <2>11. b \in {0, 1}
    <3> HIDE DEF c
    <3>1. v \div c \in Int
      BY <2>7, <2>8
    <3> QED BY <3>1
  <2>12. X' = Power(2 * X.e + b)
    <3>1. X.e \in Nat /\ 2 * X.e \in Nat /\ X.e + X.e = 2 * X.e
      BY <2>4
    <3>2. montmul(X, X) = Power(2 * X.e)
      <4>1. montmul(Power(X.e), Power(X.e)) = Power(X.e + X.e)
        BY <3>1, PowersMultiply
      <4> QED BY <2>4, <3>1, <4>1
    <3>3. montmul(Power(2 * X.e), Power(1)) = Power(2 * X.e + 1)
      BY <3>1, PowersMultiply
    <3>4. b = 1 => X' = Power(2 * X.e + 1)
      BY <2>1, <2>2, <2>10, <3>2, <3>3
    <3>5. b = 0 => X' = Power(2 * X.e)
      BY <2>1, <2>10, <3>2
    <3>6. 2 * X.e + 0 = 2 * X.e
      BY <3>1
    <3> HIDE DEF b
    <3> QED BY <2>11, <3>4, <3>5, <3>6
  <2>13. (2 * X.e + b) * c + (v % c) = Magnitude(E.p)
    <3>1. X.e * TwoTo[n - i] + (v % TwoTo[n - i]) = Magnitude(E.p)
      BY <2>3 DEF Replayed
    <3>2. v % (2 * c) = b * c + (v % c)
      <4> HIDE DEF c
      <4>1. 2 \in Nat \ {0}
        OBVIOUS
      <4>2. v % (2 * c) = ((v \div c) % 2) * c + (v % c)
        BY <2>7, <2>8, <4>1, RemainderOfProduct
      <4> QED BY <4>2
    <3>3. X.e * (2 * c) + (b * c + (v % c)) = Magnitude(E.p)
      BY <2>7, <3>1, <3>2
    <3> DEFINE r == v % c
               e == X.e
    <3>4. r \in Int /\ e \in Nat
      <4>1. e \in Nat
        BY <2>4
      <4> HIDE DEF c
      <4> QED BY <2>7, <2>8, <4>1
    <3> HIDE DEF r, e, b, c
    <3>5. e * (2 * c) + (b * c + r) = (2 * e + b) * c + r
      BY <2>7, <2>11, <3>4
    <3> QED BY <3>3, <3>5 DEF r, e
  <2>14. X'.e = 2 * X.e + b /\ X'.e \in Nat
    <3>1. Power(2 * X.e + b).e = 2 * X.e + b
      BY DEF Power
    <3> HIDE DEF b
    <3> QED BY <2>4, <2>11, <2>12, <3>1
  <2>15. Replayed(v)'
    <3>1. win'.wbits = v * TwoTo[(wsize' - win'.nbits) + i']
      BY <2>1, <2>2, <2>5, <2>6, <2>9
    <3>2. win'.nbits - i' = m
      BY <2>1, <2>5, <2>6
    <3>3. X'.e * TwoTo[win'.nbits - i'] + (v % TwoTo[win'.nbits - i'])
            = Magnitude(E'.p)
      BY <2>1, <2>13, <2>14, <3>2
    <3> QED BY <3>1, <3>3 DEF Replayed
  <2>16. (\E u \in 0..(TwoTo[win.nbits] - 1) : Replayed(u))'
    BY <2>3, <2>5, <2>15
  <2>17. X' = Power(X'.e) /\ i' \in 0..win'.nbits
    BY <2>1, <2>5, <2>6, <2>12, <2>14
  <2> QED BY <2>2, <2>5, <2>14, <2>16, <2>17 DEF RemainingInv
<1>6. Next => EndOfBits \/ Remaining \/ pc' # "remaining"
  BY DEF Next, Call, Enter, Precompute, TakeCached, First, TableFirst, TableNext,
     Made, SkipZero, SquareZero, AddBit, FullWindow, Read, Finish, Cleanup,
     Return, FreeCache, Fail
<1> QED BY <1>2, <1>3, <1>4, <1>5, <1>6

LEMMA EndedIsInductive ==
  /\ Init => Ended
  /\ CallInv /\ Ending /\ Ended /\ [Next]_vars => Ended'
<1>1. Init => Ended
  BY DEF Init, Ended
<1>2. SUFFICES ASSUME CallInv, Ending, Ended, [Next]_vars,
                      pc' \in {"cleanup", "returned"}, ok'
               PROVE  X' = [e |-> Magnitude(E'.p), r |-> 0, s |-> sign']
  BY <1>1 DEF Ended
<1>3. CASE UNCHANGED vars \/ Cleanup
  BY <1>2, <1>3 DEF vars, Cleanup, caller, numbers, Ended
<1>4. CASE Finish
  <2>1. /\ X' = [montred(X) EXCEPT !.s = sign] /\ i = win.nbits /\ pc = "remaining"
        /\ E' = E /\ sign' = sign
    BY <1>2, <1>4 DEF Finish, Fail, caller
  <2>2. PICK v \in 0..(TwoTo[win.nbits] - 1) : Replayed(v)
    BY <1>2, <2>1 DEF Ending, RemainingInv
  <2>3. X = Power(X.e) /\ X.e \in Nat /\ win.nbits \in 0..(wsize - 1)
    BY <1>2, <2>1 DEF Ending, RemainingInv
  <2>4. X.e = Magnitude(E.p)
    <3>1. win.nbits - i = 0 /\ win.nbits \in Nat
      BY <2>1, <2>3, WindowSizes
    <3>2. v % 1 = 0
      <4>1. TwoTo[win.nbits] \in Nat
        BY <3>1, TwoToAt
      <4> QED BY <2>2, <4>1
    <3>3. X.e * 1 + 0 = Magnitude(E.p)
      BY <2>2, <3>1, <3>2, TwoToIsDefined DEF Replayed
    <3> QED BY <2>3, <3>3
  <2>5. [montred(Power(X.e)) EXCEPT !.s = sign] = [e |-> X.e, r |-> 0, s |-> sign]
    <3> DEFINE e == X.e
    <3>1. Power(e) = [e |-> e, r |-> 1, s |-> 1]
      BY DEF Power
    <3>2. montred(Power(e)) = [e |-> e, r |-> 0, s |-> 1]
      <4> HIDE DEF e
      <4>1. [[e |-> e, r |-> 1, s |-> 1] EXCEPT !.r = 1 - 1] = [e |-> e, r |-> 0, s |-> 1]
        OBVIOUS
      <4> QED BY <3>1, <4>1 DEF montred
    <3> HIDE DEF e
    <3>3. [[e |-> e, r |-> 0, s |-> 1] EXCEPT !.s = sign] = [e |-> e, r |-> 0, s |-> sign]
      OBVIOUS
    <3> QED BY <3>2, <3>3 DEF e
  <2> QED BY <2>1, <2>3, <2>4, <2>5
<1>5. Next => Finish \/ Cleanup \/ ~ok' \/ pc' \notin {"cleanup", "returned"}
  BY DEF Next, Call, Enter, Precompute, TakeCached, First, TableFirst, TableNext,
     Made, SkipZero, SquareZero, AddBit, FullWindow, Read, EndOfBits, Remaining,
     Return, FreeCache, Fail
<1> QED BY <1>2, <1>3, <1>4, <1>5
----------------------------------------------------------------------------
(* The theorems. *)

LEMMA PowerInvIsInductive ==
  /\ Init => PowerInv
  /\ PowerInv /\ [Next]_vars => PowerInv'
BY CallsAreInductive, TableLoopIsInductive, TableIsInductive, ScanIsInductive,
   EndingIsInductive, EndedIsInductive DEF PowerInv

(***************************************************************************)
(* A call that reports success leaves A^E mod N in X, outside Montgomery   *)
(* form, whether R^2 was computed or cached (bignum.c:1588-1598); its sign *)
(* is right except for an even power of a negative base (bignum.c:1721).   *)
(* Of the X of a call that fails nothing is claimed.                       *)
(***************************************************************************)
THEOREM PowerIsComputed == Spec => []PowerIsRight
<1>1. Init => PowerInv
  BY PowerInvIsInductive
<1>2. PowerInv /\ [Next]_vars => PowerInv'
  BY PowerInvIsInductive
<1>3. PowerInv => PowerIsRight
  BY DEF PowerInv, Ended, PowerIsRight
<1> QED BY <1>1, <1>2, <1>3, PTL DEF Spec

(***************************************************************************)
(* While bits are read, X is A to the bits before the window, the window   *)
(* holds the rest, and it selects an entry of the table that was made      *)
(* (bignum.c:1616-1716).                                                   *)
(***************************************************************************)
THEOREM WindowFollowsExponent == Spec => []WindowContinuesPower
<1>1. Init => PowerInv
  BY PowerInvIsInductive
<1>2. PowerInv /\ [Next]_vars => PowerInv'
  BY PowerInvIsInductive
<1>3. PowerInv => WindowContinuesPower
  <2>1. SUFFICES ASSUME PowerInv PROVE WindowContinuesPower
    OBVIOUS
  <2>2. \A k \in Table : W[k] # None => W[k] = [e |-> k, r |-> 1, s |-> 1]
    BY <2>1 DEF PowerInv, TableInv, Power
  <2>3. SUFFICES ASSUME pc = "scan"
        PROVE /\ X.r = 1
              /\ X.e * TwoTo[win.nbits] + win.wbits \div TwoTo[wsize - win.nbits]
                   = Prefix
              /\ win.state = 2 <=> win.nbits > 0
              /\ win.nbits > 0 => \A rest \in 0..(TwoTo[wsize - win.nbits] - 1) :
                                    W[win.wbits + rest] # None
    BY <2>2 DEF WindowContinuesPower
  <2>4. ScanInv
    BY <2>1, <2>3 DEF PowerInv, Scanning
  <2>5. PICK v : Pending(v)
    BY <2>4 DEF ScanInv, Pending
  <2>6. /\ win.nbits \in 0..(wsize - 1) /\ wsize - win.nbits \in Nat
        /\ (win.state = 2 <=> win.nbits > 0)
    BY <2>4, WindowIsTyped DEF ScanInv
  <2>7. X.r = 1
    <3>1. X = Power(X.e)
      BY <2>4 DEF ScanInv
    <3>2. Power(X.e).r = 1
      BY DEF Power
    <3> QED BY <3>1, <3>2
  <2> DEFINE n == win.nbits
             t == TwoTo[wsize - n]
             u == TwoTo[n]
  <2>8. t \in Nat \ {0} /\ u \in Nat \ {0} /\ u * t = TwoTo[wsize]
    <3>1. n \in Nat /\ wsize - n \in Nat /\ n + (wsize - n) = wsize
      BY <2>6, WindowSizes
    <3>2. TwoTo[n + (wsize - n)] = u * t
      BY <3>1, TwoToSum
    <3> QED BY <3>1, <3>2, TwoToAt
  <2>9. v \in 0..(u - 1) /\ win.wbits = v * t /\ X.e * u + v = Prefix
    BY <2>5 DEF Pending, Window
  <2>10. X.e * u + win.wbits \div t = Prefix
    <3> HIDE DEF t, u
    <3>1. (t * v + 0) \div t = v
      BY <2>8, <2>9, QuotientUnique
    <3>2. t * v + 0 = v * t
      BY <2>8, <2>9
    <3> QED BY <2>9, <3>1, <3>2
  <2>11. ASSUME n > 0, NEW rest \in 0..(t - 1) PROVE W[win.wbits + rest] # None
    <3> DEFINE h == TwoTo[n - 1]
    <3>1. h \in Nat /\ v >= h /\ h * t = FirstEntry
      <4>1. n - 1 \in Nat /\ wsize - n \in Nat /\ (n - 1) + (wsize - n) = wsize - 1
        BY <2>6, <2>11, WindowSizes
      <4>2. TwoTo[(n - 1) + (wsize - n)] = h * t
        BY <4>1, TwoToSum
      <4>3. v >= h
        BY <2>5, <2>11 DEF Pending, Window
      <4> QED BY <4>1, <4>2, <4>3, TwoToAt DEF FirstEntry
    <3>2. win.wbits + rest \in FirstEntry..(TwoTo[wsize] - 1)
      <4> HIDE DEF t, u, h
      <4>1. v * t >= h * t /\ v * t <= (u - 1) * t
        BY <2>8, <2>9, <3>1
      <4>2. (u - 1) * t = u * t - t /\ v * t \in Nat
        BY <2>8, <2>9
      <4> QED BY <2>8, <2>9, <3>1, <4>1, <4>2
    <3> QED BY <2>1, <2>3, <3>2 DEF PowerInv, TableInv
  <2> QED BY <2>6, <2>7, <2>10, <2>11
<1> QED BY <1>1, <1>2, <1>3, PTL DEF Spec
=============================================================================
