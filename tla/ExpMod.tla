------------------------------- MODULE ExpMod -------------------------------
(***************************************************************************)
(* mpi_exp_mod of bignum.c, one loop round per step, called in pairs as    *)
(* srp_init does with a cache for R^2 and srp_setA does without.  Numbers  *)
(* are symbolic: [e, r, s] stands for s * |A|^e * R^r modulo N, what       *)
(* MpiMontgomery shows mpi_montmul to compute.  Every MPI_CHK may fail.    *)
(***************************************************************************)
EXTENDS Mpi

CONSTANTS
  Exponents,      \* mpi values of E
  Bases,          \* signs of A: {1} in srp.c, where every number is read
  Above,          \* bits past which the window grows: <<23, 79, 239, 671>>
  None

Number == [e : Nat, r : Int, s : {-1, 1}]

\* An mpi that was set has limbs.
ASSUME ExponentsAssumption ==
  \A x \in Exponents : x.s = 1 /\ x.p \in Seq(Limbs) \ {<<>>}
ASSUME NoneAssumption == None \notin Number

VARIABLES
  pc,
  calls, shared,        \* calls of this pair, whether it passes a cache
  cache,                \* *_RR
  E, sign,              \* the exponent and the sign of A
  X, W, RR,             \* the result, the table and R^2 mod N
  blocks,               \* who owns memory
  i,                    \* the loop index
  nblimbs, bufsize,     \* limbs and bits of E still to read
  win,                  \* state, nbits and wbits of the window
  ok                    \* ret = 0

caller == <<calls, shared, E, sign>>
reading == <<nblimbs, bufsize, win>>
numbers == <<X, W, RR>>
vars == <<pc, caller, cache, numbers, blocks, i, reading, ok>>

Table == 0..63
Entry(k) == <<"W", k>>
Temp(name) == <<name>>

\* mpi_montmul and mpi_montred.
montmul(P, Q) == [e |-> P.e + Q.e, r |-> P.r + Q.r - 1, s |-> 1]
montred(P) == [P EXCEPT !.r = @ - 1]
Squared(P, times) ==
  LET sq[n \in 0..times] == IF n = 0 THEN P ELSE montmul(sq[n - 1], sq[n - 1])
  IN sq[times]

wsize ==
  LET bits == msb(E)
  IN IF bits > Above[4] THEN 6 ELSE IF bits > Above[3] THEN 5
     ELSE IF bits > Above[2] THEN 4 ELSE IF bits > Above[1] THEN 3 ELSE 1
FirstEntry == TwoTo[wsize - 1]

Closed == [state |-> 0, nbits |-> 0, wbits |-> 0]

Init ==
  /\ pc = "idle" /\ calls = 0 /\ shared = FALSE /\ cache = None
  /\ E = Null /\ sign = 1
  /\ X = None /\ W = [k \in Table |-> None] /\ RR = None
  /\ blocks = {} /\ i = 0 /\ nblimbs = 0 /\ bufsize = 0 /\ win = Closed
  /\ ok = TRUE
----------------------------------------------------------------------------
\* A call that fails returns all the same.  Its X, zero since mpi_grow or the
\* latest product, is the caller's, and srp.c goes on with it: what comes of
\* that is FailedKeys of Srp, and no property here speaks of that X.
Fail(got) ==
  /\ blocks' = blocks \cup got
  /\ pc' = "cleanup" /\ ok' = FALSE
  /\ UNCHANGED <<caller, cache, numbers, i, reading>>

Call ==
  /\ pc = "idle" /\ calls < 2
  /\ calls' = calls + 1
  /\ IF calls = 0 THEN shared' \in BOOLEAN ELSE UNCHANGED shared
  /\ E' \in Exponents /\ sign' \in Bases
  /\ pc' = "enter" /\ ok' = TRUE
  /\ UNCHANGED <<cache, numbers, blocks, i, reading>>

\* mpi_grow of X, which is the caller's, then of W[1] and T; a copy of A.
Temps == <<Entry(1), Temp("T")>> \o (IF sign = -1 THEN <<Temp("Apos")>> ELSE <<>>)
Taken(n) == {Temps[k] : k \in 1..n}

Enter ==
  /\ pc = "enter"
  /\ \/ /\ blocks' = blocks \cup Taken(Len(Temps))
        /\ pc' = "square"
        /\ UNCHANGED <<caller, cache, numbers, i, reading, ok>>
     \/ \E n \in 0..(Len(Temps) - 1) : Fail(Taken(n))

\* R^2 mod N, computed unless the cache has it; the cache gets its limbs.
Missing == ~shared \/ cache = None

Precompute ==
  /\ pc = "square" /\ Missing
  /\ \/ /\ RR' = [e |-> 0, r |-> 2, s |-> 1]
        /\ cache' = IF shared THEN RR' ELSE cache
        /\ blocks' = blocks \cup {Temp("RR")}
        /\ pc' = "first"
        /\ UNCHANGED <<caller, X, W, i, reading, ok>>
     \/ \E got \in {{}, {Temp("RR")}} : Fail(got)

TakeCached ==
  /\ pc = "square" /\ ~Missing
  /\ RR' = cache
  /\ pc' = "first"
  /\ UNCHANGED <<caller, cache, X, W, blocks, i, reading, ok>>

First ==
  /\ pc = "first"
  /\ \/ /\ W' = [W EXCEPT ![1] = montmul([e |-> 1, r |-> 0, s |-> 1], RR)]
        /\ X' = montred(RR)
        /\ nblimbs' = Len(E.p) /\ bufsize' = 0 /\ win' = Closed
        /\ pc' = IF wsize > 1 THEN "table" ELSE "scan"
        /\ UNCHANGED <<caller, cache, RR, blocks, i, ok>>
     \/ Fail({})

Made(k, value) ==
  /\ W' = [W EXCEPT ![k] = value]
  /\ blocks' = blocks \cup {Entry(k)}
  /\ i' = k + 1
  /\ UNCHANGED <<caller, cache, X, RR, reading, ok>>

TableFirst ==
  /\ pc = "table"
  /\ \/ /\ Made(FirstEntry, Squared(W[1], wsize - 1))
        /\ pc' = "entries"
     \/ Fail({})

TableNext ==
  /\ pc = "entries"
  /\ \/ /\ Made(i, montmul(W[i - 1], W[1]))
        /\ pc' = IF i + 1 < TwoTo[wsize] THEN "entries" ELSE "scan"
     \/ Fail({})
----------------------------------------------------------------------------
\* The main loop: bits from the most significant limb down.
AtEnd == bufsize = 0 /\ nblimbs = 0
limb == IF bufsize = 0 THEN nblimbs - 1 ELSE nblimbs
bit == IF bufsize = 0 THEN biL - 1 ELSE bufsize - 1
ei == Bit(E.p[limb + 1], bit + 1)

Read ==
  /\ pc = "scan" /\ ~AtEnd
  /\ nblimbs' = limb /\ bufsize' = bit
  /\ UNCHANGED <<pc, caller, cache, W, RR, blocks, i, ok>>

\* A bit joins the window that is open, and a one opens one.
Joins == ei # 0 \/ win.state = 2

SkipZero == Read /\ ~Joins /\ win.state = 0 /\ UNCHANGED <<X, win>>

SquareZero ==
  /\ Read /\ ~Joins /\ win.state = 1
  /\ X' = montmul(X, X)
  /\ UNCHANGED win

Widened_low(w) ==
  [state |-> 2, nbits |-> w.nbits + 1, wbits |-> 2 * w.wbits + ei]
Widened(w) ==
  [state |-> 2, nbits |-> w.nbits + 1,
   wbits |-> w.wbits + ei * TwoTo[wsize - w.nbits - 1]]

AddBit ==
  /\ Read /\ Joins /\ win.nbits + 1 < wsize
  /\ win' = Widened(win)
  /\ UNCHANGED X

Emptied_idle == [state |-> 0, nbits |-> 0, wbits |-> 0]
Emptied == [state |-> 1, nbits |-> 0, wbits |-> 0]

\* An entry that was not made has no limbs to multiply by.
FullWindow ==
  /\ Read /\ Joins /\ win.nbits + 1 = wsize
  /\ LET selected == W[Widened(win).wbits]
     IN X' = IF selected = None THEN None
             ELSE montmul(Squared(X, wsize), selected)
  /\ win' = Emptied

EndOfBits ==
  /\ pc = "scan" /\ AtEnd
  /\ i' = 0
  /\ pc' = "remaining"
  /\ UNCHANGED <<caller, cache, numbers, blocks, reading, ok>>

\* Bits of a window that did not fill up, one by one.
Remaining ==
  /\ pc = "remaining" /\ i < win.nbits
  /\ win' = [win EXCEPT !.wbits = 2 * @]
  /\ X' = IF (win'.wbits \div TwoTo[wsize]) % 2 = 1
          THEN montmul(montmul(X, X), W[1]) ELSE montmul(X, X)
  /\ i' = i + 1
  /\ UNCHANGED <<pc, caller, cache, W, RR, blocks, nblimbs, bufsize, ok>>

\* A negative A turns the result into N - X.
Finish ==
  /\ pc = "remaining" /\ i = win.nbits
  /\ \/ /\ X' = [montred(X) EXCEPT !.s = sign]
        /\ pc' = "cleanup"
        /\ UNCHANGED <<caller, cache, W, RR, blocks, i, reading, ok>>
     \/ sign = -1 /\ Fail({})

Freed_table == {Entry(k) : k \in FirstEntry..(TwoTo[wsize] - 1)}
Freed_always == Freed_table \cup {Entry(1), Temp("T"), Temp("Apos"), Temp("RR")}
Freed ==
  Freed_table \cup {Entry(1), Temp("T"), Temp("Apos")}
    \cup (IF Missing THEN {Temp("RR")} ELSE {})

Cleanup ==
  /\ pc = "cleanup"
  /\ blocks' = blocks \ Freed
  /\ pc' = "returned"
  /\ UNCHANGED <<caller, cache, numbers, i, reading, ok>>

\* The locals of a call are gone, and what was in X is the caller's.
Return ==
  /\ pc = "returned"
  /\ pc' = "idle"
  /\ X' = None /\ W' = [k \in Table |-> None] /\ RR' = None /\ E' = Null
  /\ sign' = 1 /\ i' = 0
  /\ nblimbs' = 0 /\ bufsize' = 0 /\ win' = Closed
  /\ UNCHANGED <<calls, shared, cache, blocks, ok>>

\* mpi_free(&tmp) at the end of srp_init.
FreeCache ==
  /\ pc = "idle" /\ calls = 2
  /\ cache' = None
  /\ blocks' = IF cache = None THEN blocks ELSE blocks \ {Temp("RR")}
  /\ calls' = 0 /\ shared' = FALSE
  /\ UNCHANGED <<pc, E, sign, numbers, i, reading, ok>>

Next ==
  \/ Call \/ Enter \/ Precompute \/ TakeCached \/ First \/ TableFirst
  \/ TableNext \/ SkipZero \/ SquareZero \/ AddBit \/ FullWindow \/ EndOfBits
  \/ Remaining \/ Finish \/ Cleanup \/ Return \/ FreeCache

Spec == Init /\ [][Next]_vars
----------------------------------------------------------------------------
(***************************************************************************)
(* While bits are read, X in Montgomery form is A to the bits before the   *)
(* window and the window holds the rest: no bit is skipped, doubled or     *)
(* read twice where limbs, windows and runs of zeros meet, and the pending *)
(* bits are those the last loop replays.  The window only ever selects an  *)
(* entry that was made, the power of its index, though the table starts at *)
(* half its size (bignum.c:1616-1716).                                     *)
(***************************************************************************)
Prefix == Magnitude(E.p) \div TwoTo[nblimbs * biL + bufsize]

WindowContinuesPower ==
  /\ pc = "scan" =>
       /\ X.r = 1
       /\ X.e * TwoTo[win.nbits] + win.wbits \div TwoTo[wsize - win.nbits] = Prefix
       /\ win.state = 2 <=> win.nbits > 0
       /\ win.nbits > 0 => \A rest \in 0..(TwoTo[wsize - win.nbits] - 1) :
                            W[win.wbits + rest] # None
  /\ \A k \in Table : W[k] # None => W[k] = [e |-> k, r |-> 1, s |-> 1]

(***************************************************************************)
(* A call that reports success leaves A^E mod N in X, outside Montgomery   *)
(* form, whether R^2 was computed or came from the cache an earlier call   *)
(* filled - even one that failed later (bignum.c:1588-1598, 1721).  An     *)
(* even power of a negative A, which srp.c never passes, comes out negated.*)
(***************************************************************************)
PowerIsRight ==
  pc = "returned" /\ ok =>
    /\ X.e = Magnitude(E.p) /\ X.r = 0
    /\ sign = 1 \/ X.e % 2 = 1 => X.s = sign

(***************************************************************************)
(* A call that returns, wherever it failed, has freed what it allocated    *)
(* except the limbs its cache now owns, and those live as long as the cache*)
(* refers to them: none is freed under it, none is left after it           *)
(* (bignum.c:1594-1598, 1729-1737; srp.c:147).                             *)
(***************************************************************************)
CacheOwnsItsLimbs ==
  /\ cache # None => Temp("RR") \in blocks
  /\ pc \in {"idle", "returned"} =>
       blocks = IF cache = None THEN {} ELSE {Temp("RR")}
=============================================================================
