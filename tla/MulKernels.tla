---------------------------- MODULE MulKernels -----------------------------
(***************************************************************************)
(* The inner loop of every product of big numbers: mpi_mul_hlp of bignum.c *)
(* over the kernels of bn_mul.h, of which each compiler gets one.  A kernel*)
(* adds s * b + c to a limb of d and keeps the carry in c; some keep part  *)
(* of it in a flag of the processor from one limb to the next.  Registers, *)
(* addresses and the order of loads are abstracted to the words they give. *)
(***************************************************************************)
EXTENDS Mpi

CONSTANTS
  Kernels,           \* kernels that are tried
  Unroll,            \* limbs MULADDC_HUIT takes at once: 8
  Calls,             \* arguments of mpi_mul_hlp: [s, d, b]
  Extends            \* what the flag X of an m68k may be when asm( begins

VARIABLES
  kernel, s, b,
  d, d0,       \* the limbs at d, and those on entry
  at,          \* limbs done
  c,
  pc,
  strayed      \* a kernel has begun with a flag that other code set

vars == <<kernel, s, b, d, d0, at, c, pc, strayed>>
inputs == <<kernel, s, b, d0>>

Left == Len(s) - at

Init ==
  /\ kernel \in Kernels
  /\ \E call \in Calls : s = call.s /\ b = call.b /\ d = call.d
  /\ d0 = d /\ at = 0 /\ c = 0 /\ pc = "limbs" /\ strayed = FALSE
----------------------------------------------------------------------------
Low(x) == x % Base
High(x) == (x \div Base) % Base
Plus(x, y, flag) == [w |-> Low(x + y + flag), flag |-> High(x + y + flag)]

\* Two additions to the low word, the carry of each added to the high one:
\* mull, addl, adcl, addl, adcl.
Carried(si, di, carry) ==
  LET low == Plus(Low(si * b), carry, 0)
      out == Plus(low.w, di, 0)
  IN [d |-> out.w, c |-> Low(High(si * b) + low.flag + out.flag), flag |-> 0]
i386(si, di, carry) == Carried(si, di, carry)
amd64(si, di, carry) == Carried(si, di, carry)
m68k(si, di, carry) == Carried(si, di, carry)
sparc(si, di, carry) == Carried(si, di, carry)
msvc(si, di, carry) == Carried(si, di, carry)

\* The carry of the second addition stays in the flag for the next limb.
Chained(si, di, carry, flag) ==
  LET low == Plus(Low(si * b), carry, flag)
      out == Plus(low.w, di, 0)
  IN [d |-> out.w, c |-> Low(High(si * b) + low.flag), flag |-> out.flag]
ppc(si, di, carry, flag) == Chained(si, di, carry, flag)
m68k_huit(si, di, carry, flag) == Chained(si, di, carry, flag)

\* A sum that is smaller than what was added has wrapped around.
Wraps(sum, added) == IF sum < added THEN 1 ELSE 0
Compared(low, high, di, carry) ==
  LET r0 == Low(low + carry)
      out == Low(r0 + di)
  IN [d |-> out, c |-> Low(high + Wraps(r0, carry) + Wraps(out, di)), flag |-> 0]
alpha(si, di, carry) == Compared(Low(si * b), High(si * b), di, carry)
mips(si, di, carry) ==
  LET r14 == Low(carry + Low(si * b))
      r15 == Low(r14 + di)
  IN [d |-> r15, c |-> Low(Wraps(r14, carry) + High(si * b) + Wraps(r15, r14)),
      flag |-> 0]
udbl(si, di, carry) == Compared(Low(si * b), High(si * b), di, carry)

\* Products of half words, where no wider type exists.
Half == 2 ^ (biL \div 2)
Lower(x) == x % Half
Upper(x) == x \div Half
HalfProducts(si) ==
  LET rx == Low(Lower(si) * Upper(b))
      ry == Low(Upper(si) * Lower(b))
  IN [r0 |-> Low(Lower(si) * Lower(b)),
      r1 |-> Low(Upper(si) * Upper(b) + Upper(rx) + Upper(ry)),
      rx |-> Low(rx * Half), ry |-> Low(ry * Half)]
generic_half(si, di, carry) ==
  LET r == HalfProducts(si)
      withX == Low(r.r0 + r.rx)
      withY == Low(withX + r.ry)
  IN Compared(withY, Low(r.r1 + Wraps(withX, r.rx) + Wraps(withY, r.ry)), di, carry)
\* add and adc of one word after the other.
Added(r, words) ==
  LET sum[k \in 0..Len(words)] ==
        IF k = 0 THEN [w |-> r.r0, c |-> r.r1]
        ELSE LET next == Plus(sum[k - 1].w, words[k], 0)
             IN [w |-> next.w, c |-> Low(sum[k - 1].c + next.flag)]
  IN [d |-> sum[Len(words)].w, c |-> sum[Len(words)].c, flag |-> 0]
microblaze(si, di, carry) ==
  LET r == HalfProducts(si) IN Added(r, <<r.rx, r.ry, di, carry>>)
thumb(si, di, carry) ==
  LET r == HalfProducts(si) IN Added(r, <<carry, r.rx, r.ry, di>>)

\* Multiply and accumulate in two words.
Accumulated(si, di, carry) ==
  LET wide == (si * b + carry) % Base ^ 2
      out == Plus(Low(wide), di, 0)
  IN [d |-> out.w, c |-> Low(High(wide) + out.flag), flag |-> 0]
arm(si, di, carry) == Accumulated(si, di, carry)
tricore(si, di, carry) == Accumulated(si, di, carry)

\* The eight limbs of SSE2: accumulators of two words, shifted by one.
sse2_huit(si, di, carry) ==
  LET mm1 == (carry + di + si * b) % Base ^ 2
  IN [d |-> Low(mm1), c |-> High(mm1), flag |-> 0]
msvc_sse2_huit(si, di, carry) == sse2_huit(si, di, carry)
----------------------------------------------------------------------------
HasHuit == kernel \in {"m68k", "sse2", "msvc_sse2"}

MULADDC_HUIT(si, di, carry, flag) ==
  CASE kernel = "m68k" -> m68k_huit(si, di, carry, flag)
    [] kernel = "sse2" -> sse2_huit(si, di, carry)
    [] kernel = "msvc_sse2" -> msvc_sse2_huit(si, di, carry)

MULADDC_CORE(si, di, carry, flag) ==
  CASE kernel \in {"i386", "sse2"} -> i386(si, di, carry)
    [] kernel \in {"msvc", "msvc_sse2"} -> msvc(si, di, carry)
    [] kernel = "amd64" -> amd64(si, di, carry)
    [] kernel = "m68k" -> m68k(si, di, carry)
    [] kernel = "ppc" -> ppc(si, di, carry, flag)
    [] kernel = "sparc" -> sparc(si, di, carry)
    [] kernel = "microblaze" -> microblaze(si, di, carry)
    [] kernel = "tricore" -> tricore(si, di, carry)
    [] kernel = "thumb" -> thumb(si, di, carry)
    [] kernel = "arm" -> arm(si, di, carry)
    [] kernel = "alpha" -> alpha(si, di, carry)
    [] kernel = "mips" -> mips(si, di, carry)
    [] kernel = "udbl" -> udbl(si, di, carry)
    [] kernel = "generic" -> generic_half(si, di, carry)

\* One block of asm, INIT to STOP, on m limbs.  PowerPC clears the carry before
\* and adds it after; the m68k adds what is left of it after eight limbs, and
\* begins with the X that the code before left.
MULADDC_STOP_dropped(carry, flag) == carry
MULADDC_STOP(carry, flag) == Low(carry + flag)

Block(m, Kernel(_, _, _, _), entry) ==
  LET r[k \in 0..m] ==
        IF k = 0 THEN [d |-> 0, c |-> c, flag |-> entry]
        ELSE Kernel(s[at + k], d[at + k], r[k - 1].c, r[k - 1].flag)
  IN /\ pc = "limbs"
     /\ d' = LimbSeq(Len(d), LAMBDA i : IF i \in (at + 1)..(at + m)
                                        THEN r[i - at].d ELSE d[i])
     /\ c' = MULADDC_STOP(r[m].c, r[m].flag)
     /\ at' = at + m
     /\ strayed' = (strayed \/ entry # 0)
     /\ UNCHANGED <<inputs, pc>>

Huit ==
  /\ HasHuit /\ Left >= Unroll
  /\ \E entry \in IF kernel = "m68k" THEN Extends ELSE {0} :
       Block(Unroll, MULADDC_HUIT, entry)

Sixteen == ~HasHuit /\ Left >= 2 * Unroll /\ Block(2 * Unroll, MULADDC_CORE, 0)

Eight == /\ ~HasHuit /\ Left >= Unroll /\ Left < 2 * Unroll
         /\ Block(Unroll, MULADDC_CORE, 0)

One == Left > 0 /\ Left < Unroll /\ Block(1, MULADDC_CORE, 0)

\* *d += c for as long as it carries.
Pass ==
  /\ pc \in {"limbs", "carry"} /\ Left <= 0
  /\ d' = [d EXCEPT ![at + 1] = Low(@ + c)]
  /\ c' = Wraps(Low(d[at + 1] + c), c)
  /\ at' = at + 1
  /\ pc' = IF c' = 0 THEN "done" ELSE "carry"
  /\ UNCHANGED <<inputs, strayed>>

Next == Huit \/ Sixteen \/ Eight \/ One \/ Pass

Spec == Init /\ [][Next]_vars
----------------------------------------------------------------------------
(***************************************************************************)
(* After every block, and while the last carry is passed on, d and c hold  *)
(* exactly d + s * b for the limbs done: no kernel loses a carry between   *)
(* its two additions, between limbs, between the blocks of 16, 8 and 1, or *)
(* in the limbs above, and at the end d is what mul_hlp says.  The m68k    *)
(* takes eight limbs with the X it finds: where that was set, nothing is   *)
(* said (bn_mul.h; bignum.c:1083-1142).                                    *)
(***************************************************************************)
KernelsMultiply ==
  LET done == SubSeq(s, 1, Min({at, Len(s)}))
  IN strayed \/ /\ Magnitude(d) + c * Base ^ at = Magnitude(d0) + Magnitude(done) * b
                /\ pc = "done" => d = mul_hlp(Len(s), s, d0, 0, b)
=============================================================================
