# Verification of ESP8266-RTOS-HomeKit

TLA+ models of the HomeKit accessory in `src/`, checked with TLC on small
instances, and theorems about them checked with TLAPS. Line numbers are those of
the sources; `PROJECT.json` maps every definition to the lines it stands for.

## The system

| Part | Code | State | Operations | Talks to |
|---|---|---|---|---|
| Start-up, key store | `homekit.c:41-59`, `crypto.c:15-79` | `keys` (store and its marks), `crypto_keys`, `crypto_storing` | `crypto_init`, load, store, mDNS, TCP task | SRP, TweetNaCl, mDNS, FreeRTOS |
| TCP server | `tcp.c` | connections registered with lwIP; heap blocks | accept, recv, close, `send_response` | lwIP (callbacks), request handler |
| Request scan | `tcp.c:26-47, 109-122` | strtok's hidden pointer, the segment | `get_payload_len`, `get_value` | C library |
| Request handler | `homekit.c:18-39` | the loop over TLVs, `halt` | `handle_request` | TLV codec, pairing |
| Pairing | `pairing.c` | none of its own | M1 to M2, M3 to M4, error | SRP, TLV codec, TCP server |
| SRP exchange | `crypto/srp/srp.c` | the one global `srp`: identity, `K`, `M1`, `M2`, flags | `srp_init`, `srp_start`, `srp_setA`, `srp_checkM1` | big numbers, SHA-512 |
| TLV codec | `crypto/tlv.c` | the caller's buffer | `tlv_decode_next`, `tlv_encode_next` | - |
| Big numbers | `crypto/srp/bignum.c`, `bn_mul.h` | `mpi` values: sign and limbs | arithmetic to `mpi_exp_mod` | malloc |
| Session | `crypto/session.c`, `crypto.c:94-174` | mode, keys and nonces | seal and open records | TweetNaCl |
| TweetNaCl | `crypto/tweetnacl/` | none | hashes, ciphers, curves | `randombytes` |
| Platform, application | `platform.*`, `config.h`, `accessory.c` | none | configuration, Wi-Fi | SDK |

Requests run in lwIP's task, one callback at a time, so no two handlers run at
once. What interleaves is what they leave behind: two controllers share one
`srp`, all share the heap, and a callback of one connection falls between those
of another. The device may be reset anywhere; `DEVELOPMENT.md:4` reports the
watchdog doing so during `srp_setA`. Nothing is kept over a reset. Nothing
times out and nothing is retried by the accessory.

What is hard, and what each part should guarantee:

- **SRP and pairing.** Flags of abandoned exchanges, public key and proof in
  either order or alone, failing arithmetic that is only printed, a public key
  that is 0 modulo N, resets. A controller is accepted on the right proof, or on
  that of a key which failing arithmetic left; `K`, `M1` and `M2` belong
  together; a fresh exchange is not disturbed by what came before.
- **TCP server.** Blocks handed to lwIP without a copy, blocks never freed,
  unchecked `malloc`, several STATE values in a request. The cost of a request
  is exact, lwIP never reads a freed block, each request gets the one answer due
  to it, on its connection, and in the end.
- **Request scan.** Nested strtok scans in a segment without a NUL. With a
  `Content-Length` the scan ends inside the headers and the payload is the body;
  without one it leaves the segment, and nothing is promised.
- **TLV codec.** Values in pieces, joined in place. What was decoded stays
  decoded; encoder and decoder fit each other.
- **Big numbers.** Carries, borrows, aliasing, leftover limbs, estimates,
  windows, an error on the way. Results are those of the integers; memory has
  one owner.
- **Start-up.** Order of calls and assignments. The store is whole when marked;
  nothing is advertised too early.
- **Session.** Nonces and keys in step with the peer, over refused records, new
  connections and a second secret on one connection; no key stream twice; keys
  derived in buffers that are salt, result and scratch in turn.
- **TweetNaCl.** Carries in limbs that may be negative, reductions that happen
  almost never, sums in place, exceptional points, encodings that are not
  reduced. Every result is that of the standard.

The full list of hazards, each at its line with the properties that watch it,
is in `PROJECT.json`.

## Modules

### Pairing: `Srp`, `PairSetup`, `Pairing`, `MCPairing`

`Srp` has the entry points of `srp.c` as operators on the record `srp`. Numbers
and hashes are free constructors: `KeyOf(identity, A)` is the `K` computed from
`A`, `ProofOf` the M1 hash, `AnswerOf` M2; `identity` stands for what one
`srp_init` drew (salt, b, v, B). Two things are told apart beyond that. For an
`A` in `Multiples`, which is 0 modulo N and which `srp_setA` does not refuse, s is
0, and K is `NullKey`, the hash of zeros, whatever the PIN. And a failing
big-number call is only printed by `MPI_ERROR_CHECK`: `srp_setA` goes on with
`NullKey`, if s never got a value, or with `Spoiled`, if it got a wrong one
(`ComputedKeys`). `srp_init` may fail in the same way (`sound`), and then no K of
that boot is right.

`Pairing` is the accessory with its controllers: `server_accept`, `server_recv`,
`server_close`, `handle_request`, `pairing_handler`, `send_response`. A handler
advances one call at a time (`cur`), so that a reset, a new request or an
acknowledgement falls between two calls; another handler never does. The heap
counts blocks: one for the copy of each request (`tcp.c:121`), one for each
answer (`tcp.c:81`), one while an answer is built (`pairing.c:11, 26, 41`). With
none left, `malloc` returns NULL, the caller writes through it and the device
resets (`Down`). `unacked` are the blocks lwIP may still read. `received`,
`tried`, `wrong`, `accepted`, `reply` and the fields `fresh`, `keyed`, `proved` and
`request` of `cur` are history that only properties read; `wrong` has the proofs
that `srp_setA` computed from a wrong K since the last M1.

`accepted` gains the proof of an M3 that is answered M4 and carried both values.
An M3 that lacks one is answered M4 too (`pairing.c:86-90`): that M4 carries no
M2 and proves nothing, and is not counted.

`PairSetup` is the abstract specification: between two M1 the accessory commits
to at most one proof, the right one for some A or one in `wrong`, keeps to it, and
accepts only it. `Pairing` implements it under `committed` = M1 once both the
client's and the accessory's proof have been seen (`SetupSpec`). Any request may
be sent, with the proof of `NullKey` too, so the exception is in the properties
(`AcceptedIsRight`, `SetupSpec`) and not in an assumption, and `AcceptedOnPin`,
which has none, fails.

### TLV codec: `Tlv`, `MCTlv`

One buffer, filled by the accessory's encoder or by a correct controller, then
taken apart by the loop on `tlv_decode_next`. Pointers handed out are indices
into the buffer; `MergePiece` moves bytes as the `memcpy` at `tlv.c:32` does.
`MaxPiece` stands for 255.

### Request scan: `HttpRequest`

The segment is a sequence of symbols, a whole numeral or header name being one, in
which strtok writes NULs; `save` is
strtok's pointer, shared by the scans of `get_payload_len` and `get_value`. A
request has one `Content-Length` or none (`measured`). In one without, the scan of
lines goes on through the body, and where a call of strtok finds no end in the
segment it reads what memory has behind it: `Stray` takes that memory to end the
scan with any length, and a length beyond the segment makes `header_len` wrap
(`CutElsewhere`).
`MCParsers` extends it and `MCTlv`, and runs one of them per behaviour.

### Big numbers: `Mpi`, `MpiRegisters`, `MpiOperands`, `MpiDivision`, `MpiMontgomery`, `ExpMod`

`Mpi` has the functions of `bignum.c` as operators on limbs: an mpi is its sign
`s` and its limbs `p`, `ciL` characters of `CharBits` bits each. Operators take
the registers and names of `X`, `A`, `B` where aliasing matters, so that
`mpi_add_abs( &B, &B, &x )` reads what it overwrites. `MpiRegisters` calls them
in any order on registers, so limbs left over from longer values, and zeros with
a sign, meet every operation, `mpi_shrink`, single bits and the conditional
assignment and swap included. `MpiDivision` is `mpi_div_mpi` and `mpi_mod_mpi`,
one step per estimate, correction and digit. `MpiMontgomery` is `mpi_montmul`,
one step per limb, with the sliding window of `T`. `ExpMod` is `mpi_exp_mod`,
one step per loop round, over symbolic numbers `[e, r, s]` = s * |A|^e * R^r: it
is about control - the table, the window, the shared R^2 and the cleanup - and
relies on the modules below it for the values. `MCReduction` extends
`MpiDivision` and `MpiMontgomery`, which share the operands of `MpiOperands`, and
checks one of them per behaviour.

`MulKernels` is `mpi_mul_hlp` over every kernel of `bn_mul.h`: the C ones with
and without a double-width type, and the assembly of i386, SSE2, amd64, m68k,
PowerPC, SPARC, MicroBlaze, TriCore, ARM, Thumb, Alpha, MIPS and MSVC. A step is
one `asm` block of sixteen, eight or one limb. A kernel is what it makes of a
word of `s`, a word of `d`, the carry in `c` and the processor's carry flag,
which some keep from one limb to the next; registers, addresses and the order of
loads are left out. The ESP8266 compiles `udbl`, which is also `mul_hlp` of
`Mpi`, against which all of them are checked.

### Start-up: `Startup`

`crypto_init` to the listening socket, one step per call and, in
`crypto_storeKeys`, per assignment, with a reset anywhere. RAM, the key store
included, is zero after it (`crypto.c:17-18`), so every boot draws an identity and
`crypto_loadKeys` never finds one. A draw is any of `Identities`; the code's
`rand` is not seeded (`random.c:14`) and repeats itself from boot to boot, which is
one of the behaviours of the model. No property relates the identities of two
boots.

### Session: `Session`, `Aead`, `KeyDerivation`, `MCSession`

`session.c` over the transport functions of `crypto.c`; the controller seals and
opens at the other end. The pair-verify that would call `session_setEncryption`
does not exist yet: it is taken to happen with no record under way, perhaps more
than once on a connection, with another secret each time (`agreed`). The second
`session_setEncryption( true )` finds encryption on and keeps the keys
(`session.c:35`), so the ends may part: `RecordsOpen` is about connections with one
secret (`Once`), `KeysAreOfConnection` says of the others that the key still is
one of theirs. `session.c:62-89` and its copy in `tcp.c:49-68` agree statement for
statement; no code calls either.

`Session` takes a record to open exactly if key, nonce and length agree. `Aead`
is what that rests on: `crypto_transportEncrypt` and `...Decrypt` byte by byte,
over the stream of `crypto_stream_chacha20_xor` with its block counter. A byte
is the set of unknown bytes it is the exclusive or of, so that encrypting twice
with one byte of key stream shows. `KeyDerivation` is `session_genkeys` over
`crypto_hkdf` and `crypto_sha512hmac`, a step for each filling of a buffer, with
SHA-512 a free constructor.

### TweetNaCl: `Sha512`, `ChaCha20`, `Poly1305`, `Field25519`, `FieldChain`, `Curve25519`, `Ed25519`

Each is the code on narrower words, with the constants of the standard as
CONSTANTS, next to the standard's own definition on integers or whole words.
`Sha512` goes round by round with the schedule folded into sixteen words, and
pads; `ChaCha20` by quarter rounds; `Poly1305` by blocks. `Field25519` has the
field as operators on limbs (`car25519`, `A`, `Z`, `M`, `S`, `pack25519`,
`inv25519`, ...), and `FieldChain` applies them in any order, so that limbs as
large and as negative as sums of sums leave them meet the carries. `Curve25519` is the
ladder over those limbs, bit by bit. `Ed25519` is keys, signatures and opening
over residues, which `FieldChain` has shown the limbs to stand for; `modL` keeps
its bytes and carries. `MCCarries` checks the first of these and `MulKernels`,
one per behaviour; `MCCurve` the last two.

## Runs

| Run | Asks | Bounds |
|---|---|---|
| `exchange` | two controllers, one `srp`: right, reversed, partial, mixed and malformed M3 in any order; big-number failures, and the proof of the K they leave; `PairSetup` | 2 connections, 3 public keys, one of them 0 modulo N, 9 requests, 9 blocks |
| `heap` | what requests cost, what lwIP may read, who gets which answer, and that it comes | 2 connections, 4 requests, 2 identities, 6 blocks; resets, hangups, aborts, failing writes |
| `failing` | is the key always the one the PIN determines? After a failing call it is not | 1 connection, otherwise as `exchange` |
| `parsers` | decoding in place, and how encoder and decoder fit; is the payload the body? | 1 to 3 values of 0 to 8 bytes, pieces of 3; up to 2 other headers in any order, with and without a `Content-Length`, bodies of up to 3 bytes with line ends, colons, NULs and a header's name |
| `tlv_roundtrip` | is decoding the inverse of encoding? It is not | 1 or 2 values of up to 4 bytes |
| `registers` | integers, for any sequence of calls but `mpi_add_abs(X, X, X)` | 2 registers of 2 and 3 limbs, of 2 bits each |
| `reduction` | long division and residue; Montgomery product, and the limb inverse | base 8: dividends of 3 limbs, or 2 if negative, divisors of 2; every odd modulus of 2 limbs, every factor; inverses also at 4 and 8 bits |
| `power` | the power, and who owns memory | exponents of 1 or 2 limbs of 5 bits, both signs, windows of 1, 3, 4, 5 and 6 bits, a failure at any allocation, with and without a shared R^2 |
| `boot` | order of start-up | 4 identities, 2 signing keys, resets anywhere |
| `session` | keys and nonces in step; the bytes of records; the derivation of keys | connections: 2 secrets, one or both on a connection, lengths below, at and above the modulus 4 of a byte, 4 records each way per connection, 2 under way. Bytes: 3 records of 1 to 9 bytes, 4 values of a byte, blocks of 2. Keys: 2 secrets, 3 renewals |
| `carries` | kernels, Poly1305, field, ChaCha20, SHA-512: is the result the standard's? | words of 4 bits and up to 5 limbs, eight limbs at once become 2; Poly1305 with 3 bytes of 3 bits and modulus 2^11 - 5; 3 limbs of 6 bits and modulus 2^17 - 19, chains of 3; 8-bit words; messages about one and two blocks |
| `curve` | ladder and signatures: is the result the group's? | the ladder: modulus 2^11 - 19, 7 scalars of 8 bits, 60 abscissas; signatures: modulus 2^14 - 3, group of 8 times 2^11 + 5 points, 4 seeds, 3 messages, 132 keys |

Why these are enough. Two controllers and two public keys, with a third that is 0
modulo N, suffice for every
mixture `srp` can hold, since it keeps one proof and two flags. The nine blocks of
`exchange` allow three to four requests between starts, one more than a
commitment, an overwritten `K` and an acceptance need. A piece of 3 in values of 0
to 8 bytes gives no, one, two and three pieces with every remainder. In base 8 a
quotient digit is tried up to three too high (four, the bound stated for every
base, is met from base 32 on), so both the loop that lowers it and the adding back
happen; two limbs are the fewest for which the estimate looks at less than the
whole divisor. Exponents of ten bits contain every run of bits longer than the
longest window, across the boundary of limbs; the thresholds for window sizes, 23,
79, 239 and 671, become 2, 4, 7 and 9 to match. Nonces of 3 bits carry through two
places in 4 records.

On narrow words carries are the rule and not the exception, and TLC covers what
a test with random 64-bit words meets once in 2^60 trials. What the arithmetic
needs of the numbers is kept: the field's modulus is half the range of its limbs
less 19, so that a carry out of the top comes back 38-fold and packing subtracts
up to twice; Poly1305's is 2^(bits + 2) - 5; for signatures it is 5 modulo 8
(2^14 - 3), which is what the square root at `tweetnacl.c:792-804` rests on, with
a curve of cofactor 8 whose prime 2^11 + 5 is as little above a power of two as
2^252 + 277423...493 is, so that `modL` estimates as it does there. Operands
include the modulus, its neighbours, values above it and the largest. The
ladder's curve has A^2 - 4 not a square, as Curve25519's has, and abscissas of the
curve, of its twist and above the modulus. In `sha512` runs a word has 8 bits and
a hash 32 rounds: twice the renewal of the schedule; the rotations are other
ones, since those of 64 bits have no meaning in 8. The hash of `Ed25519` is any
function of bytes to bytes. Blocks of 8 and 16 limbs become 2 and 4, so that
every hand-over between them occurs in five limbs.

A variable of a module that the behaviour at hand does not run is constant: runs
that hold several independent machines (`parsers`, `reduction`, `session`,
`carries`, `curve`) choose one of them in the initial state.

Symmetry is used in `exchange` only (connections; no liveness there), together
with a view that leaves out acknowledgements and replies, on which none of its
properties and none of its enabling conditions depends without hangups. Runs
without deadlock checking are those of programs that end: one message, one
request, one division, one product, one hash, as many records as the bound.

Fairness. Only `heap` (`FairSpec`) and `parsers` use it. `Pairing` assumes weak
fairness of start-up, of the handler's next step, and for each connection of
lwIP delivering what it holds (`Recv`, `ServerClose`): lwIP's task runs whenever
it has something to deliver and a handler runs to its end once called. Nothing
is assumed of controllers, acknowledgements or the absence of resets. `Answered`
says that a waiting M1 or M3 gets its answer - or tcp_write failed, the
connection is gone, or the device went down. `HttpRequest` is one sequential
function.

### What the runs found

- `tlv_roundtrip`: `tlv_encode_next` copies every piece from the start of the
  value (`tlv.c:48`), so the second piece of the 384-byte public key in M2
  repeats its first bytes. `README.md:6` ticks "TLV Decode/Encode". Lengths and
  short values are right (`ShortRoundTrip`).
- `failing`: `MPI_ERROR_CHECK` prints the error of a big-number call and goes on
  (`srp.c:66`). s is then not what the comment at `srp.c:193` says, 0 if the call
  failed before it had a value, and the proof of the K that comes of it is
  accepted, although that K does not depend on the PIN. This is the exception
  `AcceptedIsRight` and `PairSetup` name.

Met while modelling. An `A` that is 0 modulo N is not refused (`srp.c:159`), so its
right proof can be had without the PIN (`Multiples`; `AcceptedIsRight` counts it as
right). A request without `Content-Length`
makes strtok leave the segment (`tcp.c:38-44`, `Stray`). And, where no caller can
meet it, excluded: `mpi_add_abs(X, X, X)` loses carries (`bignum.c:889-891`, `Distinct` in
`MpiRegisters`); an even power of a negative base comes out negated
(`bignum.c:1723`, see `PowerIsRight`); `session_writeData` without encryption
copies the wrong way (`session.c:85`, see `WritePlain`); the guard at `tlv.c:21`
says `&&` where `||` is meant, which lets a message cut off inside a TLV through;
normalisation before division leaves one more bit clear than needed
(`bignum.c:1229`), which makes estimates worse but not wrong
(`DigitsBalance`); `MULADDC_HUIT` of the m68k adds with the flag X as it finds it
(`bn_mul.h:217-221`), so that a product may come out one too high where other
code has left it set (`strayed` in `MulKernels`); without a double-width type
the estimate at `bignum.c:1264-1304` expects the top bit of the divisor to be
set, which the normalisation above does not give, a branch that no build of this
repository compiles (`bignum.h` defines the type for it) and that is not
modelled.

## Proofs

A theorem holds for every value of the constants its assumptions allow, a run for
the one in its `.cfg`. `Lemmas` has what several proofs need: powers and digits of
numbers in any base, quotients, congruences, folds as recursive functions, and
sequences whose elements have no type in common. `MpiLemmas` says, for each
function of `Mpi` and for limbs of every width and number, which integer its
result is.

| Module | Theorem | Says |
|---|---|---|
| `PairingProofs` | `TypeCorrect` | `Spec => []TypeOK` |
| | `AcceptsOnlyRight` | `Spec => []AcceptedIsRight` |
| | `AnswersCoherently` | `Spec => []M4IsCoherent` |
| | `FirstGenuineAccepted` | `Spec => []FirstGenuineM3Accepted` |
| | `AnswersTheRequest` | `Spec => AnswersItsRequest`, an action property |
| | `ImplementsPairSetup` | `Spec => SetupSpec`: every step is a step of `PairSetup` or none |
| | `LeaksExactly` | `Spec => []LeakIsExact` |
| | `SendsAllocatedBlocks` | `Spec => []UnackedAreAllocated` |
| | `AnswersOnce` | `Spec => []OneAnswerPerRequest` |
| `StartupProofs` | `StoreIsWhole` | `Spec => []ValidStoreIsWhole` |
| | `ServesWhatIsStored` | `Spec => []ServesStoredIdentity` |
| `ParsersProofs` | `DecodedStands` | `Spec => []ValuesStand` |
| | `ShortValuesReturn` | `Spec => []ShortRoundTrip` |
| | `PayloadIsTheBody` | `ScanSpec => []PayloadIsBody` |
| | `ScanStays` | `ScanSpec => []ScanStaysInHeaders` |
| `ExpModProofs` | `CacheKeepsItsLimbs` | `Spec => []CacheOwnsItsLimbs` |
| | `PowerIsComputed` | `Spec => []PowerIsRight` |
| | `WindowFollowsExponent` | `Spec => []WindowContinuesPower` |
| `MpiProofs` | `RegistersCompare` | `Spec => []ComparesAsIntegers`, of `MpiRegisters` |
| | `RegistersCompute` | `Spec => []ComputesIntegers`, of `MpiRegisters` |
| | `ReadsWhatItWrote` | `Spec => []WrittenIsRead`, of `MpiRegisters` |
| | `RoundsReduce` | `MontgomerySpec => []RoundReduces` |
| | `ProductsAreReduced` | `MontgomerySpec => []ProductIsReduced` |
| | `DigitsStayBalanced` | `DivisionSpec => []DigitsBalance` |
| | `RemaindersAreResidues` | `DivisionSpec => []IsResidue` |
| `TransportProofs` | `UsesItsKeys` | `Spec => []KeysAreOfConnection` |
| | `OpensRecords` | `Spec => []RecordsOpen` |
| | `KeystreamIsUsedOnce` | `RecordsSpec => []KeystreamUsedOnce` |
| | `RecordsOpenExactly` | `RecordsSpec => []OpensWhatWasSealed` |
| | `KeysAreHkdf` | `DerivationSpec => []DerivesHkdf` |

**Assumptions.** They are named in the modules that declare the constants, and TLC
evaluates them in the runs.

- `Pairing`: `HeapBlocks` is a natural number; `None` is no connection and no
  public key; requests are sequences of TLVs (`RequestsAssumption`), any at all.
- `Startup`, `Session`, `ExpMod`: `None` is nothing that can be drawn, stored,
  agreed on or computed (`NoneAssumption`).
- `Tlv`: `MaxPiece` is positive; values are sequences of numbers, and neighbours in
  a message have different types (`MessagesAssumption`), which is what TLV8 asks of
  a sender, since pieces of one value are told from two values by nothing else.
- `HttpRequest`: no header is empty, contains a line end or a NUL, or is a second
  `Content-Length: ` (`RequestAssumption`); bodies are shorter than 2^16, which
  `payload_len` holds, and the numerals for different lengths differ. Of bodies
  nothing else is assumed. A request may lack the `Content-Length`; the two
  properties then say nothing of it.
- `ExpMod`: exponents are not negative, as `bignum.c:1550` requires, and have a limb.
- `Session`, `Aead`: there are fewer records in a connection than nonces, and fewer
  blocks in a record than the counter counts (`RecordsAssumption`,
  `AeadAssumption`). The code checks neither: with nonces of 8 bytes and a counter
  of 8 bytes nothing gets there.
- `KeyDerivation`: a key is no longer than a hash, and the two labels differ.
- `Mpi`: a limb has a char and a char has a bit; nothing else is assumed of their
  sizes.
- `MpiRegisters`: `mpi_lset` gets what a `t_sint` holds (`DigitsAssumption`), shifts
  and positions are natural numbers (`CountsAssumption`), buffers hold chars
  (`BufsAssumption`), and registers have a bound (`MaxLimbsAssumption`), which may
  be any.
- `MpiMontgomery`: the modulus is positive and odd, which `mpi_exp_mod` checks
  (`bignum.c:1550`), and no factor exceeds it (`ModuliAssumption`): `mpi_exp_mod`
  takes the base modulo N, R^2 is modulo N, products are, and `mpi_montred` passes 1.
  Limbs have at most 4 bits or 4 times a power of two (`WidthsAssumption`), as 8, 16,
  32 and 64 are; `mpi_montg_init` doubles its width from there.
- `MpiDivision`: operands are mpi values and divisors are positive
  (`DivisorsAssumption`); `mpi_mod_mpi` and `mpi_div_mpi` refuse other divisors
  (`bignum.c:1206`, `1387`). Of dividends nothing else is assumed: they may be
  negative, zero, or have high limbs that are zero.

**Pairing.** Neither `AcceptedIsRight` nor `M4IsCoherent` is inductive: what is
accepted at `EndM3` depends on what the two loop rounds before established.
`ExchangeInv` adds exactly that: `HandlerInv` says that, in an M3 that has not
failed, a public key already handled made `K`, `M1` and `M2` those of its `A`
(`KeyStands`), and a proof already handled is `M1` (`ProofStands`); `AcceptedInv`
says that once something was accepted both flags are up and it is `M1` - so a
later `srp_setA` can overwrite `K` but not `M1`, and only `srp_start` or a reset
lowers the flags. "Right" in all of these is right or in `wrong`, which gains the
proof of every wrong K as `srp_setA` computes it and is emptied with the flags; in
a boot whose `srp_init` failed every proof it computes is there. `ImplementsPairSetup`
follows from `ExchangeInv`, step by step.
`FirstGenuineM3Accepted` says that a controller is not refused, which needs the
flags to be down as well: `UntriedInv` says so until an M3 is handled, and
`GenuineInv` follows a genuine request through its stages - nothing read, the key
read, the proof read, both read, in either order - with what `srp` holds in each.
`DueInv` does the same for any request, between the TLVs read so far and the answer
that will be due. `BlocksInv` counts the heap while an answer is under way too, and
knows that the latest request has its block only once the loop has been halted,
which is why no request is answered twice.

**Start-up.** `StoreInv` says how far `crypto_storeKeys` has come: fields up to `i`
hold what is in use, and the last mark is missing until the end. That the marks
come last in `Stores` is what `StoreIsWhole` rests on.

**TLV codec.** `TlvInv` says where every piece is. While the message is encoded,
`EncodedInv` counts the pieces that stand in the buffer, at `PieceStart(s, i, q)` for
the `q`-th of value `i`. Every `MergePiece` moves what was not decoded down by two
bytes, so that for the decoder pieces stand `Shift` below their place (`RestInv`);
`Shift` is what the two counters `data` and `dlength` make of it, so that neither
can run ahead. `ReadInv` keeps what was decoded below `data`, out of reach of the
moves, and `MergeInv` says that a value being joined has whole pieces and that the
next one, if the value has one, comes right after. What the accessory sends is a
message too, the one whose pieces all repeat the first (`arriving`): the decoder is
right about it, and the encoder is what `tlv_roundtrip` finds wrong.

**Request scan.** `ScanInv` says in which line the scan is and what memory looks
like around it: `LineStands` for the lines not read yet, as they were sent, and
`BodyStands` for the body, which no step has written to; lines already read may
have any NULs in them. Where a line ends (`At`) rests on a lemma about a sequence
flattened (`FlattenedParts`). In the `Content-Length` line `NumberStands` has
strtok's pointer before the number, or NULL: the delimiters of `get_value`'s loop
are line ends, but this line's own was overwritten already, so that loop stops at
the NUL and the outer one finds no pointer to go on from. Headers behind
`Content-Length` are never read, and the body is cut from the end, which is why
losing the place does no harm. `MeasuredInv` is all of this for requests with a
`Content-Length`; in them `Stray` and `CutElsewhere` are never enabled
(`NeverStrays`, `NeverElsewhere`).

**Exponentiation.** `MemoryInv` says what may be allocated in each state, and that
R^2 is not in two hands. For the number, `TableInv` says that entries of the table
are the powers of their index, and `ScanInv` that `X` and the window's bits are
together the exponent's bits read so far, which `RemainingInv` continues to the
last bit. The sign is right but for an even power of a negative base, and nothing
is said of the X of a call that fails, which `srp_setA` goes on to use: what comes
of that is `FailedKeys` in `Srp`.

**Big numbers.** The operators of `Mpi` are recursive functions over limbs; what
each returns is a lemma of `MpiLemmas`, proved by induction over the limbs, from the
carry or borrow after each of them: `Magnitude` of the limbs of a sum with its
carry, of a difference with its borrow, of the row `mpi_mul_hlp` adds at an offset,
of limbs shifted by a number of bits, and the order of magnitudes by the highest
limb that differs. For `MpiRegisters` the induction over behaviours is then short -
every register holds a sign and a sequence of limbs (`RegistersOK`) - and all of the
work is in those lemmas, one for each conjunct and each way the arguments may be the
same register. `DigitsAssumption` is needed because a limb holds what `mpi_lset` is
given, and `Distinct` where `mpi_add_abs` reads what it has just written.

**Montgomery multiplication.** `WindowReduces` is not inductive: that the window of
`T` fits the limbs the next round writes depends on what lies behind it.
`MontgomeryInv` adds that the limbs beyond the window are zero (`RoundIsReady`), that
`mm` is the inverse of the lowest limb of N, which makes the limb a round leaves
behind vanish, and that `A` still is what the call got while its limbs are read
(`OperandKept`). A round then takes the window W to (W + a * B + u * N) / Base, which
keeps the congruence modulo N and the bound N + B. `CopyIsClose` carries the bound
over the copy to the last, conditional subtraction. That `mpi_montg_init` doubles
the number of bits that are right, from four, as often as the width is halved down to
eight, is `NewtonStep` and `HalvingsAre`.

**Long division.** `DivisionInv` says where the digits go: those below the place at
hand are still zero (`Open`), and what was divided is the quotient so far, without
the digit being tried, times the divisor, plus X (`Splits`), so that each step may
change the digit and X apart from each other. The rest is about how good the
estimate is. `Shaped` keeps what the shift achieved: Y lies between a quarter of its
highest place and that place (`NormalisedIs`). From that, and from the two highest
limbs of X and the highest of Y, the first estimate is never too low
(`EstimateIsHigh`) and at most four too high (`EstimateIsClose`). The loop takes one
away only where three limbs of X and two of Y prove the digit too high
(`TestedIsTooHigh`), so it never passes the digit; where they do not, it is at most
one too high (`TestedIsClose`), for every base that is 2 or at least 4
(`BaseIsTwoOrFour`), and the one addition of `AddBack` is enough. At the end X is
less than Y, the shift divides it out exactly (`Unscaled`), and the loops of
`mpi_mod_mpi` keep the congruence with A.

**Records and keys.** `SessionKeysInv` says that a connection that encrypts has
the latest secret in `shared` even before keys are derived from it, and that keys
once derived come from one of this connection's secrets;
`RecordsInv` that the nonce of each end counts the records it has sealed or
opened, those under way included, so that records open in order (`NoncesAgree`).
That incrementing bytes with a carry counts is `NextDigit` of `Lemmas`, an
induction over the bytes. For the bytes of records `AeadInv` says that the nonces
and, inside a record, the block counter are the numbers of what was done
(`NoncesCount`, `SealedInv`): two bytes of keystream with equal nonce, block and
index are then of one record and one place, and the block for the authenticator's
key has number 0, which no byte of a text draws. `DerivationInv` has the list of
calls still to come for state, and what salt, key and buffer hold before each.

**Induction over data.** No installed prover can instantiate a theorem with an
operator as parameter. `Lemmas` proves `Induction` for a set of naturals instead,
from the least element of a set (`WellFoundedInduction`), and with it what
recursive functions compute for every input (`StepsExist`, `PowersAreDefined`).

**Only model-checked.**

- `Answered` and `ScanEnds`, which are liveness and need ENABLED.
- `MCKernelsMultiply` and everything of TweetNaCl (`TagIsPoly1305`,
  `FieldKeepsResidue`, `BlockIsChaCha20`, `HashIsSha512`, `MCLadderMultiplies`,
  `EncodingsInvert`, `SignedOpens`): `Field25519` has RECURSIVE operators, which
  leave tlapm without its SMT prover there and in every module above; the others
  fold an operator over the words of a block, which the provers cannot look into.

## Not modelled

Requests in several segments or pbufs, and `WRITE_HEADER_SIZE` and other sizes of
buffers; messages cut off inside a TLV; what `rand` returns; the field
multiplication that `USE_UNACL_SCALARMULT` would call; the SPARC V9 kernel, which
is under `#if 0`; `mpi_div_mpi` without a double-width type; functions of
`bignum.c` under `#if 0`; that the loops of the big numbers end (each counts, or takes
from a number that stays positive; `TriedDigitIsClose` bounds how often a digit is
lowered);
`platform.*` and the configuration headers
(`config.h`, `check_config.h`), which are switches and comments and a third of the
lines of `src/`; Wi-Fi and SDK calls of `accessory.c`; that `lwip_init` is called
late (`tcp.c:177`).

## Plan

Done: pairing first, as the program's purpose, with its abstract specification
and proofs; then what it stands on - codec, request scan, big numbers - and what
surrounds it, start-up and session; then TweetNaCl, the multiplication kernels
and the bytes of records and keys; then proofs of the codec, the request scan, the
exponentiation, the record layer and the keys; then of the big numbers in limbs, the
Montgomery multiplication and the long division. Next, in order:

1. That every division and every product comes to an end, with fairness of the
   processor, and an abstract arithmetic specification that they implement.
2. `HttpRequest` over segments that split a request, and the record layer composed
   with connections.
3. Poly1305 and the field of 2^255 - 19 over lemmas of the kind of `MpiLemmas`, once
   `Field25519` is written without RECURSIVE operators.
