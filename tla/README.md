# A verification development of GMP, as gmp-ninja builds it

`src/gmp/` is the GNU multiple precision arithmetic library, and the rest of the
repository (`BUILD.gn`, `tools/`, `asm.gni`) builds it with GN and Ninja instead of
autotools. The modules here model the parts of the library in which the control is
hard: what the mpz, mpq and mpf functions do to the memory of their arguments, to the
form and to the precision of their results, how gmp_printf fills its buffers, how a fat binary picks
its routines while several threads already call them, the temporary memory in which
the library computes, and how the build puts the mpn layer together. TLC checks them on
small instances; TLAPS proves for every instance that the mpz functions own their blocks and,
from assignment to multiplication and comparison, leave the integers they should, that temporary memory keeps its promise in both implementations, that the initialisation of
the fat binary, the output buffers and the library that the build puts together are safe.

## 1. Inventory

### The components

| Component | State it keeps | Operations | Modules |
| --- | --- | --- | --- |
| mpz life cycle, assignment, addition, multiplication, comparison (`mpz/`) | `_mp_alloc`, `_mp_size`, `_mp_d` of every integer, and the heap | init, init2, init_set, clear, realloc, realloc2, set, set_si, swap, neg, abs, add, sub, add_ui, sub_ui, ui_sub, mul, mul_si, mul_ui, mul_2exp, addmul, submul and their _ui forms, cmp, cmpabs, cmp_si, cmp_ui, fits_slong_p, get_si, get_ui | `MpzStore`, `MpzArith`, `MpzInt`, `Mpz`, `MpzProofs` |
| mpz division (`mpz/`) | the same, and temporary space during a call | tdiv, fdiv and cdiv by an integer, by a word and by a power of two, mod | `MpzDiv`, `MpzClient` |
| mpz bit operations (`mpz/`) | the same | and, ior, xor, com, setbit, clrbit, combit, tstbit, scan0, scan1, popcount, hamdist | `MpzBits`, `MpzClient` |
| mpz number theory, roots, powers, limb access (`mpz/`) | the same, and temporary integers during a call | lcm, gcd_ui, gcdext, invert, divexact_ui, remove, divisible_p and congruent_p with their forms, sqrt, sqrtrem, root, rootrem, pow_ui, ui_pow_ui, powm, powm_ui, limbs_write, limbs_modify, limbs_finish | `MpzNumber`, `MpzPower`, `MpzClient` |
| Fat binary (`mpn/x86_64/fat/`) | `__gmpn_cpuvec`, `__gmpn_cpuvec_initialized` | entry point, stub, `__gmpn_cpuvec_init`, `CPUVEC_THRESHOLD` | `FatCpuvec`, `FatCpuvecProofs` |
| Temporary allocation (`tal-*.c`) | chunks or a list of blocks, a mark per function | TMP_MARK, TMP_ALLOC, TMP_FREE | `TmpAlloc`, `TmpAllocProofs`, `TalNotreent`, `TalNotreentProofs`, `TalReent`, `TalProofs`; its use is in `MpzDiv` |
| Memory functions, errors (`memory.c`, `errno.c`) | three function pointers, `gmp_errno` | allocate, reallocate, free, exceptions | in `MpzStore` |
| mpf floats (`mpf/`) | `_mp_prec`, `_mp_size`, `_mp_exp`, `_mp_d` of every float, and the heap | init, init2, init_set, clear, set_prec, set_prec_raw, swap, set and its forms, neg, abs, add, sub, mul, div with their ui forms, mul_2exp, div_2exp, sqrt, pow_ui, reldiff, trunc, ceil, floor, cmp and its forms, eq, integer_p, get_ui, get_si, fits | `MpfArith`, `MpfMulDiv`, `Mpf`, `MpfProofs` |
| mpq rationals (`mpq/`), gcd and exact division (`mpz/`) | two mpz for every rational, and temporary space | init, clear, set and its forms, get_num, get_den, swap, neg, abs, canonicalize, add, sub, mul, div, inv, mul_2exp, div_2exp, cmp and its forms, equal; mpz gcd, divexact, divexact_gcd | `MpzDiv`, `MpqArith`, `MpqRat`, `Mpq` |
| Formatted output (`printf/`) | the position in a format, a buffer or stream, blocks | gmp_asprintf, gmp_snprintf, gmp_sprintf, gmp_fprintf: standard text, %Z, %Q, %F, %n | `DoprntText`, `Doprnt`, `DoprntPromise`, `DoprntProofs` |
| Build pipeline (`tools/*.py`, `BUILD.gn`, `asm.gni`) | what gn generated, the archive, the library | gn gen, ninja, edits | `AsmBuild`, `AsmBuildProofs` |
| mini-gmp (`mini-gmp/mini-gmp.c`) | as mpz, without temporary space | limb macros, reciprocals, division, digits; the mpz functions it has; probab_prime_p, fac_ui, bin_uiui | `MiniLimb`, `MiniDiv`, `MiniText`, `MiniPrime`, `MiniMpz`, `MiniCalls` |
| mpz factorials, binomials, primes, symbols, import, random, text | as mpz | | planned in part |
| mpn (`mpn/generic`, `mpn/x86_64`) | none: functions on limb arrays | | taken as arithmetic; planned in part |
| rand, scanf, cxx, primesieve | generator state, input | | planned in part |
| tests, tune, demos, table generators | | | not part of the library |

`PROJECT.json` lists them all with their sources and what is left out.

### How they interact

A client owns `mpz_t` structs and passes pointers to them. Any two pointers of a
call may be equal, and the library promises that this changes nothing except for
the two results of one division. An mpz function looks at sizes, asks for room in
its destination (`MPZ_REALLOC`, which may move the block to which an operand also
points), reads the pointers of its operands, calls mpn functions on limb arrays,
and sets the size and sign. Temporary limbs come from TMP_ALLOC, which on the
usual builds is the stack or a list of blocks freed at return. An error (division
by zero, a number with too many limbs) raises SIGFPE and aborts the process.

An mpn function of a fat binary is an entry point that jumps through
`__gmpn_cpuvec`. The first call of any of them installs the vector. Nothing is
locked. Otherwise the library has no shared mutable state: GMP is reentrant as long
as two threads do not use the same object, so threads matter for the fat binary and
for the heap, in which the temporary blocks of all threads lie; `tal-notreent.c` is for
programs with one thread.

### What is hard, and what makes each part correct

* **Aliasing.** A pointer read before a reallocation is stale when the operand is
  the destination; an operand that shares its block with the result is overwritten
  while it is needed. Correct means: every variable holds the integer that the same
  calls on mathematical integers would leave (`Represents`).
* **Ownership of blocks.** Blocks travel between structs (swap), are replaced by
  functions that bypass `_mpz_realloc` (mul), or are borrowed (the temporary divisor
  of mpz_mod). Correct means (`Ownership`): each block is freed once with its present
  size, nothing is written outside one, none has two owners, none is lost.
* **Exact sizes.** Results lose limbs by cancellation and gain one by a carry, and
  every other function decides by sizes. Correct means `Normalized`, and that the
  readers agree with the integers (`Readers`).
* **Two's complement.** The bit operations see an infinite two's complement in a sign and a
  magnitude: x - 1 loses a limb that a final increment may give back, and one bit cleared
  in a negative number can carry through all of it. Correct means `Represents` again.
* **Estimated room.** A power is computed in two buffers whose lengths are estimated from
  those of base and exponent, and must end in the one that is the result; the cofactors of
  mpz_gcdext and the inverse of mpz_invert are mpz_t in temporary space of counted limbs.
  Correct means `Ownership`, in which a write beyond a buffer is a fault, and `Represents`.
* **Widths.** `_mp_alloc` and `_mp_size` are ints (`TypeOK`, `OverflowAborts`);
  conversions have LONG_MIN.
* **Lazy initialisation without locks.** Threads install the vector over each other
  while others use it. Correct means: every call runs the routine decided for the
  chip (`RightChoice`), the flag promises the whole vector (`FlagMeansReady`),
  nobody sees a value that is neither the first nor the final one (`WrittenOnce`),
  and every call gets through (`CallsReturn`, `NoSecondRun`).
* **Temporary space.** Functions nest, and each takes blocks from a place that all of a
  thread, or all threads, share. Correct means: no block overlaps one that is held and
  TMP_FREE ends those of its own function only (`Promise`); the bookkeeping in and
  around the blocks survives (`Inside`, `Accounting`, `FreedRight`), the free function
  gets what was allocated (`FreedRight`), and in the end nothing is left (`Accounting`,
  `NoLeak`, `FreeEnds`).
* **Precision.** An mpf result may use one limb more than its precision, operands are
  cut to it, and cancellation eats limbs. Correct means: the result differs from the
  exact one by less than its precision allows (`Accurate`), fits the block that
  `_mp_prec` implies even after mpf_set_prec_raw, with no temporary float left
  (`Ownership`), and keeps the form that other functions rely on (`Normalized`).
* **Canonical fractions.** An mpq function overwrites numerator and denominator of its
  result one after the other while operands may be the result, exchanges their blocks,
  and computes in temporary mpz_t that must never be reallocated. Correct means: the
  fraction is the exact one in lowest terms (`Represents`), the blocks are owned and the
  temporary ones never outgrown (`Ownership`), and comparisons that look at lengths only
  agree with the fractions (`Readers`).
* **Output of unknown length.** What vsnprintf will write is known only after the fact
  and, with an old C library, not even then. Correct means: nothing is written outside
  (`Inside`, `NeverFull`), the text and the count are those promised (`Delivered`),
  every block is freed on every way out (`NothingHeld`), the search for the
  length ends (`Returns`), and a conversion prints what C prints for the same
  specification (`AsInC`).
* **Two selections of the same files.** gn and ninja each resolve which assembly file
  stands for which function, at different times. Correct means: a library that links
  has every symbol (`Complete`), and its objects are those of the present texts (`Current`). The
  latter does not hold of what assembly files include (see 5).
* **Division without division.** mini-gmp divides by multiplying with reciprocals of one or two
  limbs and corrects estimates that are off by one or two; all of it wraps. Correct
  means: every quotient limb is right when it is stored and the invariant of schoolbook
  division holds after each (`Divides`); reciprocals, digits, primality and factorials are
  those of arithmetic (`Computes`).
* **Generator state**: see the plan.

`PROJECT.json` has these as hazards, each at its line.

## 2. The modules

### mpz

`MpzStore` is the state: a record with the three fields of every struct and the
length and content of every heap block. A block's limbs are one natural number, so
mpn functions become arithmetic, and `Low`, `High` and `Get` say which limbs are
meant. Limbs that nobody has set hold ones; reading a freed or too short block gives
ones as well, so a stale pointer shows as a wrong value, and writing through one
sets `fault`. An operator for a library function maps a store to the *set* of stores
it can return with, because the allocator may put a block anywhere: at the old
place, at a fresh one, or where another block has just been freed. The order of
reallocation and reads is explicit: `Source (s, t, x, n)` reads the operand in `t`,
after the reallocation, as `PTR (x)` does there.

`MpzArith` and `MpzDiv` have one operator per function, of the function's name. A
call inside a function is an application of the callee's operator (mpz_fdiv_qr
calls mpz_set, mpz_tdiv_qr, mpz_sub_ui and mpz_add), and the temporary mpz_t that
some functions declare is the struct `Tmp`.

`MpzInt` is the abstract specification: integers without memory. `Mpz` is a client
that may make any call with any variables; each action applies the operator to
`store` and, next to it, the action of `MpzInt` to the history variable `val`.
`Represents` says that the two agree, so an `mpz_t` implements an integer: a run
that checks it compares every function with its definition, in every heap that
sequences of calls can produce. `MpzClient` extends the client with division, with the
operations of `MpzBits`, whose definitions in `MpzInt` are sets of bits (`BitSet (n)` has a
bit far above the operands that stands for the sign), and with the modules that follow.

`MpzNumber` (divisors, tests of divisibility and congruence, limb access) and `MpzPower`
(roots, powers, powers modulo an integer) follow the same lines, on top of `MpzDiv` and
`MpzBits`. The algorithms that belong to mpz are kept: how mpz_congruent_2exp_p walks two limb arrays of
different signs, the squarings of mpz_n_pow_ui with the room each step finds in the two
buffers, with and without mpn_mul_2 (`PowerFits`), how mpz_powm puts together a power modulo
the odd part and one modulo the power of two, the loop of mpz_powm_ui modulo a shifted
modulus, and the successive squares of a factor in mpz_remove. mpn_gcdext, mpn_remove,
mpn_rootrem, mpn_powm, mpn_powlo and mpn_binvert are arithmetic; which of the many
cofactors mpn_gcdext returns is the least one, as the manual promises. The promises in
`MpzInt` are written from definitions: a gcd is the greatest common divisor, a root the
greatest integer whose power is not above the number.

Abstractions: mpn routines compute what their documentation in `mpn/generic` states,
and overlap of their operands matters only where they forbid it (`mpn_mul`); nails
are 0, as in every build this repository makes; allocation succeeds, because the default
functions abort the process when it does not. Temporary space of TMP_ALLOC is a heap
block that has to be gone when the function returns, in `MpzBits` a plain number.

### Fat binary

`FatCpuvec` has one action per access to the shared vector or flag: `Jump` (the
entry point), `Check` and `Read` (`CPUVEC_THRESHOLD`), `Decide` (all of
`__gmpn_cpuvec_init` up to `CPUVEC_INSTALL`, which is local to the thread),
`Install` (one field) and `SetFlag`. The vector maps a field to the directory whose
routine it holds. The decision follows the switch over the chips; the generated
`CPUVEC_SETUP_<directory>` macros are the constant `Defines`. Steps interleave
atomically in program order: pointers and thresholds are aligned words, the writes
are volatile (`configure.ac:3262`), and x86 keeps the order of stores and of loads.

### Temporary allocation

`TmpAlloc` is what the macros promise: every thread has a stack of functions, each with
a set of regions (sets of memory cells), and a new region is disjoint from all that are
held. Two implementations are shown to implement it by a refinement mapping, `Tmp`,
which reads the regions off the blocks a function was given and the size it asked for:

* `TalNotreent` (`--enable-alloca=malloc-notreentrant`): `chunks` is the list from `xxx`
  to `current`, `total` and `max` the two counters, `marks` the `tmp_marker` of every
  active function. TMP_FREE is a loop: `TmpFree` enters it, `FreeChunk` frees the current
  chunk while it is not the one of the mark, and `FreeEnd` goes back to the mark (`back`
  says that the loop runs). One thread runs, so nothing comes between these steps, but
  the counters must be right at each.
* `TalReent` (alloca and lists, which is how `missing/config.h` sets up this
  repository's build): `frames` holds `__tmp_marker` of every function and `header` what
  is in memory where a header is or was. The loop of `__gmp_tmp_reentrant_free` is three
  steps (`FreeTest`, `FreeGive`, `FreeAdvance`) between which other threads run, and
  freed memory keeps what was in it until it is used again. alloca is external: it
  stacks blocks on the thread's own stack, and they go when the function returns.

In both, the allocation function puts a block at any aligned place that is free, and a
function that never allocated may return without TMP_FREE, as `gmp-impl.h` allows.
A build has one of the two: `MCTal` composes them, with `build` to say which (`EitherSpec`).

### mpf

`MpfArith` has the same kind of store as `MpzStore` (which it uses for limbs as
numbers), with a precision and an exponent, in limbs, for every float. The block of a
float has `_mp_prec + 1` limbs and its length is not recorded: mpf_clear frees by
precision, so `MpfSetPrecRaw` records that a precision was lowered and `Ownership` says
that the block is longer than whatever a function writes. `MpfArith` (life cycle, assignment,
addition, subtraction) and `MpfMulDiv` (products, quotients, roots, powers, shifts,
rounding; words, integers, rationals, comparison, conversion) have one operator per function. Each cuts its operands where the code does and adds, multiplies or
divides the limbs that are left, so a wrong cut shows as a wrong limb. `Mpf` is the client;
its action for a call compares the result with the exact number, and `Accurate` bounds the
difference by the precision, per function: exactly truncated where the code promises
that, one unit of the last limb where it cuts both operands.

### mpq

`MpzDiv` has mpz_gcd and the exact divisions besides division. `MpqArith` (life cycle,
assignment, arithmetic, shifts, comparison) has sequences of these and of the mpz operators,
as the functions of `mpq/` are sequences of calls: a rational `x` is the two structs `Num (x)` and `Den (x)`. A temporary of MPZ_TMP_INIT has a
block outside the heap, of the length the code computes for it; `TmpStructFree` faults
when an mpz function has replaced it. `MpqRat` is the abstract specification, fractions
without memory, and `Mpq` the client, whose `Represents` relates the two as in `Mpz`. The
functions that require canonical operands are given no others; mpq_set_num, mpq_set_den,
mpq_set_si and the initial states of `MCMpq` make some that are not canonical, for
mpq_canonicalize.

### Formatted output

`DoprntText` gives the texts: how the flags, width and precision of a conversion are
collected (`Param`), and the sequence of calls to the output functions that
__gmp_doprnt_integer and __gmp_doprnt_mpf make from them (`IntegerCalls`, `FloatCalls`),
with mpf_get_str as an algorithm on digits. `Doprnt` is one call of gmp_asprintf,
gmp_snprintf, gmp_sprintf or gmp_fprintf as a state machine: the loop over the items of the
format (`Flush`, `Convert`, `Count`), one action per output function (`AsprintfFormat` is
one turn of the loop around vsnprintf, `SnprintfProbe` one probe for the length), and the
ends (`Final`, `Fail`). The C library is external: its vsnprintf answers in one of the three
styles the comments in the code name, or fails. `held` is the blocks that are allocated. A
failing vsnprintf may leave anything in the room it was given. `DoprntPromise` states what a
caller may rely on; `IntegerField` and `FloatForm` are written from the C standard's words
on fprintf and share with the model the digits of a number only.

The digits of mpf_get_str are taken from the exact expansion of the number. The code takes them from a
product with a power of the base cut to the limbs that are needed; for the small
numbers of the run that power is exact.

### mini-gmp

mini-gmp is the subset of GMP in one file, with code of its own from the limbs up, and is
modelled from the limbs up. `MiniLimb` has the macros and loops on limbs that wrap: the
product of two limbs from four of half the size (gmp_umul_ppmm), the divisions by a
reciprocal with their corrections, mpn_invert_3by2 with its adjustments. `MiniDiv` is
mpn_div_qr as a state machine, one limb of the quotient a step. `MiniText` has the conversions
to digits and back, `MiniPrime` the primality test (Miller-Rabin and Lucas), factorials and
binomials, on integers. `MCMini` joins these four.

`MiniMpz` has the mpz functions. They work on the store of `MpzStore` and mostly call one
another: a call is a tuple of the function's name and arguments, which `Do` carries out, and
a body a sequence of calls. The functions build results in local integers and swap them in,
so the hazard is less aliasing than blocks that go astray. `MiniCalls` is the client: every
call is compared with the same `MpzInt` as GMP's, for mini-gmp declares that it does the
same. Its local integers are structs of the same store, which `Ownership` requires to be
gone when the call returns.

### Build pipeline

`AsmBuild` follows one x64 build directory: `Gen` (asm.gni runs select_mpn_asm.py and keeps
the list of assembly files and the C files they replace), `BuildArchive` (build_mpn_asm.py,
which resolves again, assembles and archives), `Link`, and a developer who edits, adds and
removes files and changes the tune. ninja is external: an action runs again when its
command or a listed input has changed. Contents are abstracted to the symbols a file
defines and a version of its text; an object has the versions of its file and of what that
includes. `touched` is what ninja would see as newer than the archive, if it looked at it; it
looks at the listed inputs only. The excerpt of the tree in `MCAsmBuild` has a
file of every kind that the resolution tells apart, a template that is only included, and
an assembly file that another one includes.

### Checking modules

`MCMpz`, `MCMpzCall`, `MCMpf`, `MCMpq`, `MCDoprnt`, `MCTal`, `MCMini`, `MCAsmBuild` and
`MCFatCpuvec` give instances for TLC. `MCMpzCall` is the client of GMP or of mini-gmp
(`mini`), starts from every assignment of values to variables, with tight or roomy
blocks, and makes one call: it reaches operands that sequences from the empty heap
would need many states for. The readers are compared on these first states
(`ReadersAtFirst`); after the call `Represents`, `Normalized` and `Ownership` say that the
integers are again ones of this kind. Definitions whose comment calls them a slip are the mutations
that show each property can fail.

## 3. The runs

| Run | Question | Bounds |
| --- | --- | --- |
| `MpzSequences` | Do sequences of calls on three variables keep heap and values right, whatever is aliased? | limbs of 1 bit, at most 3 limbs |
| `MpzCalls` | One call of any function on integers, bits, divisors, roots, powers or limbs, or of any division: every aliasing of results and operands; rounding, lost limbs, room, the readers | 3 variables; two with any 2 limbs of 2 bits, or 3 or 4 in tight blocks, or three of 0, ±1 and ±6, tight or with room; bits 0, 1, 3, 5, 6; exponents up to 21, powers up to 10 limbs; mini-gmp on three of 0, ±3 and ±20 |
| `MpfCalls` | One call of any mpf function: is the result accurate, in its block, in form? | 2-bit limbs, precisions 1 to 3 limbs, exponents around the precision |
| `MpqCalls` | One call of any mpq function, the result any of the operands: is the fraction right and canonical, are blocks and temporary space, do comparisons agree? | two fractions with parts of one or two 3-bit limbs, tight or with room, and a third that is 0 or not initialised; shifts by 0 to 4 bits |
| `DoprntCalls` | Do buffers, counts and blocks come out right for every sink and style of vsnprintf? Do conversions print what C prints? | formats of up to 4 items, texts up to 8 bytes, sizes 0 to 40; 432 specifications of 8 integers and rationals and 16 floats of 4-bit limbs |
| `FatTwoThreads` | Two threads, any calls | 9 chips, 3 routines, 2 thresholds |
| `Tal` | Do the lists keep the promise while another thread takes what was just freed? Does the stack of chunks, however marks cut the chunks? | lists: 2 threads, 12 units of heap, a size for alloca and one for the heap; stack: 24 units of heap, 3 functions, sizes 1 and 4 with alignment 2, a total of 18 |
| `MiniDivision` | Is every limb of mini-gmp's quotients right? Are its reciprocals, digits, prime tests, factorials? | limbs of 4 bits, dividends of up to 4, divisors of up to 3, from the limbs 0, 1, 8, 15 where there are more than 2; reciprocals of all 8-bit limbs |
| `AsmRebuild` | Is the library complete whatever happens between gn and ninja? Is it stale in nothing but included files, and in those only until the next archive? | 14 assembly files, a template, 3 tunes, 3 changes |
| `MpzMulOverflow`, `FatBmi2`, `AsmTemplates` | Statements of the code's documentation that do not hold, see 5 | |

The bounds, and why they are enough. `W`, the bits of a limb, is 1 or 2: carry,
borrow and shift happen between any two limbs, and a one-bit limb makes the cases "the
high limb is zero" and "a carry goes all the way" frequent. With one bit a machine
word is 0 or 1 (and -1), so the word functions are also run with two. `IntMax`
stands for INT_MAX; at 3 limbs it is within reach, so that the abort of
`_mpz_realloc` is part of the runs. `MulMax` bounds the limbs of the operands of
mpz_mul by `IntMax`, because mpz_mul alone does not abort beyond it (see 5); the run
`MpzMulOverflow` lifts that bound. Three variables are all that a three-operand call
can tell apart; the fourth (q, r, n, d all different) repeats cases in which nothing
is aliased. There is one block per variable and some more for a call in
progress: TLC would find a set of outcomes empty, and the call never made, if there
were too few, so the assumption `BlockAssumption` is stated and every action is seen
to fire. `MCMpzCall` has two spare blocks, with which no call is left without outcome. `Bits` and `Counts` are below, at and above a limb boundary. Blocks are
interchangeable, and so are the variables where the configuration says so: no
definition tells one from another. The spare blocks alone are so in `MCMpzCall`.

In `MpzCalls` the numbers 63 and 192 (`Large`) have three and four limbs. `IntMax` is 15 limbs, so that powers fit (`PowMax` bounds the limbs of base
times exponent). `Exponents` has those that end at once, those that are one squaring or a
squaring and a multiplication, and 21, at which mpz_powm_ui gives way to mpz_powm. A modulus
of mpz_powm has no more low zero bits than the smallest exponent of two limbs (`Powm`): with
64-bit limbs no modulus has 2^64, and with two bits 32 would. The two results of
mpz_sqrtrem, mpz_rootrem and mpz_gcdext are different variables, as the manual requires.

`MaxRuns` caps the count of initialisations at 2, one more than `NoSecondRun`
allows. Two threads are enough to have one that installs, one that overtakes it, and
readers between any two writes; the theorems are for any number.

The constants of `DoprntCalls` keep the order of the code's: the first block (256 there, 4
here) is shorter than some texts, the probe (128, 2) shorter than the first block, and a
text of 8 bytes makes each of them double more than once. `Limit` stands for memory: a call that
would need more aborts, as the default allocation functions do, and
`FailsWithTheLibrary` allows that only where the text itself is that long. In `MpfCalls` limbs of two bits
make cancellation across limbs, and carries into a new one, frequent; exponents differ
by up to one more than the longest operand, where the smaller operand no longer counts.
In `MpqCalls` a limb has three bits, so that two denominators of one limb can have a
common divisor and quotients that are not 1, which is when the temporaries of mpq_add are
full; the fractions are few, with common factors of one and of two limbs, powers of two
among them, and only their canonical forms.
`MaxMoves` in `AsmRebuild` is three: a change to the tree, one to the tune and one back.

mini-gmp is run on fewer values because its functions make many local integers: 20
has three limbs, 3 one that is full. `MiniBlocks` is how many blocks it may have at a time
beside the client's; TLC would report a call that finds none. In mpz_pow_ui an unsigned long has five bits, so that its
loop over the bits ends.

In `MiniDivision` every pair of limbs and every divisor of up to two limbs is there, and longer
operands are made of the limbs around the carries and the highest bit. The first adjustment of
mpn_invert_3by2 happens twice from limbs of 8 bits on only, so the reciprocals are
computed with those too (`WideBits`). Divisors of
three limbs are those that are shifted and divided by their two highest.

In the stack of `Tal` three chunks besides `xxx` can be alive at once, full or not, with up to
three marks in them; one size is rounded up and one asks for a chunk of its own.
`MaxTotal` stops a client that would make the total grow for ever. In its lists the
heap has room for three blocks: two in the list of one thread and one of the other,
which is what it takes for a stale link to lead to a block that somebody holds.
`MaxActive` counts the functions that have not reached TMP_FREE, so a thread may be
freeing while the other is two functions deep. `StackRoom` is what alloca has per thread, and
`SmallMax` the largest size that goes to it (0x7f00 in the code).

`CHECK_DEADLOCK FALSE` is set in the mpz, mpq and mpf runs: a process that aborted makes no
further call, and in `MCMpzCall`, `MCMpq` and `MCMpf` the one call is the end; in the printf runs, where
the return is; in `MiniDivision`, where the division ends; and in the build runs, where the
developer runs out of changes.

Fairness: each thread inside a call keeps taking steps (`WF_vars(Step(t))`). Nothing
in the code waits for another thread, so a scheduler that runs every thread now and
then is all that is assumed. Making calls (`Call`) is not fair: a client may stop. In
`Tal` it is the same: a thread that is in TMP_FREE goes on (`WF_vars(FreeStep(t))`), and nothing
else is fair.
In `Doprnt` a call runs until it returns (`WF_vars(Next)`): one thread makes it and no step
waits for anything.

## 4. What is proved

Every theorem is proved for all values of the constants that meet the assumptions named with
it, and TLC evaluates those assumptions on every run. None of the properties is inductive; each
proof module begins with the invariant that is, and splits over the actions, one lemma each.
TLC checked the invariants on the runs' instances before they were proved.

### mpz: `MpzProofs`

`Ownership` holds after any sequence of calls of the client of `Mpz`, for any number of
variables and blocks, any limb size and any INT_MAX (`OwnershipAlways`), and with it the fields
fit (`FieldsFit`): `|_mp_size| <= _mp_alloc <= INT_MAX`, or the process aborted. The invariant is a
predicate on stores, `Good`: the conjuncts of `Ownership`, types, `_mp_alloc` at most INT_MAX, and
that a struct that is no integer has size 0, which mpz_init_set counts on while the limbs
are there and the size is not.

A library function is an operator from a store to a set of stores, so there is one lemma per
function: from a good store it returns good stores only, whatever arguments are the same. They
rest on what a function is made of. `GrowGood` is MPZ_REALLOC: the store is good again and has
the room that was asked for; `WriteGood` writes limbs and then sets a size within that room,
whatever the limbs are; `MovedGood` is a block that moves. What is left for each function is
arithmetic: that the length it stores is at most the one it asked for, a carry counted
(`AorsGood`, `Mul2ExpGood`, `AorsmulGood`). mpz_mul, which frees and replaces blocks by itself and
copies operands that share theirs with the result, is taken step by step (`NewForShape`,
`CopiedGood`, `FreeShape`, `MulManyGood`).

The hypothesis `MulMax <= IntMax` says that no product has more limbs than INT_MAX. Without it
the theorem is false: mpz_mul does not check (see 5), and `MpzMulOverflow` is the
counterexample to `FieldsFit`.

`Represents` and `Normalized` hold after any sequence of the same calls (`RepresentsAlways`,
`NormalizedAlways`): for limbs of any number of bits, integers of any length, and any arguments
that are the same, each function leaves in memory what the same function on mathematical
integers gives, and its highest limb is not zero. `Sound` is `Good` with exact sizes. `GrowValue`
says that every integer keeps its value when room is made, also for an operand that is the
destination and moves; `WriteValue` that a write changes no integer but one. From these,
`Gives (s, r, w, n)`: in `r`, `w` is `n`, and the others are what they were in `s`. It holds of
each function with the `n` it should have (`AorsValue`, `AorsUiValue`, `Mul2ExpValue`,
`AorsmulValue` and so on), and for a function that calls others it follows from theirs.

What is specific to a function is a lemma about limbs: a sum has one limb more than its longer term
exactly when there is a carry (`SumExact`); a difference is normalized by a search from the top
(`NormalizeExact`); a product of exact numbers has one limb less than both together, or none
(`TimesExact`); a shift by a count that is no multiple of the limb size (`ShiftExact`). The longest
is mpz_aorsmul_1: a difference that came out negative is negated in two's complement, from
w where the product has no more limbs (`ShortValue`), and in two parts, with the borrow of the
first carried through the second, where it has (`LongValue`).
The case of a multiplier whose borrow is a limb of ones (see 5) is among them.

All of this is about `^`, `\div` and `%` with a variable exponent. `Powers`, the second hypothesis,
is the definition of `^` in the module Naturals, `b^0 = 1` and `b^(n + 1) = b * b^n`, of which the
provers know nothing; it is true, and assumes nothing of the code. Induction over the exponent
is replaced by the least natural number for which a fact would fail (`LeastOf`), from which
`PowSum` and `PowOrder` follow.

At last `Agrees` says that `store` is sound and has in each live variable the value of `val`;
every action of the client keeps it (`NextAgrees`), with mpz_swap, mpz_init and mpz_clear, which
change what is live.

From `Agrees` follow the readers (`NumberReadersAlways`): mpz_cmp, mpz_cmpabs, mpz_cmp_si, mpz_cmp_ui,
mpz_fits_slong_p, mpz_get_si and mpz_get_ui answer as the integers do. They decide by `_mp_size` and
look at limbs only where sizes are equal, or at the lowest limb; that this is right needs
exact sizes (`CmpabsReads`, `LowLimb`), and at LONG_MIN that half of the base is a natural number and the
base twice that (`HalfBase`). `Readers` is `NumberReaders` and the readers of bits, which
the runs check.

`TypeOK` (`TypeAlways`) says more than `Good` only of structs that are no integers, and of how a call
may end. For these `Idle` is the invariant: such a struct has no room, and a call ends well or in
the abort of an overflow. It is closed under making room and under writes to live integers, so one short
lemma per function is enough (`NextIdle`).

### Temporary memory: `TmpAllocProofs`, `TalNotreentProofs`, `TalProofs`

Both implementations implement `TmpAlloc` (`KeepsPromise`, `StackKeepsPromise`), step by step under the
mapping `Tmp`, and of `TmpAlloc` it is proved that the regions that are held are pairwise disjoint
(`ApartAlways`). So no two temporary blocks overlap, in either build, for any threads, memory,
alignment and sizes.

For the lists (`TalProofs`) also `FreedRight` and `NoLeak`. The invariant gives every allocated block
one owner, a function that is active or a thread that is in TMP_FREE, and says that the blocks of
an owner are exactly those of the list from its marker, or from where TMP_FREE has got to. That
a list ends, and visits nothing else, is said without induction by the depth of a block: each is
one less than the one before it (`IsList`). Threads meet only at the heap, and a block that is
freed is the first of one list and in no other.

For the stack (`TalNotreentProofs`) also `Inside` and `Accounting`. The core of the invariant is `Sound`:
the chunk and the point that a mark notes are still in the stack; below them are the marks and all the blocks of
the functions that called it, so that going back takes nothing from them; and each chunk up to there has one of their blocks, so that
none is left when the outermost function is done. The count of bytes is a sum over the
chunks, which is defined as a function that adds up one chunk at a time; that it exists and is
unique is proved from the least element of a set of naturals (`SumExists`, `SumUnique`).
`Bounded`, the hypothesis, says that alignment, header and sizes are positive, and `MCTal` assumes
it of its instance. `TalProofs` also carries the results to `EitherSpec`, the specification of the run
(`ListsInEither`, `InsideInEither`, `AccountingInEither`).

### mpf: `MpfProofs`

`Elsewhere` (`ElsewhereAlways`): a call changes the value and the fields of its destination only, for any
floats, precisions, limb size and coinciding arguments. A function ends by writing limbs of the
destination's block, its size and its exponent; whatever it writes there, it touches nothing else
(`Writes`), and this relation composes, so a function of several steps needs one lemma per step.
mpf_pow_ui and mpf_reldiff make floats of their own; they take a free block and give it back, and every
other block and struct is as before (`Touches`, `Changes`). That mpf_pow_ui ends with the result in
the destination goes over the bits of the exponent, by the least bit for which it would not hold
(`LeastOf`). What is left is that two floats have blocks of their own, which every store the
client can start from meets (`StartsAssumption`).

### Fat binary: `FatCpuvecProofs`

For every set of threads, chips, fields and directories
that meet the assumptions of `FatCpuvec`: `TypeOK` (with it that the vector never
holds a null pointer), `RightChoice`, `FlagMeansReady`, `NoSecondRun` and
`WrittenOnce`. The assumptions say that chips are records of the known kinds, that
`Order` lists every field, and that the generic directories define everything except the
preinv routines (`DefinesAssumption`); without the last the default in
`__gmpn_cpuvec_init` would leave a null pointer.

`RightChoice` needs that a pointer which is no
stub is final (`Settled`), and that the flag is read before a threshold (`Trusts`).
`FlagMeansReady` needs that the thread which sets the flag has left every field
final even though others wrote to them since (`Covered`), which is where it matters
that all threads decide the same: they write the same values. `NoSecondRun` needs
that a thread that has left the initialiser left the flag set (`RanOnce`). `IInv` is
the conjunction. The lemma `DecisionRoutine` is the other half: no setup leaves a
hole, whichever way the switch goes.

### Formatted output: `DoprntProofs`

`NeverFull`, `Inside` and `NothingHeld`, for every format, every size, every initial guess
of space and each style of vsnprintf, and the first half of `FailsWithTheLibrary`: a call that
returns -1 had a reason in the C library (`FailuresAreTheLibrarys`). The assumptions are that texts are sequences of
characters (`JobsAssumption`) and that the sizes the code starts from are positive
(`SizesAssumption`). An output function looks at what is
left and not at the whole, so the invariant adds that what is left and where the next
byte goes make up the caller's array (`Shape`), and that a piece of standard text is printed
only where there is one (`Busy`), from which vsnprintf's answer is a length. The lemmas
`VsnprintfInside`, `GrownRoom` and `MovedBeyond` bound what one call of vsnprintf, the macro
GMP_ASPRINTF_T_NEED and the reallocation do. `NothingHeld` needs what is held at each place of
the call (`Blocks`), and that gmp_asprintf never comes to the error exit, which would
forget its block: its loop takes a -1 for lack of room. `Blame` says of every -1 on its way
to the return value where it came from.

### Build: `AsmBuildProofs`

`Complete`, and `Current` (the objects are of the present texts but for included files edited since the
archive was made), for every tree, search path, tune and history. gn and ninja select at different times
from different trees; the invariant ties them by the files that exist and were not touched since the archive
was written: those were there then, so each function they can provide has an object, and
with the present text (`ArchiveSound`). A library links only when none of the inputs was touched
(`LibSound`). `NamesAssumption` says that paths are lists of names and `SymbolsAssumption`
that an assembly file defines what the C file of the same function defines: that is of the
sources, and TLC checks it of the excerpt. `IncludesAssumption` says that what is included are files of the tree.

### Model-checked only

* `CallsReturn`, `FreeEnds` and `Returns`: liveness is out of this prover's reach.
* `Represents` and `Normalized` of what is only in `MpzClient` (division, bits, roots, powers, number
  theory), of mini-gmp, of mpq and of mpf, and `Accurate`. The lemmas about limbs above are the
  way to them; division, gcd and roots need as many again for each algorithm.
* The readers of bits and of limbs, of divisors, of mpq, of mpf and of mini-gmp, which `ReadersAtFirst` and `Readers`
  of mpf compare.
* `Delivered`, `AsInC`, the second half of `FailsWithTheLibrary` and `TypeOK` of the printf
  run: the texts are sums over sequences, so induction over data again.
* `Divides` and `Computes` of mini-gmp: recursive definitions on limbs.
* `Ownership` of mpf and mpq. The room an mpf function needs depends on numbers: the carry out of the
  highest limb of a sum or product is 0 or 1, because both are below a power of the base; and mpq
  relies on mpz_gcd, which puts what it shifted out of both operands into a temporary the
  size of the smaller. Both need lemmas about limbs like those of `MpzProofs`.
* `Ownership` of the functions of `MpzClient` and of mini-gmp, which the runs check.

## 5. Where the code and its documentation differ

* `mpz_mul` stores `usize + vsize` in `_mp_alloc` without the check that
  `_mpz_realloc` and `mpz_init2` make (`mpz/mul.c:117`), while `NEWS:763` says that
  an overflow of the mpz_t type causes an abort. (`MpzMulOverflow`)
* The Broadwell and Skylake cases test the BMI2 bit in a buffer that holds leaf
  0x80000001 and not leaf 7 (`fat.c:378`, `fat.c:391`), so the routines of coreihwl,
  coreibwl and skylake are never chosen there. (`FatBmi2`) That EBX of leaf
  0x80000001 is zero on those chips is what Intel documents, and an assumption of the
  instance.
* `BUILD.gn:256` says that every assembly file the build consumes is an input of the archive, and that an
  edit of any of them makes it again. The list has the files that were selected and not those they
  include with include_mpn, dozens of which the x86_64 directories have: after an edit of
  `fastsse/com-palignr.asm` the library links the object of the old text. (`AsmTemplates`) `Current` says what
  is left: nothing else is stale.

Seen while modelling, without a run of their own:

* `BUILD.gn:181` says that drop_c has removed the C duplicates of the archive's symbols.
  popcount, hamdist and the logical functions stay in `missing/mpn_sec_ops.c`, and
  preinv_divrem_1 in `generic/pre_divrem_1.c`; the latter `configure.ac:3472` skips for
  that reason. Which definition a program gets depends on the order of the archives.
* `mpz/aorsmul_i.c:171` says that mpn_submul_1 never returns MP_LIMB_T_MAX. It does
  when the low limbs of w are small; what saves the code is that those limbs
  are then not zero and mpn_neg takes one off. The results are right, as `Represents` shows.
* `mpn/x86_64/fat/fat_entry.asm:129` says that only one stub is executed, and once.
  Two threads execute two; it is harmless, as the theorems show.
* `mpf_eq (u, v, 0)` reads limbs above its operands (`mpf/eq.c:86`); the manual allows
  any number of bits.
* `gmp_asprintf` takes every -1 of vsnprintf for lack of room and grows its block until
  memory runs out when the format itself is at fault (`vasprintf.c:83`);
  `gmp_snprintf` returns -1 on a library that answers -1 for lack of room
  (`snprntffuns.c:77`); `sprintffuns.c:48` says that -1 is passed upwards and the code
  does not look at it; fwrite never returns -1, so gmp_fprintf misses write errors
  (`printffuns.c:50`). `FailsWithTheLibrary` and `Delivered` say exactly this much.
* `printf/doprntf.c:85` passes base and precision to MPF_SIGNIFICANT_DIGITS
  (`gmp-impl.h:4476`) in each other's place, so the form that %.Fg picks follows from the
  wrong count of digits, and a float of more than 256 limbs indexes `mp_bases` beyond its
  end. `ImpliedPrec` does as the code does; `AsInC` asks that %.Fg prints every digit in
  one of the forms of %g and leaves open by how many digits it chooses.
* A fixed float is rounded twice, by mpf_get_str and by __gmp_doprnt_mpf: `%.0Ff` of
  0.4999 with enough nines prints 1. `AsInC` allows it (`NearestOfTwo`).
* Some flags mean other things than in C (`Ordinary` lists them): `-0` pads with zeros on
  the right, `%#Fg` below 1 counts leading zeros, `0` is not ignored with a precision.
* select_mpn_asm.py calls itself a reproduction of configure's resolution but takes files
  without ABI_SUPPORT(DOS64) on Windows (`configure.ac:3536`) and never builds
  `invert_limb_table`; and the object of a removed file stays in the archive.

* `mini-gmp/README:47` says that its functions are fully compatible with those of GMP as the
  manual specifies them, and names one exception (nails). Its mpz_gcdext returns other cofactors than the manual promises
  (`doc/gmp.texi:3694`) when |a| or |b| is twice the gcd: -39 and -26 give s = 1, t = -2. It does
  not take a null pointer for the gcd (`doc/gmp.texi:3705`); its mpz_divisible_p dies on a divisor 0,
  which `doc/gmp.texi:3490` allows; and its mpz_invert returns 0 for a modulus 1 or -1. `MiniCalls` does not ask
  for the last three, and `MiniGcdext` allows either pair of cofactors for such operands. Its mpz_gcd reads
  limb 0 of a remainder that has none; what it reads is not used for the result.

## 6. What is not modelled, and the plan

In this order:

1. `Ownership` of mpf and of mpq for any instance, with the facts about powers that it needs
   (see 4) as lemmas.
2. `Ownership` of the division, bit and number theoretic functions of `MpzClient`, by lemmas of
   the same kind; in the divisions and powers the room of the temporary copies is the point.
3. `tal-debug.c`, whose checks catch a missing TMP_MARK, as a third refinement of `TmpAlloc`.
4. mpz, continued: `array_init`, `roinit_n`, import and export, Jacobi symbols, perfect powers,
   factorials and binomials, for which the algorithms need larger operands than the sizes do.
5. mpn algorithms as functions, checked against their definition: linear functions
   with overlapping operands, Lehmer gcd and the sieve.
6. The fields that gmp_scanf counts and the Mersenne twister's index.

Left out for good: Toom and FFT multiplication and the mpn number theory on
top of them (the operands on which they leave their base case are beyond TLC), the
assembly routines (machine code with the contract of the generic ones), C++ expression
templates, and the programs that tune, test or generate tables.
