------------------------------- MODULE Doprnt -------------------------------
(***************************************************************************)
(* One call of gmp_asprintf, gmp_snprintf, gmp_sprintf or gmp_fprintf: the *)
(* loop of __gmp_doprnt over a format, the output functions it drives, the *)
(* C library's vsnprintf behind them, and the blocks that are allocated on *)
(* the way.                                                                *)
(*                                                                         *)
(* A format is a sequence of items: the standard text between two          *)
(* conversions of GMP types, which the C library turns into plain text,    *)
(* a conversion of a GMP type, or a count (%n). The sizes 256 and 128 of   *)
(* the code are the constants InitAlloc, FormatSpace and ProbeAlloc.       *)
(***************************************************************************)
EXTENDS DoprntText

CONSTANTS
  Formats,      \* the formats and their arguments: sequences of items
  Sizes,        \* the sizes given to gmp_snprintf, and of a stream's device
  InitAlloc,    \* the first block of gmp_asprintf
  FormatSpace,  \* the first guess of gmp_asprintf_format
  ProbeAlloc,   \* what gmp_snprintf_format starts to probe from
  Limit         \* the most bytes a block can have; the process aborts beyond

Sinks == {"asprintf", "snprintf", "sprintf", "fprintf"}

\* How vsnprintf answers when the text does not fit: with its length (C99), or
\* with -1 or one less than the space (glibc 2.0).
Libraries == {"c99", "minus", "space"}

ASSUME SizesAssumption ==
  /\ Limit \in Nat /\ InitAlloc \in 1..Limit /\ FormatSpace \in 1..Limit /\ ProbeAlloc \in 1..Limit

\* A call of an output function, and what is needed of an item.
Call == [fun : {"memory", "reps"}, text : Seq(STRING)]
ItemOK(it) ==
  \/ it.type = "plain" /\ it.text \in Seq(STRING) /\ it.fails \in BOOLEAN
  \/ it.type \in {"Z", "F"} /\ it.calls \in Seq(Call)
  \/ it.type = "n"
FormatOK(f) ==
  Len(f) \in Nat /\ DOMAIN f = 1..Len(f) /\ \A i \in 1..Len(f) : ItemOK(f[i])

ASSUME JobsAssumption ==
  Sizes \subseteq 0..Limit /\ \A f \in Formats : FormatOK(f)

VARIABLES
  job,      \* the call that is made: [sink, libc, size, items]
  pc,       \* where it is
  item,     \* the index of the current item
  calls,    \* the calls of output functions the current conversion still makes
  d,        \* the sink's state: where it writes, what is left or allocated
  space,    \* of the current try to format
  mem,      \* the bytes of the buffer, or what a stream was given
  held,     \* the blocks that are allocated
  retval, stored

vars == <<job, pc, item, calls, d, space, mem, held, retval, stored>>

\* The items, and the calls that the conversions make for their arguments.
Plain(text, fails) == [type |-> "plain", text |-> text, fails |-> fails]
StoreCount == [type |-> "n"]
Integer(tokens, conv, num, den) ==
  LET p == Param(tokens, conv)
  IN  [type |-> "Z", tokens |-> tokens, conv |-> conv, num |-> num, den |-> den,
       calls |-> IntegerCalls(p, GetStr(num, den, p.base))]
Float(tokens, conv, f) ==
  [type |-> "F", tokens |-> tokens, conv |-> conv, f |-> f,
   calls |-> FloatCalls(Param(tokens, conv), f)]

NUL == "NUL"
Unknown == "?"
Is(sink) == job.sink = sink

\* gmp_vasprintf and its kin: GMP_ASPRINTF_T_INIT, or the caller's array.
Start(sink, libc, size, items) ==
  /\ job = [sink |-> sink, libc |-> libc, size |-> size, items |-> items]
  /\ pc = "next" /\ item = 1 /\ calls = <<>> /\ space = 0 /\ retval = 0 /\ stored = <<>>
  /\ d = [size |-> IF sink = "snprintf" THEN size ELSE 0, buf |-> 0,
          alloc |-> IF sink = "asprintf" THEN InitAlloc ELSE 0]
  /\ mem = [i \in 0..Limit |-> Unknown]
  /\ held = {"format"} \cup (IF sink = "asprintf" THEN {"output"} ELSE {})

Init == \E sink \in Sinks, libc \in Libraries, size \in Sizes, items \in Formats :
          Start(sink, libc, size, items)

-----------------------------------------------------------------------------
(* Memory. *)

\* text written at a place of m, and a NUL after it.
Written(m, at, text) ==
  [i \in 0..Limit |-> IF i \in at..(at + Len(text) - 1) THEN text[i - at + 1] ELSE m[i]]
Terminated(m, at, text) == Written(m, at, Append(text, NUL))
Spoilt(m, at, n) == [i \in 0..Limit |-> IF i \in at..(at + n - 1) THEN Unknown ELSE m[i]]

\* vsnprintf into space > 0 bytes at a place of m: what it leaves and returns. One
\* that fails may leave anything there.
Vsnprintf(m, at, room, piece) ==
  LET len == Len(piece.text)
      cut == SubSeq(piece.text, 1, AtMost(len, room - 1))
  IN  IF piece.fails THEN [mem |-> Spoilt(m, at, room), ret |-> -1]
      ELSE [mem |-> Terminated(m, at, cut),
            ret |-> IF len < room \/ job.libc = "c99" THEN len
                    ELSE IF job.libc = "space" THEN room - 1 ELSE -1]

\* GMP_ASPRINTF_T_NEED: room for n bytes and the NUL, twice as much if the block
\* must grow.
EnoughExactly(dd, newsize) == dd.alloc >= newsize                 \* a slip
Enough(dd, newsize) == dd.alloc > newsize
Grown(dd, n) ==
  LET newsize == dd.size + n
  IN  IF Enough(dd, newsize) THEN dd ELSE [dd EXCEPT !.alloc = 2 * newsize]

\* Reallocation keeps what was in the block; what is beyond it is not the block's.
Moved(m, from, to) == [i \in 0..Limit |-> IF i < AtMost(from, to) THEN m[i] ELSE Unknown]

-----------------------------------------------------------------------------
(* __gmp_doprnt. *)

More == item <= Len(job.items)
Current == job.items[item]

\* DOPRNT_ACCUMULATE: -1 ends the call, anything else is added up.
Accumulate(ret, then) ==
  IF ret = -1 THEN pc' = "error" /\ retval' = retval
  ELSE pc' = then /\ retval' = retval + ret

\* FLUSH, or the remainder of the format: funs->format for standard text.
Flush ==
  /\ pc = "next" /\ More /\ Current.type = "plain"
  /\ pc' = "format" /\ space' = FormatSpace
  /\ UNCHANGED <<job, item, calls, d, mem, held, retval, stored>>

\* A conversion of mpz_t or mpq_t, or of mpf_t: the digits are a block of their
\* own while the output functions are called.
Convert ==
  /\ pc = "next" /\ More /\ Current.type \in {"Z", "F"}
  /\ calls' = Current.calls
  /\ pc' = "calls" /\ held' = held \cup {"digits"}
  /\ UNCHANGED <<job, item, d, space, mem, retval, stored>>

\* %n stores the count so far.
Count ==
  /\ pc = "next" /\ More /\ Current.type = "n"
  /\ stored' = Append(stored, retval) /\ item' = item + 1
  /\ UNCHANGED <<job, pc, calls, d, space, mem, held, retval>>

\* The output of a piece of standard text is over.
Formatted(ret) ==
  Accumulate(ret, "next") /\ item' = item + 1
    /\ UNCHANGED <<job, calls, held, stored>>

\* gmp_asprintf_format, one turn of its loop. A return of space-1 may mean an
\* overflow, so only less is success.
PassedUp(ret, room) == ret                                        \* a slip
Overflowed(ret, room) == IF ret = -1 THEN room - 1 ELSE ret
FitsInAll(ret, room) == ret <= room - 1                           \* a slip
Fits(ret, room) == ret < room - 1
AsprintfFormat ==
  /\ pc = "format" /\ Is("asprintf")
  /\ LET g    == Grown(d, space)
         room == g.alloc - g.size
         v    == Vsnprintf(Moved(mem, d.alloc, g.alloc), g.size, room, Current)
         ret  == Overflowed(v.ret, room)
     IN  IF g.alloc > Limit
         THEN pc' = "abort" /\ UNCHANGED <<item, d, space, mem, retval, job, calls, held, stored>>
         ELSE IF Fits(ret, room)
         THEN /\ Formatted(ret) /\ UNCHANGED space
              /\ mem' = v.mem /\ d' = [g EXCEPT !.size = @ + ret]
         ELSE /\ space' = IF ret = room - 1 THEN 2 * room ELSE ret + 2
              /\ mem' = v.mem /\ d' = g
              /\ UNCHANGED <<pc, item, retval, job, calls, held, stored>>

\* gmp_snprintf_format: if there is no room, or the text may have been cut without
\* telling by how much, its length is found in blocks of twice the size each.
WholeStep(ret, avail) == ret                                      \* a slip
Step(ret, avail) == AtMost(ret, avail - 1)
Unambiguous(ret, avail) == FALSE                                  \* a slip
Ambiguous(ret, avail) == ret = avail - 1
SnprintfFormat ==
  /\ pc = "format" /\ Is("snprintf")
  /\ LET avail == d.size
         v     == Vsnprintf(mem, d.buf, avail, Current)
         step  == Step(v.ret, avail)
     IN  IF avail <= 1
         THEN pc' = "probe" /\ space' = ProbeAlloc /\ UNCHANGED <<d, mem, item, retval, job, calls, held, stored>>
         ELSE /\ mem' = v.mem
              /\ d' = IF v.ret = -1 THEN d ELSE [d EXCEPT !.size = @ - step, !.buf = @ + step]
              /\ IF Ambiguous(v.ret, avail)
                 THEN /\ pc' = "probe" /\ space' = AtLeast(ProbeAlloc, v.ret)
                      /\ UNCHANGED <<item, retval, job, calls, held, stored>>
                 ELSE Formatted(v.ret) /\ UNCHANGED space
NotDoubled(alloc) == alloc                                        \* a slip
Doubled(alloc) == 2 * alloc
SnprintfProbe ==
  /\ pc = "probe"
  /\ LET alloc == Doubled(space)
         ret   == Vsnprintf(mem, 0, alloc, Current).ret
     IN  IF alloc > Limit
         THEN pc' = "abort" /\ UNCHANGED <<space, item, retval, job, calls, held, stored>>
         ELSE IF ret = alloc - 1
         THEN space' = alloc /\ UNCHANGED <<pc, item, retval, job, calls, held, stored>>
         ELSE Formatted(ret) /\ UNCHANGED space
  /\ UNCHANGED <<d, mem>>

\* gmp_sprintf_format, which takes the length of what it finds in the array.
SprintfFormat ==
  /\ pc = "format" /\ Is("sprintf")
  /\ \E n \in IF Current.fails THEN 0..Len(Current.text) ELSE {Len(Current.text)} :
       /\ mem' = Terminated(mem, d.buf, IF Current.fails THEN Repeat(Unknown, n) ELSE Current.text)
       /\ d' = [d EXCEPT !.buf = @ + n]
       /\ Formatted(n)
  /\ UNCHANGED space

-----------------------------------------------------------------------------
(* A stream, on a device that takes job.size bytes. *)

Room == job.size - d.buf
Given(text) ==
  LET n == AtMost(Len(text), Room)
  IN  mem' = Written(mem, d.buf, SubSeq(text, 1, n)) /\ d' = [d EXCEPT !.buf = @ + n]

\* vfprintf itself: it fails when it cannot write everything.
FprintfFormat ==
  /\ pc = "format" /\ Is("fprintf")
  /\ IF Current.fails THEN UNCHANGED <<mem, d>> ELSE Given(Current.text)
  /\ Formatted(IF Current.fails \/ Room < Len(Current.text) THEN -1 ELSE Len(Current.text))
  /\ UNCHANGED space

-----------------------------------------------------------------------------
(* funs->memory and funs->reps, called for the parts of a conversion. *)

Put == Head(calls)
Called(ret) ==
  /\ Accumulate(ret, "calls") /\ calls' = Tail(calls)
  /\ UNCHANGED <<job, item, space, held, stored>>

AsprintfPut ==
  /\ pc = "calls" /\ calls # <<>> /\ Is("asprintf")
  /\ LET n == Len(Put.text)
         g == Grown(d, n)
     IN  IF g.alloc > Limit
         THEN pc' = "abort" /\ UNCHANGED <<job, item, space, held, stored, calls, retval, mem, d>>
         ELSE /\ mem' = Written(Moved(mem, d.alloc, g.alloc), g.size, Put.text)
              /\ d' = [g EXCEPT !.size = @ + n] /\ Called(n)

\* What is cut off still counts.
VisibleWithoutNul(size, len) == AtMost(size, len)                        \* a slip
Visible(size, len) == AtMost(size - 1, len)
CountingVisible(n, len) == n                                      \* a slip
Counting(n, len) == len
SnprintfPut ==
  /\ pc = "calls" /\ calls # <<>> /\ Is("snprintf")
  /\ LET n == IF d.size > 1 THEN Visible(d.size, Len(Put.text)) ELSE 0
     IN  /\ mem' = Written(mem, d.buf, SubSeq(Put.text, 1, n))
         /\ d' = [d EXCEPT !.size = @ - n, !.buf = @ + n]
         /\ Called(Counting(n, Len(Put.text)))

SprintfPut ==
  /\ pc = "calls" /\ calls # <<>> /\ Is("sprintf")
  /\ mem' = Written(mem, d.buf, Put.text) /\ d' = [d EXCEPT !.buf = @ + Len(Put.text)]
  /\ Called(Len(Put.text))

\* fwrite returns what it wrote, which is never -1; the loop of gmp_fprintf_reps
\* looks at nothing else and returns reps.
FprintfPut ==
  /\ pc = "calls" /\ calls # <<>> /\ Is("fprintf") /\ Given(Put.text)
  /\ Called(IF Put.fun = "reps" THEN Len(Put.text) ELSE AtMost(Len(Put.text), Room))

\* The conversion is over, its digits are freed.
KeepDigits(blocks) == blocks                                      \* a slip
FreeDigits(blocks) == blocks \ {"digits"}
ConversionEnds ==
  /\ pc = "calls" /\ calls = <<>>
  /\ pc' = "next" /\ item' = item + 1 /\ held' = FreeDigits(held)
  /\ UNCHANGED <<job, calls, d, space, mem, retval, stored>>

-----------------------------------------------------------------------------
(* The end of the format. *)

\* funs->final: the NUL, and for asprintf the block cut down to what is used.
AnyRoom(dd) == TRUE                                               \* a slip
RoomForNul(dd) == dd.size >= 1
Final ==
  /\ pc = "next" /\ ~More /\ pc' = "done"
  /\ CASE Is("asprintf") ->
            /\ mem' = Moved(Written(mem, d.size, <<NUL>>), d.alloc, d.size + 1)
            /\ d' = [d EXCEPT !.alloc = d.size + 1]
       [] Is("snprintf") ->
            /\ mem' = IF RoomForNul(d) THEN Written(mem, d.buf, <<NUL>>) ELSE mem
            /\ UNCHANGED d
       [] Is("sprintf") -> mem' = Written(mem, d.buf, <<NUL>>) /\ UNCHANGED d
       [] Is("fprintf") -> UNCHANGED <<mem, d>>
  /\ held' = (held \ {"format", "output"}) \cup (IF Is("asprintf") THEN {"result"} ELSE {})
  /\ UNCHANGED <<job, item, calls, space, retval, stored>>

\* error: what the call holds is given back on the common way out. The slip returns at once.
FailAtOnce ==
  /\ pc = "error" /\ pc' = "done" /\ retval' = -1
  /\ held' = FreeDigits(held)
  /\ UNCHANGED <<job, item, calls, d, space, mem, stored>>
Fail ==
  /\ pc = "error" /\ pc' = "done" /\ retval' = -1
  /\ held' = FreeDigits(held) \ {"format"}
  /\ UNCHANGED <<job, item, calls, d, space, mem, stored>>

Next ==
  \/ Flush \/ Convert \/ Count \/ Final \/ Fail
  \/ AsprintfFormat \/ SnprintfFormat \/ SnprintfProbe \/ SprintfFormat \/ FprintfFormat
  \/ AsprintfPut \/ SnprintfPut \/ SprintfPut \/ FprintfPut \/ ConversionEnds

\* A call runs until it returns.
Spec == Init /\ [][Next]_vars /\ WF_vars(Next)
=============================================================================
