---------------------------- MODULE DoprntProofs ----------------------------
(***************************************************************************)
(* That the output functions of gmp_printf stay inside their buffers,      *)
(* proved for every format, size, style of vsnprintf and guess of space.   *)
(*                                                                         *)
(* What gmp_asprintf writes to is bounded by its block and what            *)
(* gmp_snprintf writes to by its array; neither function looks at that     *)
(* bound. They look at what is left, so the invariant adds that what is    *)
(* left and what is written make up the whole (Shape), and that a piece of *)
(* standard text is being printed only when there is one (Busy).           *)
(*                                                                         *)
(* That nothing stays allocated when a call returns is proved on top of    *)
(* it: what is held follows from where the call is (Blocks), and an error, *)
(* whose exit would forget gmp_asprintf's block, is always the C library's *)
(* (Blame).                                                                *)
(***************************************************************************)
EXTENDS DoprntPromise, SequenceTheorems, TLAPS

Typed ==
  /\ job.sink \in Sinks /\ job.libc \in Libraries /\ job.size \in 0..Limit
  /\ FormatOK(job.items)
  /\ item \in Nat \ {0}
  /\ calls \in Seq(Call)
  /\ d \in [size : Nat, buf : Nat, alloc : Nat]
  /\ space \in Nat

Busy == pc \in {"format", "probe"} => More /\ Current.type = "plain"

Shape ==
  /\ Is("snprintf") => d.buf + d.size = job.size
  /\ Is("fprintf") => d.buf <= job.size

IInv == Typed /\ Busy /\ Shape /\ NeverFull /\ Inside

-----------------------------------------------------------------------------
(* Writing to memory. *)

\* The NUL is one more byte.
LEMMA TextEnds ==
  ASSUME NEW text \in Seq(STRING)
  PROVE  Len(Append(text, NUL)) = Len(text) + 1
<1>1. text \in Seq(STRING \cup {NUL}) /\ NUL \in STRING \cup {NUL}
  OBVIOUS
<1>2. QED
  BY <1>1, AppendProperties

\* A text changes nothing beyond its end.
LEMMA WrittenBeyond ==
  ASSUME NEW m, NEW at \in Nat, NEW text, Len(text) \in Nat,
         NEW i \in 0..Limit, i >= at + Len(text)
  PROVE  Written(m, at, text)[i] = m[i]
BY DEF Written

\* vsnprintf returns -1 or a length, and writes no more than the room it is given.
LEMMA VsnprintfReturns ==
  ASSUME NEW m, NEW at, NEW room \in Nat \ {0}, NEW piece, piece.text \in Seq(STRING)
  PROVE  Vsnprintf(m, at, room, piece).ret \in Nat \cup {-1}
BY DEF Vsnprintf

\* vsnprintf writes nothing beyond the room it is given.
LEMMA VsnprintfInside ==
  ASSUME NEW m, NEW at \in Nat, NEW room \in Nat \ {0}, NEW piece,
         piece.text \in Seq(STRING), piece.fails \in BOOLEAN,
         NEW i \in 0..Limit, i >= at + room
  PROVE  Vsnprintf(m, at, room, piece).mem[i] = m[i]
<1> DEFINE k == AtMost(Len(piece.text), room - 1)
           cut == SubSeq(piece.text, 1, k)
           text == Append(cut, NUL)
           v == Vsnprintf(m, at, room, piece)
<1>1. k \in 0..Len(piece.text) /\ k <= room - 1
  BY DEF AtMost
<1>2. cut \in Seq(STRING) /\ Len(cut) = k
  BY <1>1
<1>3. Len(text) \in Nat /\ Len(text) <= room
  BY <1>1, <1>2, TextEnds
<1>4. CASE piece.fails
  BY <1>4, SizesAssumption DEF Vsnprintf, Spoilt
<1>5. CASE ~piece.fails
  <2>1. v.mem = Written(m, at, text)
    BY <1>5 DEF Vsnprintf, Terminated
  <2> HIDE DEF v, text
  <2>2. i >= at + Len(text)
    BY <1>3, SizesAssumption
  <2>3. Written(m, at, text)[i] = m[i]
    BY <1>3, <2>2, WrittenBeyond
  <2>4. v.mem[i] = m[i]
    BY <2>1, <2>3
  <2>5. QED
    BY <2>4 DEF v
<1>6. QED
  BY <1>4, <1>5

-----------------------------------------------------------------------------
(* GMP_ASPRINTF_T_NEED. *)

\* After it the block has room for n bytes and one more, and is no smaller.
LEMMA GrownRoom ==
  ASSUME NEW dd \in [size : Nat, buf : Nat, alloc : Nat], dd.alloc > dd.size,
         NEW n \in Nat
  PROVE  /\ Grown(dd, n) \in [size : Nat, buf : Nat, alloc : Nat]
         /\ Grown(dd, n).size = dd.size
         /\ Grown(dd, n).alloc > dd.size + n
BY DEF Grown, Enough

\* Moving n of what is left to what is written keeps their sum.
LEMMA Shifted ==
  ASSUME NEW dd \in [size : Nat, buf : Nat, alloc : Nat], NEW n \in Nat, n <= dd.size
  PROVE  LET e == [dd EXCEPT !.size = @ - n, !.buf = @ + n]
         IN  e \in [size : Nat, buf : Nat, alloc : Nat] /\ e.buf + e.size = dd.buf + dd.size
<1> DEFINE a == dd.size - n
           b == dd.buf + n
           e == [dd EXCEPT !.size = a, !.buf = b]
<1>1. dd.size \in Nat /\ dd.buf \in Nat
  OBVIOUS
<1>2. a \in Nat /\ b \in Nat /\ b + a = dd.buf + dd.size
  BY <1>1
<1>3. [dd EXCEPT !.size = @ - n, !.buf = @ + n] = e
  BY <1>1
<1> HIDE DEF a, b
<1>4. e \in [size : Nat, buf : Nat, alloc : Nat]
  BY <1>2
<1>5. e.size = a /\ e.buf = b
  OBVIOUS
<1>6. QED
  BY <1>2, <1>3, <1>4, <1>5

\* What is beyond the new block is not the block's.
LEMMA MovedBeyond ==
  ASSUME NEW m, NEW from \in Nat, NEW to \in Nat, NEW i \in to..Limit
  PROVE  Moved(m, from, to)[i] = Unknown
BY DEF Moved, AtMost

-----------------------------------------------------------------------------
(* The invariant. *)

\* The invariant holds at first.
LEMMA Starts == Init => IInv
<1> SUFFICES ASSUME NEW sink \in Sinks, NEW libc \in Libraries, NEW size \in Sizes,
                    NEW items \in Formats, Start(sink, libc, size, items)
             PROVE  IInv
  BY DEF Init
<1>1. Typed
  <2>1. calls \in Seq(Call)
    BY DEF Start
  <2>2. job.sink \in Sinks /\ job.libc \in Libraries /\ job.size \in 0..Limit /\ FormatOK(job.items)
    BY JobsAssumption DEF Start
  <2>3. d \in [size : Nat, buf : Nat, alloc : Nat]
    BY JobsAssumption, SizesAssumption DEF Start
  <2>4. QED
    BY <2>1, <2>2, <2>3 DEF Start, Typed
<1>2. Busy /\ Shape /\ NeverFull
  BY JobsAssumption, SizesAssumption DEF Start, Busy, Shape, NeverFull, Is
<1>3. Inside
  BY JobsAssumption, SizesAssumption DEF Start, Inside
<1>4. QED
  BY <1>1, <1>2, <1>3 DEF IInv

\* What is known of the item that is printed.
LEMMA CurrentOK ==
  ASSUME Typed, More
  PROVE  ItemOK(Current)
BY DEF Typed, More, Current, FormatOK

\* A piece of standard text that is printed is a text.
LEMMA PlainText ==
  ASSUME Typed, Busy, pc \in {"format", "probe"}
  PROVE  Current.text \in Seq(STRING) /\ Current.fails \in BOOLEAN
BY CurrentOK DEF Busy, ItemOK

\* So is what an output function is called with.
LEMMA PutText ==
  ASSUME Typed, calls # <<>>
  PROVE  Put.text \in Seq(STRING) /\ Len(Put.text) \in Nat /\ Tail(calls) \in Seq(Call)
<1>1. calls \in Seq(Call)
  BY DEF Typed
<1>2. Put \in Call /\ Tail(calls) \in Seq(Call)
  BY <1>1, HeadTailProperties DEF Put
<1>3. Put.text \in Seq(STRING)
  BY <1>2 DEF Call
<1>4. QED
  BY <1>2, <1>3

\* The steps that neither write nor change what is left.
LEMMA QuietStep ==
  ASSUME IInv, Flush \/ Convert \/ Count \/ ConversionEnds \/ Fail \/ UNCHANGED vars
  PROVE  IInv'
<1>1. job' = job /\ d' = d /\ mem' = mem
  BY DEF Flush, Convert, Count, ConversionEnds, Fail, vars
<1>2. Shape' /\ NeverFull' /\ Inside'
  BY <1>1 DEF IInv, Shape, NeverFull, Inside, Is
<1>3. calls' \in Seq(Call)
  BY CurrentOK DEF IInv, Typed, Flush, Convert, Count, ConversionEnds, Fail, vars, ItemOK
<1>4. space' \in Nat /\ item' \in Nat \ {0}
  BY SizesAssumption DEF IInv, Typed, Flush, Convert, Count, ConversionEnds, Fail, vars
<1>5. Typed'
  BY <1>1, <1>3, <1>4 DEF IInv, Typed
<1>6. Busy'
  BY <1>1 DEF IInv, Busy, More, Current, Flush, Convert, Count, ConversionEnds, Fail, vars
<1>7. QED
  BY <1>2, <1>5, <1>6 DEF IInv

\* What an end of Formatted or Called leaves of the invariant to show.
LEMMA FormattedEnds ==
  ASSUME Typed, NEW ret, Formatted(ret), d' \in [size : Nat, buf : Nat, alloc : Nat],
         space' \in Nat
  PROVE  Typed' /\ Busy' /\ job' = job
<1>1. job' = job /\ calls' = calls /\ item' = item + 1 /\ pc' \in {"error", "next"}
  BY DEF Formatted, Accumulate
<1>2. QED
  BY <1>1 DEF Typed, Busy

\* And the end of a call of an output function.
LEMMA CalledEnds ==
  ASSUME Typed, calls # <<>>, NEW ret, Called(ret), d' \in [size : Nat, buf : Nat, alloc : Nat]
  PROVE  Typed' /\ Busy' /\ job' = job
<1>1. job' = job /\ item' = item /\ space' = space /\ calls' = Tail(calls)
        /\ pc' \in {"error", "calls"}
  BY DEF Called, Accumulate
<1>2. QED
  BY <1>1, PutText DEF Typed, Busy

\* gmp_asprintf prints a piece of standard text.
LEMMA AsprintfStep ==
  ASSUME IInv, AsprintfFormat
  PROVE  IInv'
<1> DEFINE g == Grown(d, space)
           room == g.alloc - g.size
           v == Vsnprintf(Moved(mem, d.alloc, g.alloc), g.size, room, Current)
           ret == Overflowed(v.ret, room)
<1>1. Typed /\ Busy /\ Is("asprintf") /\ pc = "format" /\ d.alloc > d.size
  BY DEF IInv, NeverFull, AsprintfFormat
<1>2. /\ d \in [size : Nat, buf : Nat, alloc : Nat] /\ space \in Nat
      /\ g \in [size : Nat, buf : Nat, alloc : Nat] /\ g.size = d.size /\ g.alloc > d.size + space
  BY <1>1, GrownRoom DEF Typed
<1>3. room \in Nat \ {0} /\ g.size + room = g.alloc
  BY <1>2
<1>4. Current.text \in Seq(STRING) /\ Current.fails \in BOOLEAN
  BY <1>1, PlainText
<1>5. v.ret \in Nat \cup {-1}
  BY <1>3, <1>4, VsnprintfReturns
<1>6. ASSUME NEW i \in g.alloc..Limit
      PROVE  v.mem[i] = Unknown
  <2>1. g.size \in Nat /\ i \in 0..Limit /\ i >= g.size + room
    BY <1>2, <1>3, SizesAssumption
  <2>2. v.mem[i] = Moved(mem, d.alloc, g.alloc)[i]
    <3> DEFINE at == g.size
               moved == Moved(mem, d.alloc, g.alloc)
    <3>1. at \in Nat /\ i >= at + room /\ i \in 0..Limit
      BY <2>1
    <3> HIDE DEF at, moved, room
    <3>2. Vsnprintf(moved, at, room, Current).mem[i] = moved[i]
      BY <1>3, <1>4, <3>1, VsnprintfInside
    <3>3. QED
      BY <3>2 DEF at, moved
  <2>3. QED
    BY <1>2, <2>2, MovedBeyond
<1>7. ret \in Nat
  BY <1>3, <1>5 DEF Overflowed
<1>8. CASE g.alloc > Limit
  <2>1. job' = job /\ d' = d /\ mem' = mem /\ pc' = "abort" /\ calls' = calls
          /\ item' = item /\ space' = space
    BY <1>8 DEF AsprintfFormat
  <2>2. QED
    BY <2>1 DEF IInv, Typed, Busy, Shape, NeverFull, Inside, Is
<1>9. CASE ~(g.alloc > Limit) /\ Fits(ret, room)
  <2>1. Formatted(ret) /\ space' = space /\ mem' = v.mem /\ d' = [g EXCEPT !.size = @ + ret]
    BY <1>9 DEF AsprintfFormat
  <2>2. d' \in [size : Nat, buf : Nat, alloc : Nat] /\ d'.alloc = g.alloc /\ d'.size < d'.alloc
    BY <1>2, <1>3, <1>7, <1>9, <2>1 DEF Fits
  <2>3. Typed' /\ Busy' /\ job' = job
    BY <1>1, <1>2, <2>1, <2>2, FormattedEnds
  <2>4. Shape' /\ NeverFull' /\ Inside'
    BY <1>1, <1>6, <2>1, <2>2, <2>3 DEF Shape, NeverFull, Inside, Is
  <2>5. QED
    BY <2>3, <2>4 DEF IInv
<1>10. CASE ~(g.alloc > Limit) /\ ~Fits(ret, room)
  <2>1. /\ space' = IF ret = room - 1 THEN 2 * room ELSE ret + 2
        /\ mem' = v.mem /\ d' = g /\ pc' = pc /\ item' = item /\ job' = job /\ calls' = calls
    BY <1>10 DEF AsprintfFormat
  <2>2. Typed' /\ Busy'
    <3>1. space' \in Nat
      BY <1>3, <1>7, <2>1
    <3>2. d' \in [size : Nat, buf : Nat, alloc : Nat]
      BY <1>2, <2>1
    <3>3. Typed'
      BY <1>1, <2>1, <3>1, <3>2 DEF Typed
    <3>4. Busy'
      BY <1>1, <2>1 DEF Busy, More, Current
    <3>5. QED
      BY <3>3, <3>4
  <2>3. Shape' /\ NeverFull' /\ Inside'
    BY <1>1, <1>2, <1>6, <2>1 DEF Shape, NeverFull, Inside, Is
  <2>4. QED
    BY <2>2, <2>3 DEF IInv
<1>11. QED
  BY <1>8, <1>9, <1>10

\* gmp_asprintf prints a part of a conversion.
LEMMA AsprintfPutStep ==
  ASSUME IInv, AsprintfPut
  PROVE  IInv'
<1> DEFINE n == Len(Put.text)
           g == Grown(d, n)
<1>1. Typed /\ Is("asprintf") /\ calls # <<>> /\ d.alloc > d.size
  BY DEF IInv, NeverFull, AsprintfPut
<1>2. Put.text \in Seq(STRING) /\ n \in Nat
  BY <1>1, PutText
<1>3. /\ d \in [size : Nat, buf : Nat, alloc : Nat]
      /\ g \in [size : Nat, buf : Nat, alloc : Nat] /\ g.size = d.size /\ g.alloc > d.size + n
  BY <1>1, <1>2, GrownRoom DEF Typed
<1>4. CASE g.alloc > Limit
  <2>1. job' = job /\ d' = d /\ mem' = mem /\ pc' = "abort" /\ calls' = calls
          /\ item' = item /\ space' = space
    BY <1>4 DEF AsprintfPut
  <2>2. QED
    BY <2>1 DEF IInv, Typed, Busy, Shape, NeverFull, Inside, Is
<1>5. CASE ~(g.alloc > Limit)
  <2>1. /\ mem' = Written(Moved(mem, d.alloc, g.alloc), g.size, Put.text)
        /\ d' = [g EXCEPT !.size = @ + n] /\ Called(n)
    BY <1>5 DEF AsprintfPut
  <2>2. d' \in [size : Nat, buf : Nat, alloc : Nat] /\ d'.alloc = g.alloc /\ d'.size < d'.alloc
    BY <1>2, <1>3, <2>1
  <2>3. Typed' /\ Busy' /\ job' = job
    BY <1>1, <2>1, <2>2, CalledEnds
  <2>4. \A i \in g.alloc..Limit : mem'[i] = Unknown
    <3> SUFFICES ASSUME NEW i \in g.alloc..Limit
                 PROVE  mem'[i] = Unknown
      OBVIOUS
    <3>1. i \in 0..Limit /\ i >= g.size + Len(Put.text)
      BY <1>2, <1>3
    <3>2. mem'[i] = Moved(mem, d.alloc, g.alloc)[i]
      BY <1>2, <1>3, <2>1, <3>1, WrittenBeyond, SizesAssumption
    <3>3. QED
      BY <1>3, <3>2, MovedBeyond
  <2>5. Shape' /\ NeverFull' /\ Inside'
    BY <1>1, <2>2, <2>3, <2>4 DEF Shape, NeverFull, Inside, Is
  <2>6. QED
    BY <2>3, <2>5 DEF IInv
<1>6. QED
  BY <1>4, <1>5

\* gmp_snprintf prints a piece of standard text.
LEMMA SnprintfStep ==
  ASSUME IInv, SnprintfFormat
  PROVE  IInv'
<1> DEFINE avail == d.size
           v == Vsnprintf(mem, d.buf, avail, Current)
           step == Step(v.ret, avail)
<1>1. Typed /\ Busy /\ Shape /\ Inside /\ Is("snprintf") /\ pc = "format"
  BY DEF IInv, SnprintfFormat
<1>2. d \in [size : Nat, buf : Nat, alloc : Nat] /\ d.buf + d.size = job.size
  BY <1>1 DEF Typed, Shape
<1>3. Current.text \in Seq(STRING) /\ Current.fails \in BOOLEAN
  BY <1>1, PlainText
<1>4. CASE avail <= 1
  <2>1. /\ pc' = "probe" /\ space' = ProbeAlloc /\ d' = d /\ mem' = mem
        /\ item' = item /\ job' = job /\ calls' = calls
    BY <1>4 DEF SnprintfFormat
  <2>2. QED
    BY <1>1, <2>1, SizesAssumption DEF IInv, Typed, Busy, More, Current, Shape, NeverFull, Inside, Is
<1>5. CASE ~(avail <= 1)
  <2>1. v.ret \in Nat \cup {-1}
    BY <1>2, <1>3, <1>5, VsnprintfReturns
  <2>2. /\ mem' = v.mem
        /\ d' = IF v.ret = -1 THEN d ELSE [d EXCEPT !.size = @ - step, !.buf = @ + step]
    BY <1>5 DEF SnprintfFormat
  <2>3. d' \in [size : Nat, buf : Nat, alloc : Nat] /\ d'.buf + d'.size = job.size
    <3>1. CASE v.ret = -1
      BY <1>2, <2>2, <3>1
    <3>2. CASE v.ret # -1
      <4>1. step \in Nat /\ step <= d.size
        BY <1>2, <1>5, <2>1, <3>2 DEF Step, AtMost
      <4>2. d' = [d EXCEPT !.size = @ - step, !.buf = @ + step]
        BY <2>2, <3>2
      <4> HIDE DEF step
      <4>3. QED
        BY <1>2, <4>1, <4>2, Shifted
    <3>3. QED
      BY <3>1, <3>2
  <2>4. Inside'
    <3>1. job' = job
      BY DEF SnprintfFormat, Formatted
    <3>2. job.size \in Nat
      BY <1>1 DEF Typed
    <3>3. \A i \in job.size..Limit : mem'[i] = Unknown
      <4> SUFFICES ASSUME NEW i \in job.size..Limit
                   PROVE  mem'[i] = Unknown
        OBVIOUS
      <4>1. avail \in Nat \ {0} /\ d.buf \in Nat /\ i \in 0..Limit /\ i >= d.buf + avail
        BY <1>2, <1>5, <3>2, SizesAssumption
      <4>2. v.mem[i] = mem[i]
        <5> DEFINE at == d.buf
        <5>1. at \in Nat /\ i >= at + avail /\ i \in 0..Limit /\ avail \in Nat \ {0}
          BY <4>1
        <5> HIDE DEF at, avail
        <5>2. Vsnprintf(mem, at, avail, Current).mem[i] = mem[i]
          BY <1>3, <5>1, VsnprintfInside
        <5>3. QED
          BY <5>2 DEF at
      <4>3. mem[i] = Unknown
        BY <1>1 DEF Inside, Is
      <4>4. QED
        BY <2>2, <4>2, <4>3
    <3>4. QED
      BY <1>1, <3>1, <3>3 DEF Inside, Is
  <2>5. CASE Ambiguous(v.ret, avail)
    <3>1. /\ pc' = "probe" /\ space' = AtLeast(ProbeAlloc, v.ret)
          /\ item' = item /\ job' = job /\ calls' = calls
      BY <1>5, <2>5 DEF SnprintfFormat
    <3>2. space' \in Nat
      BY <1>2, <1>5, <2>1, <2>5, <3>1, SizesAssumption DEF Ambiguous, AtLeast
    <3>3. Typed' /\ Busy'
      BY <1>1, <2>3, <3>1, <3>2 DEF Typed, Busy, More, Current
    <3>4. Shape' /\ NeverFull'
      BY <1>1, <2>3, <3>1 DEF Shape, NeverFull, Is
    <3>5. QED
      BY <2>4, <3>3, <3>4 DEF IInv
  <2>6. CASE ~Ambiguous(v.ret, avail)
    <3>1. Formatted(v.ret) /\ space' = space
      BY <1>5, <2>6 DEF SnprintfFormat
    <3>2. Typed' /\ Busy' /\ job' = job
      BY <1>1, <2>3, <3>1, FormattedEnds DEF Typed
    <3>3. Shape' /\ NeverFull'
      BY <1>1, <2>3, <3>2 DEF Shape, NeverFull, Is
    <3>4. QED
      BY <2>4, <3>2, <3>3 DEF IInv
  <2>7. QED
    BY <2>5, <2>6
<1>6. QED
  BY <1>4, <1>5

\* The probe looks at the length alone.
LEMMA ProbeStep ==
  ASSUME IInv, pc = "probe", SnprintfProbe
  PROVE  IInv'
<1> DEFINE alloc == Doubled(space)
           ret == Vsnprintf(mem, 0, alloc, Current).ret
<1>1. Typed /\ Busy /\ Shape /\ NeverFull /\ Inside /\ d' = d /\ mem' = mem /\ job' = job
  BY DEF IInv, SnprintfProbe, Formatted
<1>2. Shape' /\ NeverFull' /\ Inside'
  BY <1>1 DEF Shape, NeverFull, Inside, Is
<1>3. alloc \in Nat
  BY <1>1 DEF Typed, Doubled
<1>4. CASE Formatted(ret) /\ space' = space
  BY <1>1, <1>2, <1>4, FormattedEnds DEF IInv, Typed
<1>5. CASE ~(Formatted(ret) /\ space' = space)
  <2>1. /\ pc' \in {"abort", "probe"} /\ space' \in {space, alloc}
        /\ item' = item /\ calls' = calls
    BY <1>5 DEF SnprintfProbe
  <2>2. Typed' /\ Busy'
    BY <1>1, <1>3, <2>1 DEF Typed, Busy, More, Current
  <2>3. QED
    BY <1>2, <2>2 DEF IInv
<1>6. QED
  BY <1>4, <1>5

\* gmp_snprintf prints a part of a conversion.
LEMMA SnprintfPutStep ==
  ASSUME IInv, SnprintfPut
  PROVE  IInv'
<1> DEFINE len == Len(Put.text)
           n == IF d.size > 1 THEN Visible(d.size, len) ELSE 0
           cut == SubSeq(Put.text, 1, n)
<1>1. Typed /\ Shape /\ Inside /\ Is("snprintf") /\ calls # <<>>
  BY DEF IInv, SnprintfPut
<1>2. /\ mem' = Written(mem, d.buf, cut)
      /\ d' = [d EXCEPT !.size = @ - n, !.buf = @ + n]
      /\ Called(Counting(n, len))
  BY DEF SnprintfPut
<1>3. /\ d \in [size : Nat, buf : Nat, alloc : Nat] /\ d.buf + d.size = job.size
      /\ Put.text \in Seq(STRING) /\ len \in Nat /\ job.size \in Nat
  BY <1>1, PutText DEF Typed, Shape
<1>4. n \in 0..len /\ n <= d.size
  BY <1>3 DEF Visible, AtMost
<1>5. cut \in Seq(STRING) /\ Len(cut) = n
  BY <1>3, <1>4
<1>6. d' \in [size : Nat, buf : Nat, alloc : Nat] /\ d'.buf + d'.size = job.size
  <2>1. n \in Nat
    BY <1>3, <1>4
  <2> HIDE DEF n
  <2>2. QED
    BY <1>2, <1>3, <1>4, <2>1, Shifted
<1>7. Typed' /\ Busy' /\ job' = job
  BY <1>1, <1>2, <1>6, CalledEnds
<1>8. \A i \in job.size..Limit : mem'[i] = Unknown
  <2> SUFFICES ASSUME NEW i \in job.size..Limit
               PROVE  mem'[i] = Unknown
    OBVIOUS
  <2>1. mem[i] = Unknown
    BY <1>1 DEF Inside, Is
  <2>2. i \in 0..Limit /\ i >= d.buf + Len(cut)
    BY <1>3, <1>4, <1>5
  <2>3. d.buf \in Nat /\ Len(cut) \in Nat
    BY <1>3, <1>4, <1>5
  <2> HIDE DEF cut
  <2>4. Written(mem, d.buf, cut)[i] = mem[i]
    BY <2>2, <2>3, WrittenBeyond
  <2>5. QED
    BY <1>2, <2>1, <2>4
<1>9. Shape' /\ NeverFull' /\ Inside'
  BY <1>1, <1>6, <1>7, <1>8 DEF Shape, NeverFull, Inside, Is
<1>10. QED
  BY <1>7, <1>9 DEF IInv

\* gmp_sprintf has no bound to keep.
LEMMA SprintfStep ==
  ASSUME IInv, SprintfFormat \/ SprintfPut
  PROVE  IInv'
<1>1. Typed /\ Busy /\ Is("sprintf")
  BY DEF IInv, SprintfFormat, SprintfPut
<1>2. Typed' /\ Busy' /\ job' = job
  <2>1. CASE SprintfFormat
    <3>1. Current.text \in Seq(STRING) /\ Current.fails \in BOOLEAN
      BY <1>1, <2>1, PlainText DEF SprintfFormat
    <3>2. PICK n \in Nat : d' = [d EXCEPT !.buf = @ + n] /\ Formatted(n) /\ space' = space
      BY <2>1, <3>1 DEF SprintfFormat
    <3>3. QED
      BY <1>1, <3>2, FormattedEnds DEF Typed
  <2>2. CASE SprintfPut
    <3>1. calls # <<>> /\ Called(Len(Put.text)) /\ d' = [d EXCEPT !.buf = @ + Len(Put.text)]
      BY <2>2 DEF SprintfPut
    <3>2. Len(Put.text) \in Nat
      BY <1>1, <3>1, PutText
    <3>3. d' \in [size : Nat, buf : Nat, alloc : Nat]
      BY <1>1, <3>1, <3>2 DEF Typed
    <3>4. QED
      BY <1>1, <3>1, <3>3, CalledEnds
  <2>3. QED
    BY <2>1, <2>2
<1>3. QED
  BY <1>1, <1>2 DEF IInv, Shape, NeverFull, Inside, Is

\* What a stream's device is given it has room for.
LEMMA GivenInside ==
  ASSUME Typed, Shape, Inside, Is("fprintf"), NEW text \in Seq(STRING), Given(text)
  PROVE  /\ d' \in [size : Nat, buf : Nat, alloc : Nat] /\ d'.buf <= job.size
         /\ \A i \in job.size..Limit : mem'[i] = Unknown
<1> DEFINE n == AtMost(Len(text), Room)
           cut == SubSeq(text, 1, n)
<1>1. d \in [size : Nat, buf : Nat, alloc : Nat] /\ d.buf <= job.size /\ job.size \in Nat
  BY DEF Typed, Shape
<1>2. n \in 0..Len(text) /\ d.buf + n <= job.size
  BY <1>1 DEF AtMost, Room
<1>3. cut \in Seq(STRING) /\ Len(cut) = n
  BY <1>2
<1>4. mem' = Written(mem, d.buf, cut) /\ d' = [d EXCEPT !.buf = @ + n]
  BY DEF Given
<1>5. ASSUME NEW i \in job.size..Limit
      PROVE  mem'[i] = Unknown
  <2>1. mem[i] = Unknown
    BY DEF Inside, Is
  <2>2. i \in 0..Limit /\ i >= d.buf + Len(cut)
    BY <1>1, <1>2, <1>3
  <2>3. d.buf \in Nat /\ Len(cut) \in Nat
    BY <1>1, <1>2, <1>3
  <2> HIDE DEF cut
  <2>4. Written(mem, d.buf, cut)[i] = mem[i]
    BY <2>2, <2>3, WrittenBeyond
  <2>5. QED
    BY <1>4, <2>1, <2>4
<1>6. QED
  BY <1>1, <1>2, <1>4, <1>5

\* A stream is given a text.
LEMMA FprintfStep ==
  ASSUME IInv, FprintfFormat \/ FprintfPut
  PROVE  IInv'
<1>1. Typed /\ Busy /\ Shape /\ Inside /\ Is("fprintf")
  BY DEF IInv, FprintfFormat, FprintfPut
<1>2. /\ Typed' /\ Busy' /\ job' = job /\ d'.buf <= job.size
      /\ \A i \in job.size..Limit : mem'[i] = Unknown
  <2>1. CASE FprintfFormat /\ Current.fails
    <3>1. d' = d /\ mem' = mem /\ Formatted(-1) /\ space' = space
      BY <2>1 DEF FprintfFormat
    <3>2. Typed' /\ Busy' /\ job' = job
      BY <1>1, <3>1, FormattedEnds DEF Typed
    <3>3. QED
      BY <1>1, <3>1, <3>2 DEF Shape, Inside, Is
  <2>2. CASE FprintfFormat /\ ~Current.fails
    <3>1. Given(Current.text) /\ space' = space
      BY <2>2 DEF FprintfFormat
    <3>2. PICK ret : Formatted(ret)
      BY <2>2 DEF FprintfFormat
    <3>3. Current.text \in Seq(STRING)
      BY <1>1, <2>2, PlainText DEF FprintfFormat
    <3>4. /\ d' \in [size : Nat, buf : Nat, alloc : Nat] /\ d'.buf <= job.size
          /\ \A i \in job.size..Limit : mem'[i] = Unknown
      BY <1>1, <3>1, <3>3, GivenInside
    <3>5. Typed' /\ Busy' /\ job' = job
      BY <1>1, <3>1, <3>2, <3>4, FormattedEnds DEF Typed
    <3>6. QED
      BY <3>4, <3>5
  <2>3. CASE FprintfPut
    <3>1. calls # <<>> /\ Given(Put.text)
      BY <2>3 DEF FprintfPut
    <3>2. PICK ret : Called(ret)
      BY <2>3 DEF FprintfPut
    <3>3. Put.text \in Seq(STRING)
      BY <1>1, <3>1, PutText
    <3>4. /\ d' \in [size : Nat, buf : Nat, alloc : Nat] /\ d'.buf <= job.size
          /\ \A i \in job.size..Limit : mem'[i] = Unknown
      BY <1>1, <3>1, <3>3, GivenInside
    <3>5. Typed' /\ Busy' /\ job' = job
      BY <1>1, <3>1, <3>2, <3>4, CalledEnds
    <3>6. QED
      BY <3>4, <3>5
  <2>4. QED
    BY <2>1, <2>2, <2>3
<1>3. QED
  BY <1>1, <1>2 DEF IInv, Shape, NeverFull, Inside, Is

\* The final NUL goes to the byte that was kept for it.
LEMMA FinalStep ==
  ASSUME IInv, Final
  PROVE  IInv'
<1>1. Typed /\ Shape /\ NeverFull /\ Inside
  BY DEF IInv
<1>2. job' = job /\ pc' = "done" /\ item' = item /\ calls' = calls /\ space' = space
  BY DEF Final
<1>3. d \in [size : Nat, buf : Nat, alloc : Nat] /\ job.size \in Nat
  BY <1>1 DEF Typed
<1>4. Len(<<NUL>>) = 1
  OBVIOUS
<1>5. CASE Is("asprintf")
  <2>1. /\ mem' = Moved(Written(mem, d.size, <<NUL>>), d.alloc, d.size + 1)
        /\ d' = [d EXCEPT !.alloc = d.size + 1]
    BY <1>5 DEF Final, Is
  <2>2. \A i \in (d.size + 1)..Limit : mem'[i] = Unknown
    BY <1>3, <2>1, MovedBeyond
  <2>3. Typed' /\ Busy'
    BY <1>1, <1>2, <1>3, <2>1 DEF Typed, Busy
  <2>4. Shape' /\ NeverFull' /\ Inside'
    BY <1>2, <1>3, <1>5, <2>1, <2>2 DEF Shape, NeverFull, Inside, Is
  <2>5. QED
    BY <2>3, <2>4 DEF IInv
<1>6. CASE Is("snprintf")
  <2>1. d' = d /\ mem' = IF RoomForNul(d) THEN Written(mem, d.buf, <<NUL>>) ELSE mem
    BY <1>6 DEF Final, Is
  <2>2. \A i \in job.size..Limit : mem'[i] = Unknown
    <3> SUFFICES ASSUME NEW i \in job.size..Limit
                 PROVE  mem'[i] = Unknown
      OBVIOUS
    <3>1. mem[i] = Unknown
      BY <1>1, <1>6 DEF Inside, Is
    <3>2. CASE RoomForNul(d)
      <4>1. i \in 0..Limit /\ i >= d.buf + 1
        BY <1>1, <1>3, <1>6, <3>2 DEF RoomForNul, Shape
      <4>2. QED
        BY <1>3, <1>4, <2>1, <3>1, <3>2, <4>1, WrittenBeyond, SizesAssumption
    <3>3. CASE ~RoomForNul(d)
      BY <2>1, <3>1, <3>3
    <3>4. QED
      BY <3>2, <3>3
  <2>3. Typed' /\ Busy'
    BY <1>1, <1>2, <2>1 DEF Typed, Busy
  <2>4. Shape' /\ NeverFull' /\ Inside'
    BY <1>1, <1>2, <1>6, <2>1, <2>2 DEF Shape, NeverFull, Inside, Is
  <2>5. QED
    BY <2>3, <2>4 DEF IInv
<1>7. CASE Is("sprintf")
  <2>1. d' = d
    BY <1>7 DEF Final, Is
  <2>2. QED
    BY <1>1, <1>2, <1>7, <2>1 DEF IInv, Typed, Busy, Shape, NeverFull, Inside, Is
<1>8. CASE Is("fprintf")
  <2>1. d' = d /\ mem' = mem
    BY <1>8 DEF Final, Is
  <2>2. QED
    BY <1>1, <1>2, <2>1 DEF IInv, Typed, Busy, Shape, NeverFull, Inside, Is
<1>9. QED
  BY <1>1, <1>5, <1>6, <1>7, <1>8 DEF Typed, Sinks, Is

\* Every step keeps the invariant.
LEMMA Inductive == IInv /\ [Next]_vars => IInv'
<1> SUFFICES ASSUME IInv, [Next]_vars
             PROVE  IInv'
  OBVIOUS
<1>1. CASE Flush \/ Convert \/ Count \/ ConversionEnds \/ Fail \/ UNCHANGED vars
  BY <1>1, QuietStep
<1>2. CASE AsprintfFormat
  BY <1>2, AsprintfStep
<1>3. CASE AsprintfPut
  BY <1>3, AsprintfPutStep
<1>4. CASE SnprintfFormat
  BY <1>4, SnprintfStep
<1>5. CASE SnprintfProbe
  BY <1>5, ProbeStep DEF SnprintfProbe
<1>6. CASE SnprintfPut
  BY <1>6, SnprintfPutStep
<1>7. CASE SprintfFormat \/ SprintfPut
  BY <1>7, SprintfStep
<1>8. CASE FprintfFormat \/ FprintfPut
  BY <1>8, FprintfStep
<1>9. CASE Final
  BY <1>9, FinalStep
<1>10. QED
  BY <1>1, <1>2, <1>3, <1>4, <1>5, <1>6, <1>7, <1>8, <1>9 DEF Next

-----------------------------------------------------------------------------
(* The theorems. *)

\* "alloc > size is maintained": the block of gmp_asprintf has a byte for the final
\* NUL after any sequence of writes, whatever the sizes its growth starts from.
THEOREM NeverFullAlways == Spec => []NeverFull
<1>1. Init /\ [][Next]_vars => []IInv
  BY Starts, Inductive, PTL
<1>2. IInv => NeverFull
  BY DEF IInv
<1>3. QED
  BY <1>1, <1>2, PTL DEF Spec

\* gmp_asprintf writes nothing beyond its block, gmp_snprintf nothing beyond the size
\* it was given, and a stream's device gets no more than it takes.
THEOREM InsideAlways == Spec => []Inside
<1>1. Init /\ [][Next]_vars => []IInv
  BY Starts, Inductive, PTL
<1>2. IInv => Inside
  BY DEF IInv
<1>3. QED
  BY <1>1, <1>2, PTL DEF Spec
-----------------------------------------------------------------------------
(* What is held, and who is to blame. *)

Kept == {"format"} \cup (IF Is("asprintf") THEN {"output"} ELSE {})

\* The digits are held during a conversion only. An error would leave the block
\* that gmp_asprintf writes to, so there must be none.
Blocks ==
  /\ pc \in {"next", "format", "probe"} => held = Kept
  /\ pc = "calls" => held = Kept \cup {"digits"}
  /\ pc = "error" => ~Is("asprintf") /\ held \in {Kept, Kept \cup {"digits"}}
  /\ NothingHeld

\* An error is the C library's, and only an error makes the count -1. Only
\* gmp_snprintf probes for a length, with some space.
Blame ==
  /\ pc = "probe" => Is("snprintf") /\ space # 0
  /\ pc = "error" => LibraryFails
  /\ pc \notin {"error", "done"} => retval \in Nat
  /\ Failed => LibraryFails
\* DOPRNT_ACCUMULATE ends the call on -1 and adds up anything else.
LEMMA Accumulated ==
  ASSUME NEW ret \in Nat \cup {-1}, NEW then, Accumulate(ret, then), retval \in Nat
  PROVE  \/ ret = -1 /\ pc' = "error"
         \/ ret # -1 /\ pc' = then /\ retval' \in Nat
BY DEF Accumulate

\* vsnprintf returns -1 only where the text is at fault or it answers so for want
\* of room.
LEMMA VsnprintfFails ==
  ASSUME job.libc \in Libraries, NEW m, NEW at, NEW room \in Nat \ {0}, NEW piece,
         piece.text \in Seq(STRING), piece.fails \in BOOLEAN,
         Vsnprintf(m, at, room, piece).ret = -1
  PROVE  piece.fails \/ job.libc = "minus"
<1> SUFFICES ASSUME ~piece.fails PROVE job.libc = "minus"
  OBVIOUS
<1>1. Vsnprintf(m, at, room, piece).ret =
        IF Len(piece.text) < room \/ job.libc = "c99" THEN Len(piece.text)
        ELSE IF job.libc = "space" THEN room - 1 ELSE -1
  BY DEF Vsnprintf
<1>2. Len(piece.text) \in Nat
  OBVIOUS
<1> QED BY <1>1, <1>2 DEF Libraries

\* A text on which the C library fails is one of the format.
LEMMA FaultyText ==
  ASSUME IInv, pc \in {"format", "probe"}, Current.fails
  PROVE  SomeFail
<1>1. More /\ Current.type = "plain"
  BY DEF IInv, Busy
<1>2. item \in DOMAIN job.items
  BY <1>1 DEF IInv, Typed, FormatOK, More
<1> QED BY <1>1, <1>2 DEF SomeFail, Current

\* What a step of a piece of text or of a conversion keeps of Blocks, and what of
\* Blame is left to show of it.
LEMMA FormatEnds ==
  ASSUME IInv, Blocks, Blame, pc \in {"format", "probe"}, NEW ret \in Nat \cup {-1},
         Formatted(ret),
         ret = -1 => ~Is("asprintf") /\ LibraryFails'
  PROVE  Blocks' /\ Blame'
<1>1. /\ retval \in Nat /\ held = Kept /\ Kept' = Kept /\ held' = held
      /\ Is("asprintf")' = Is("asprintf")
  BY DEF Blocks, Blame, Formatted, Kept, Is
<1>2. \/ ret = -1 /\ pc' = "error"
      \/ ret # -1 /\ pc' = "next" /\ retval' \in Nat
  BY <1>1, Accumulated DEF Formatted
<1>3. Blocks'
  BY <1>1, <1>2 DEF Blocks, NothingHeld, Done
<1>4. Blame'
  BY <1>2 DEF Blame, Failed, Done
<1> QED BY <1>3, <1>4

\* A call of an output function in a conversion, none of which returns -1.
LEMMA PutEnds ==
  ASSUME IInv, Blocks, Blame, pc = "calls", NEW ret \in Nat, Called(ret)
  PROVE  Blocks' /\ Blame'
<1>1. /\ retval \in Nat /\ held = Kept \cup {"digits"} /\ Kept' = Kept /\ held' = held
  BY DEF Blocks, Blame, Called, Kept, Is
<1>2. pc' = "calls" /\ retval' \in Nat
  BY <1>1, Accumulated DEF Called
<1>3. Blocks'
  BY <1>1, <1>2 DEF Blocks, NothingHeld, Done
<1>4. Blame'
  BY <1>2 DEF Blame, Failed, Done
<1> QED BY <1>3, <1>4

\* A step that stays in the same piece of text, or gives up for want of memory.
LEMMA StayEnds ==
  ASSUME Blocks, Blame, pc \in {"next", "format", "probe", "calls"},
         job' = job, held' = held, retval' = retval,
         \/ pc' = "abort" \/ pc' = pc
         \/ pc \in {"next", "format"} /\ pc' \in {"next", "format", "probe"},
         pc' = "probe" => Is("snprintf") /\ space' # 0
  PROVE  Blocks' /\ Blame'
<1>1. retval \in Nat /\ Kept' = Kept
  BY DEF Blame, Kept, Is
<1>2. Blocks'
  BY <1>1 DEF Blocks, NothingHeld, Done
<1>3. Blame'
  BY <1>1 DEF Blame, Failed, Done, Is
<1> QED BY <1>2, <1>3

\* gmp_asprintf takes -1 for want of room: it tries again, or has no more memory.
LEMMA AsprintfBlame ==
  ASSUME IInv, Blocks, Blame, AsprintfFormat \/ AsprintfPut
  PROVE  Blocks' /\ Blame'
<1>1. Typed /\ Busy /\ Is("asprintf") /\ d.alloc > d.size
  BY DEF IInv, NeverFull, AsprintfFormat, AsprintfPut
<1>2. CASE AsprintfFormat
  <2> DEFINE g == Grown(d, space)
             room == g.alloc - g.size
             v == Vsnprintf(Moved(mem, d.alloc, g.alloc), g.size, room, Current)
             ret == Overflowed(v.ret, room)
  <2>1. pc = "format"
    BY <1>2 DEF AsprintfFormat
  <2>2. g.size = d.size /\ g.alloc > d.size + space /\ g.alloc \in Nat
        /\ d.size \in Nat /\ space \in Nat
    BY <1>1, GrownRoom DEF Typed
  <2>3. room \in Nat \ {0}
    BY <2>2
  <2>4. Current.text \in Seq(STRING) /\ Current.fails \in BOOLEAN
    BY <1>1, <2>1, PlainText
  <2>5. v.ret \in Nat \cup {-1}
    BY <2>3, <2>4, VsnprintfReturns
  <2>6. ret \in Nat
    BY <2>3, <2>5 DEF Overflowed
  <2>7. \/ Formatted(ret)
        \/ /\ job' = job /\ held' = held /\ retval' = retval
           /\ pc' = "abort" \/ pc' = pc
    BY <1>2 DEF AsprintfFormat
  <2> HIDE DEF ret
  <2> QED BY <2>1, <2>6, <2>7, FormatEnds, StayEnds
<1>3. CASE AsprintfPut
  <2>1. pc = "calls" /\ Len(Put.text) \in Nat
    BY <1>1, <1>3, PutText DEF AsprintfPut
  <2>2. \/ Called(Len(Put.text))
        \/ job' = job /\ held' = held /\ retval' = retval /\ pc' = "abort"
    BY <1>3 DEF AsprintfPut
  <2> QED BY <2>1, <2>2, PutEnds, StayEnds
<1> QED BY <1>2, <1>3

\* gmp_snprintf passes on a -1 of vsnprintf, of its own try and of a probe.
LEMMA SnprintfBlame ==
  ASSUME IInv, Blocks, Blame, SnprintfFormat \/ SnprintfPut \/ SnprintfProbe
  PROVE  Blocks' /\ Blame'
<1>1. Typed /\ Busy /\ Is("snprintf") /\ job.libc \in Libraries
  BY DEF IInv, Typed, Blame, SnprintfFormat, SnprintfPut, SnprintfProbe
<1>2. ASSUME pc \in {"format", "probe"}, NEW m, NEW at, NEW room \in Nat \ {0},
             job' = job, Vsnprintf(m, at, room, Current).ret = -1
      PROVE  ~Is("asprintf") /\ LibraryFails'
  <2>1. Current.text \in Seq(STRING) /\ Current.fails \in BOOLEAN
    BY <1>1, <1>2, PlainText
  <2>2. Current.fails \/ job.libc = "minus"
    BY <1>1, <1>2, <2>1, VsnprintfFails
  <2>3. ~Is("asprintf") /\ Is("snprintf")'
    BY <1>1, <1>2 DEF Is
  <2>4. CASE Current.fails
    <3>1. SomeFail
      BY <1>2, <2>4, FaultyText
    <3>2. SomeFail'
      BY <1>2, <3>1 DEF SomeFail
    <3> QED BY <1>2, <2>3, <3>2 DEF LibraryFails, Is
  <2>5. CASE job.libc = "minus"
    BY <1>2, <2>3, <2>5 DEF LibraryFails
  <2> QED BY <2>2, <2>4, <2>5
<1>3. CASE SnprintfFormat
  <2> DEFINE avail == d.size
             v == Vsnprintf(mem, d.buf, avail, Current)
  <2>1. pc = "format" /\ avail \in Nat
    BY <1>1, <1>3 DEF SnprintfFormat, Typed
  <2>2. CASE Formatted(v.ret) /\ ~(avail <= 1)
    <3>1. Current.text \in Seq(STRING) /\ avail \in Nat \ {0}
      BY <1>1, <2>1, <2>2, PlainText
    <3>2. v.ret \in Nat \cup {-1}
      BY <3>1, VsnprintfReturns
    <3>3. job' = job
      BY <2>2 DEF Formatted
    <3>4. v.ret = -1 => ~Is("asprintf") /\ LibraryFails'
      BY <1>2, <2>1, <3>1, <3>3
    <3> HIDE DEF v
    <3> QED BY <2>1, <2>2, <3>2, <3>4, FormatEnds
  <2>3. CASE /\ job' = job /\ held' = held /\ retval' = retval /\ pc' = "probe"
             /\ space' \in {ProbeAlloc, AtLeast(ProbeAlloc, v.ret)}
             /\ space' # ProbeAlloc => Ambiguous(v.ret, avail) /\ ~(avail <= 1)
    <3>1. space' # 0
      <4>1. CASE space' = ProbeAlloc
        BY <4>1, SizesAssumption
      <4>2. CASE space' # ProbeAlloc
        <5>1. v.ret = avail - 1 /\ v.ret \in Nat
          BY <2>1, <2>3, <4>2 DEF Ambiguous
        <5> QED BY <2>3, <4>2, <5>1, SizesAssumption DEF AtLeast
      <4> QED BY <4>1, <4>2
    <3> QED BY <1>1, <2>1, <2>3, <3>1, StayEnds
  <2> QED BY <1>3, <2>2, <2>3 DEF SnprintfFormat
<1>4. CASE SnprintfProbe
  <2> DEFINE alloc == Doubled(space)
             ret == Vsnprintf(mem, 0, alloc, Current).ret
  <2>1. pc = "probe" /\ alloc \in Nat /\ alloc # 0 /\ space # 0
    BY <1>1, <1>4 DEF SnprintfProbe, Typed, Doubled, Blame
  <2>2. CASE Formatted(ret)
    <3>1. Current.text \in Seq(STRING) /\ alloc \in Nat \ {0}
      BY <1>1, <2>1, <2>2, PlainText
    <3>2. ret \in Nat \cup {-1}
      BY <3>1, VsnprintfReturns
    <3>3. job' = job
      BY <2>2 DEF Formatted
    <3>4. ret = -1 => ~Is("asprintf") /\ LibraryFails'
      BY <1>2, <2>1, <3>1, <3>3
    <3> HIDE DEF ret
    <3> QED BY <2>1, <2>2, <3>2, <3>4, FormatEnds
  <2>3. CASE /\ job' = job /\ held' = held /\ retval' = retval /\ pc' \in {"abort", pc}
             /\ space' \in {space, alloc}
    BY <1>1, <2>1, <2>3, StayEnds
  <2> QED BY <1>4, <2>1, <2>2, <2>3 DEF SnprintfProbe
<1>5. CASE SnprintfPut
  <2>1. pc = "calls" /\ Len(Put.text) \in Nat /\ Called(Len(Put.text))
    BY <1>1, <1>5, PutText DEF SnprintfPut, Counting
  <2> QED BY <2>1, PutEnds
<1> QED BY <1>3, <1>4, <1>5
\* gmp_sprintf counts what it finds in the array.
LEMMA SprintfBlame ==
  ASSUME IInv, Blocks, Blame, SprintfFormat \/ SprintfPut
  PROVE  Blocks' /\ Blame'
<1>1. Typed /\ Busy
  BY DEF IInv
<1>2. CASE SprintfFormat
  <2>1. Current.text \in Seq(STRING) /\ Current.fails \in BOOLEAN /\ pc = "format"
    BY <1>1, <1>2, PlainText DEF SprintfFormat
  <2>2. PICK n \in Nat : Formatted(n)
    BY <1>2, <2>1 DEF SprintfFormat
  <2> QED BY <2>1, <2>2, FormatEnds
<1>3. CASE SprintfPut
  <2>1. pc = "calls" /\ Len(Put.text) \in Nat /\ Called(Len(Put.text))
    BY <1>1, <1>3, PutText DEF SprintfPut
  <2> QED BY <2>1, PutEnds
<1> QED BY <1>2, <1>3

\* A stream fails on the text, or on a device that is full from then on.
LEMMA FprintfBlame ==
  ASSUME IInv, Blocks, Blame, FprintfFormat \/ FprintfPut
  PROVE  Blocks' /\ Blame'
<1>1. /\ Typed /\ Busy /\ Is("fprintf") /\ ~Is("asprintf") /\ d.buf <= job.size
      /\ d \in [size : Nat, buf : Nat, alloc : Nat] /\ job.size \in Nat
  BY DEF IInv, Typed, Shape, FprintfFormat, FprintfPut, Is
<1>2. Room \in Nat
  BY <1>1 DEF Room
<1>3. CASE FprintfFormat
  <2>1. pc = "format" /\ job' = job
    BY <1>3 DEF FprintfFormat, Formatted
  <2>2. Current.text \in Seq(STRING) /\ Len(Current.text) \in Nat
    BY <1>1, <2>1, PlainText
  <2> DEFINE ret == IF Current.fails \/ Room < Len(Current.text) THEN -1
                    ELSE Len(Current.text)
  <2>3. Formatted(ret) /\ ret \in Nat \cup {-1}
    BY <1>3, <2>2 DEF FprintfFormat
  <2>4. ASSUME ret = -1 PROVE LibraryFails'
    <3>1. Current.fails \/ (~Current.fails /\ Room < Len(Current.text))
      BY <2>2, <2>4
    <3>2. CASE Current.fails
      <4>1. SomeFail
        BY <2>1, <3>2, FaultyText
      <4> QED BY <1>1, <2>1, <4>1 DEF SomeFail, LibraryFails, Is
    <3>3. CASE ~Current.fails /\ Room < Len(Current.text)
      <4>1. Given(Current.text)
        BY <1>3, <3>3 DEF FprintfFormat
      <4>2. AtMost(Len(Current.text), Room) = Room
        BY <1>2, <2>2, <3>3 DEF AtMost
      <4>3. d' = [d EXCEPT !.buf = @ + Room]
        BY <4>1, <4>2 DEF Given
      <4>4. d'.buf = job.size
        BY <1>1, <4>3 DEF Room
      <4> QED BY <1>1, <2>1, <4>4 DEF LibraryFails, Is
    <3> QED BY <3>1, <3>2, <3>3
  <2> HIDE DEF ret
  <2> QED BY <1>1, <2>1, <2>3, <2>4, FormatEnds
<1>4. CASE FprintfPut
  <2>1. pc = "calls" /\ Len(Put.text) \in Nat
    BY <1>1, <1>4, PutText DEF FprintfPut
  <2> DEFINE ret == IF Put.fun = "reps" THEN Len(Put.text) ELSE AtMost(Len(Put.text), Room)
  <2>2. Called(ret) /\ ret \in Nat
    BY <1>2, <1>4, <2>1 DEF FprintfPut, AtMost
  <2> HIDE DEF ret
  <2> QED BY <2>1, <2>2, PutEnds
<1> QED BY <1>3, <1>4

\* The steps between the texts, and the two ends.
LEMMA OtherBlame ==
  ASSUME IInv, Blocks, Blame,
         \/ Flush \/ Convert \/ Count \/ ConversionEnds \/ Final \/ Fail
         \/ UNCHANGED vars
  PROVE  Blocks' /\ Blame'
<1>1. "digits" \notin Kept
  BY DEF Kept
<1>2. CASE Flush
  BY <1>2, StayEnds DEF Flush
<1>3. CASE Count
  BY <1>3, StayEnds DEF Count
<1>4. CASE Convert
  BY <1>4 DEF Convert, Blocks, Blame, Kept, Is, NothingHeld, Done, Failed
<1>5. CASE ConversionEnds
  <2>1. held' = Kept
    BY <1>1, <1>5 DEF ConversionEnds, FreeDigits, Blocks
  <2> QED BY <1>5, <2>1 DEF ConversionEnds, Blocks, Blame, Kept, Is, NothingHeld, Done, Failed
<1>6. CASE Final
  <2>1. held' = IF Is("asprintf") THEN {"result"} ELSE {}
    BY <1>6 DEF Final, Blocks, Kept
  <2>2. retval \in Nat /\ retval' = retval /\ pc' = "done" /\ job' = job
    BY <1>6 DEF Final, Blame
  <2> QED BY <2>1, <2>2 DEF Blocks, Blame, NothingHeld, Done, Failed, Is
<1>7. CASE Fail
  <2>1. ~Is("asprintf") /\ LibraryFails /\ pc' = "done" /\ job' = job /\ d' = d
    BY <1>7 DEF Fail, Blocks, Blame
  <2>2. held' = {}
    BY <1>7, <2>1 DEF Fail, FreeDigits, Blocks, Kept
  <2>3. LibraryFails'
    BY <2>1 DEF LibraryFails, SomeFail, Is
  <2> QED BY <2>1, <2>2, <2>3 DEF Blocks, Blame, NothingHeld, Done, Is
<1>8. CASE UNCHANGED vars
  <2>1. /\ pc' = pc /\ job' = job /\ d' = d /\ held' = held /\ retval' = retval
        /\ space' = space
    BY <1>8 DEF vars
  <2>2. LibraryFails' = LibraryFails /\ Kept' = Kept
    BY <2>1 DEF LibraryFails, SomeFail, Is, Kept
  <2> QED BY <2>1, <2>2 DEF Blocks, Blame, NothingHeld, Done, Failed, Is
<1> QED BY <1>2, <1>3, <1>4, <1>5, <1>6, <1>7, <1>8

\* The three invariants hold for ever.
LEMMA BlameAlways == Spec => [](IInv /\ Blocks /\ Blame)
<1>1. Init => IInv /\ Blocks /\ Blame
  <2> SUFFICES ASSUME Init PROVE Blocks /\ Blame
    BY Starts
  <2>1. /\ pc = "next" /\ retval = 0
        /\ held = {"format"} \cup (IF Is("asprintf") THEN {"output"} ELSE {})
    BY DEF Init, Start, Is
  <2> QED BY <2>1 DEF Blocks, Blame, Kept, NothingHeld, Done, Failed
<1>2. IInv /\ Blocks /\ Blame /\ [Next]_vars => (IInv /\ Blocks /\ Blame)'
  <2> SUFFICES ASSUME IInv, Blocks, Blame, [Next]_vars
               PROVE  IInv' /\ Blocks' /\ Blame'
    OBVIOUS
  <2>1. IInv'
    BY Inductive
  <2>2. CASE AsprintfFormat \/ AsprintfPut
    BY <2>1, <2>2, AsprintfBlame
  <2>3. CASE SnprintfFormat \/ SnprintfPut \/ SnprintfProbe
    BY <2>1, <2>3, SnprintfBlame
  <2>4. CASE SprintfFormat \/ SprintfPut
    BY <2>1, <2>4, SprintfBlame
  <2>5. CASE FprintfFormat \/ FprintfPut
    BY <2>1, <2>5, FprintfBlame
  <2>6. CASE Flush \/ Convert \/ Count \/ ConversionEnds \/ Final \/ Fail \/ UNCHANGED vars
    BY <2>1, <2>6, OtherBlame
  <2> QED BY <2>2, <2>3, <2>4, <2>5, <2>6 DEF Next
<1> QED BY <1>1, <1>2, PTL DEF Spec

\* Every block is freed when a call returns, with an error too, except the one that
\* gmp_asprintf returns: for it __gmp_doprnt must never come to its error exit, which
\* forgets the block, and never does.
THEOREM NothingHeldAlways == Spec => []NothingHeld
<1>1. Blocks => NothingHeld
  BY DEF Blocks
<1> QED BY <1>1, BlameAlways, PTL

\* A call returns -1 only where the C library fails on the text, a device is full, or
\* a vsnprintf of the -1 style is short of room: the first half of
\* FailsWithTheLibrary.
THEOREM FailuresAreTheLibrarys == Spec => [](Failed => LibraryFails)
<1>1. Blame => (Failed => LibraryFails)
  BY DEF Blame
<1> QED BY <1>1, BlameAlways, PTL
=============================================================================
