------------------------------- MODULE Buffers -------------------------------
(***************************************************************************)
(* Texts that grow in memory (libs/zbxcommon/str.c), cell by cell.  A      *)
(* buffer is its memory and the offset of the next character; what is      *)
(* written behind the memory is lost, and new memory holds anything.       *)
(***************************************************************************)
EXTENDS Integers, Sequences, SequencesExt

Nul == "nul"
Junk == "junk"

\* The pointer before anything is allocated.
NullBuffer == [mem |-> <<>>, offset |-> 0]

Realloc(mem, n) == [i \in 1 .. n |-> IF i \in DOMAIN mem THEN mem[i] ELSE Junk]

\* Bytes to memory, from an offset on; the second is memmove within the same memory.
Write(mem, at, src) ==
  [i \in DOMAIN mem |-> IF i - at \in DOMAIN src THEN src[i - at] ELSE mem[i]]
Move(mem, to, from, n) == Write(mem, to, SubSeq(mem, from + 1, from + n))

\* The characters of src before a zero.
Chars(src) == SubSeq(src, 1, Min({i - 1 : i \in {j \in DOMAIN src : src[j] = Nul}} \cup {Len(src)}))

\* As much memory as is asked for, or the first doubling of it that is enough.
RECURSIVE Doubled(_, _)
Doubled(alloc, least) == IF alloc >= least THEN alloc ELSE Doubled(2 * alloc, least)

Grown(b, n) ==
  Realloc(b.mem, IF b = NullBuffer THEN n + 1 ELSE Doubled(Len(b.mem), b.offset + n + 1))

\* zbx_strncpy_alloc: up to n characters and a zero.
StrncpyAlloc(b, src, n) ==
  LET copied == Chars(SubSeq(src, 1, IF n < Len(src) THEN n ELSE Len(src)))
  IN  [mem |-> Write(Grown(b, n), b.offset, Append(copied, Nul)), offset |-> b.offset + Len(copied)]

\* zbx_str_memcpy_alloc: all of src, zeros included.
StrMemcpyAlloc(b, src) ==
  [mem |-> Write(Grown(b, Len(src)), b.offset, Append(src, Nul)), offset |-> b.offset + Len(src)]

\* zbx_vsnprintf: what fits before the zero.
Printed(text, count) == IF Len(text) < count THEN text ELSE SubSeq(text, 1, count - 1)

\* zbx_snprintf_alloc: a text that fills the memory may have been cut, and is printed again
\* into twice as much.
RECURSIVE SnprintfAlloc(_, _)
SnprintfAlloc(b, text) ==
  LET made == IF b = NullBuffer THEN [mem |-> Realloc(<<>>, Len(text) + 2), offset |-> 0] ELSE b
      avail == Len(made.mem) - made.offset
      written == Printed(text, avail)
      mem == Write(made.mem, made.offset, Append(written, Nul))
  IN  IF Len(written) = avail - 1
      THEN SnprintfAlloc([made EXCEPT !.mem = Realloc(mem, 2 * Len(mem))], text)
      ELSE [mem |-> mem, offset |-> made.offset + Len(written)]

\* zbx_strlcpy to an offset of memory with siz cells from there, and the number of characters.
Strlcpy(mem, at, src, siz) ==
  IF siz = 0 THEN [mem |-> mem, count |-> 0]
  ELSE LET copied == SubSeq(src, 1, IF siz - 1 < Len(src) THEN siz - 1 ELSE Len(src))
       IN  [mem |-> Write(mem, at, Append(copied, Nul)), count |-> Len(copied)]

\* zbx_strlcat; siz counts the text that is there.
Strlcat(mem, src, siz) ==
  LET len == Len(Chars(mem)) IN Strlcpy(mem, len, src, siz - len).mem

\* zbx_strdcat of a text to the text of a buffer.
Strdcat(b, src) ==
  LET len == Len(Chars(b.mem))
      both == Realloc(b.mem, len + Len(src) + 1)
  IN  IF b = NullBuffer THEN [mem |-> Append(src, Nul), offset |-> Len(src)]
      ELSE [mem |-> Strlcpy(both, len, src, Len(src) + 1).mem, offset |-> len + Len(src)]

\* zbx_replace_string of the block from l to r, and its new end; positions start at 0.
ReplaceString(mem, l, r, value) ==
  LET block == r - l + 1
      size == r + Len(Chars(SubSeq(mem, r + 1, Len(mem)))) + Len(value) - block
      room == IF Len(value) > block THEN Realloc(mem, size + 1) ELSE mem
      moved == Move(room, l + Len(value), l + block, size - l - Len(value) + 1)
  IN  IF Len(value) = block THEN [mem |-> Write(mem, l, value), r |-> r]
      ELSE [mem |-> Write(moved, l, value), r |-> l + Len(value) - 1]

\* zbx_replace_mem_dyn of the szTo bytes from an offset; the offset of the buffer is the number
\* of its bytes that are used.
ReplaceMemDyn(b, offset, szTo, from) ==
  LET len == b.offset + Len(from) - szTo
      room == Realloc(b.mem, Doubled(Len(b.mem), len))
      moved == Move(room, offset + Len(from), offset + szTo, len - offset - Len(from))
  IN  IF Len(from) = szTo THEN [b EXCEPT !.mem = Write(@, offset, from)]
      ELSE [mem |-> Write(moved, offset, from), offset |-> len]

-----------------------------------------------------------------------------
(* Texts put together call by call, against sequences. *)

\* A buffer with the text, a zero behind it, all within its memory.
IsText(b, text) ==
  /\ b.offset = Len(text) /\ b.offset < Len(b.mem)
  /\ SubSeq(b.mem, 1, b.offset) = text /\ b.mem[b.offset + 1] = Nul

Done(b, call) ==
  CASE call.op = "strncpy" -> StrncpyAlloc(b, call.text, call.n)
    [] call.op = "memcpy" -> StrMemcpyAlloc(b, call.text)
    [] call.op = "snprintf" -> SnprintfAlloc(b, call.text)

Meant(text, call) ==
  text \o IF call.op = "strncpy" THEN SubSeq(call.text, 1, IF call.n < Len(call.text) THEN call.n ELSE Len(call.text))
          ELSE call.text

\* Whatever is appended, in memory that is given or made, the text is all of it with a zero
\* behind, and none is written outside.
TextsGrow(given, calls) ==
  LET start == IF given = 0 THEN NullBuffer ELSE [mem |-> Realloc(<<Nul>>, given), offset |-> 0]
  IN  calls # <<>> => IsText(FoldLeft(Done, start, calls), FoldLeft(Meant, <<>>, calls))

Spliced(text, from, to, value) ==
  SubSeq(text, 1, from) \o value \o SubSeq(text, to + 1, Len(text))

\* A block is replaced and what stands behind it moved, in the text and in memory of any size.
BlocksReplaced(text, l, r, value, spare) ==
  LET mem == Append(text, Nul)
      replaced == ReplaceString(mem, l, r, value)
      used == [mem |-> Realloc(mem, Len(mem) + spare), offset |-> Len(mem)]
      spliced == ReplaceMemDyn(used, l, r - l + 1, value)
      meant == Append(Spliced(text, l, r + 1, value), Nul)
  IN  /\ SubSeq(replaced.mem, 1, Len(meant)) = meant
      /\ replaced.r = l + Len(value) - 1
      /\ SubSeq(spliced.mem, 1, spliced.offset) = meant

\* Copies and catenations are cut to the memory they have.
CutToSize(one, other, siz) ==
  LET mem == Realloc(Append(one, Nul), siz)
      both == one \o other
      cut == SubSeq(both, 1, IF siz - 1 < Len(both) THEN siz - 1 ELSE Len(both))
      grown == Strdcat(Strdcat(NullBuffer, one), other)
  IN  /\ Len(one) < siz => Chars(Strlcat(mem, other, siz)) = cut
      /\ siz > 0 => LET copied == Strlcpy(Realloc(<<>>, siz), 0, one, siz)
                    IN  copied.count = Len(Chars(copied.mem)) /\ IsPrefix(Chars(copied.mem), one)
      /\ IsText(grown, both)
=============================================================================
