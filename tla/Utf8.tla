-------------------------------- MODULE Utf8 --------------------------------
(***************************************************************************)
(* The functions of str.c that read UTF-8: a text is a sequence of bytes,  *)
(* none of them zero.                                                      *)
(***************************************************************************)
EXTENDS Integers, Sequences, SequencesExt

Ascii == 1 .. 127
Continuation == 128 .. 191
ReplaceChar == 63

\* The byte at i, zero past the end.
ByteAt(s, i) == IF i \in DOMAIN s THEN s[i] ELSE 0

\* zbx_utf8_char_len
CharLen(b) ==
  CASE b <= 127 -> 1 [] b \in 192 .. 223 -> 2 [] b \in 224 .. 239 -> 3 [] b \in 240 .. 247 -> 4
    [] OTHER -> 0

\* Continuation bytes that a first byte announces; 5 and 6 byte sequences are read as well.
Expecting(b) ==
  CASE b \in 192 .. 223 -> 1 [] b \in 224 .. 239 -> 2 [] b \in 240 .. 247 -> 3
    [] b \in 248 .. 251 -> 4 [] OTHER -> 5

Unexpected == Continuation \cup {254, 255}

Overlong(c) ==
  \/ c[1] \in {192, 193}
  \/ c[1] = 224 /\ (c[2] \div 32) % 2 = 0
  \/ c[1] = 240 /\ (c[2] \div 16) % 4 = 0
  \/ c[1] = 248 /\ (c[2] \div 8) % 8 = 0
  \/ c[1] = 252 /\ (c[2] \div 4) % 16 = 0

\* The bits behind the prefix of the first byte, six of every other one.
Utf32(c) == FoldLeft(LAMBDA n, b : (n * 64) + (b % 64), c[1] % (2 ^ (7 - Len(c))), Tail(c))

\* Above U+10FFFF, or bits 11 to 15 those of a surrogate, in whatever plane.
Illegal(n) == n > 1114111 \/ (n \div 2048) % 32 = 27

RefusedCharacter(c) == Overlong(c) \/ Illegal(Utf32(c))

\* How many bytes of a sequence that starts at i are there.
Present(s, i) ==
  LET n == Expecting(s[i])
  IN  CHOOSE k \in 0 .. n : /\ \A j \in 1 .. k : ByteAt(s, i + j) \in Continuation
                            /\ k = n \/ ByteAt(s, i + k + 1) \notin Continuation

\* zbx_is_utf8
IsUtf8(s) ==
  LET from[i \in 1 .. Len(s) + 1] ==
        IF i = Len(s) + 1 THEN TRUE
        ELSE IF s[i] \in Ascii THEN from[i + 1]
        ELSE /\ s[i] \notin Unexpected
             /\ Present(s, i) = Expecting(s[i])
             /\ ~ RefusedCharacter(SubSeq(s, i, i + Expecting(s[i])))
             /\ from[i + Expecting(s[i]) + 1]
  IN  from[1]

\* zbx_replace_invalid_utf8: one mark for each byte that cannot start, each sequence that stops
\* early and each that is refused.
ReplaceInvalidUtf8(s) ==
  LET from[i \in 1 .. Len(s) + 1] ==
        IF i = Len(s) + 1 THEN <<>>
        ELSE IF s[i] \in Ascii THEN <<s[i]>> \o from[i + 1]
        ELSE IF s[i] \in Unexpected THEN <<ReplaceChar>> \o from[i + 1]
        ELSE LET k == Present(s, i)
                 c == SubSeq(s, i, i + k)
             IN  (IF k = Expecting(s[i]) /\ ~ RefusedCharacter(c) THEN c ELSE <<ReplaceChar>>) \o from[i + k + 1]
  IN  from[1]

\* zbx_strlen_utf8: the bytes that are no continuation.
StrlenUtf8(s) == Len(SelectSeq(s, LAMBDA b : b \notin Continuation))

\* zbx_strlen_utf8_nchars: the bytes of the first n characters; one cut short does not count.
NChars(s, n) ==
  LET from[i \in 1 .. Len(s) + 1, m \in 0 .. n] ==
        LET size == IF i > Len(s) THEN 0 ELSE CharLen(s[i])
        IN  IF m = 0 \/ size = 0 \/ i + size - 1 > Len(s) THEN i - 1 ELSE from[i + size, m - 1]
  IN  from[1, n]

\* zbx_strlen_utf8_nbytes: at most n bytes, back to the start of a character.
NBytes(s, n) ==
  IF Len(s) <= n THEN Len(s)
  ELSE CHOOSE k \in 0 .. n : /\ k = 0 \/ s[k + 1] \notin Continuation
                             /\ \A j \in k + 1 .. n : s[j + 1] \in Continuation

\* zbx_strlcpy_utf8 into a buffer of size bytes.
StrlcpyUtf8(s, size) == SubSeq(s, 1, NBytes(s, size - 1))

-----------------------------------------------------------------------------
(* Well-formed texts, by the table of the Unicode standard. *)

SecondByte(b) ==
  CASE b = 224 -> 160 .. 191 [] b = 237 -> 128 .. 159 [] b = 240 -> 144 .. 191
    [] b = 244 -> 128 .. 143 [] b \in 194 .. 243 -> Continuation [] OTHER -> {}

IsCharacter(c) ==
  \/ Len(c) = 1 /\ c[1] \in Ascii
  \/ /\ Len(c) \in 2 .. 4 /\ Len(c) = CharLen(c[1])
     /\ c[2] \in SecondByte(c[1])
     /\ \A k \in 3 .. Len(c) : c[k] \in Continuation

\* The characters of a text, <<>> past the first bytes that are none.
Characters(s) ==
  LET from[i \in 1 .. Len(s) + 1] ==
        LET ends == {j \in i .. Len(s) : IsCharacter(SubSeq(s, i, j))}
        IN  IF ends = {} THEN <<>>
            ELSE <<SubSeq(s, i, CHOOSE j \in ends : TRUE)>> \o from[(CHOOSE j \in ends : TRUE) + 1]
  IN  from[1]

WellFormed(s) == FlattenSeq(Characters(s)) = s

\* U+1D800 to U+1DFFF and the same in the planes above: no surrogates, but refused.
Mistaken(c) == Len(c) = 4 /\ Illegal(Utf32(c))

\* What is accepted is well-formed, and whatever is well-formed is accepted but for the
\* characters mistaken for surrogates; replacing makes every text acceptable, no longer, and
\* changes none that is.
Utf8Judged(s) ==
  /\ IsUtf8(s) => WellFormed(s)
  /\ WellFormed(s) /\ (\A c \in ToSet(Characters(s)) : ~ Mistaken(c)) => IsUtf8(s)
  /\ IsUtf8(ReplaceInvalidUtf8(s)) /\ Len(ReplaceInvalidUtf8(s)) <= Len(s)
  /\ IsUtf8(s) => ReplaceInvalidUtf8(s) = s

\* A well-formed text is counted and cut by characters.
Utf8Cut(s, n) ==
  LET chars == Characters(s)
      some == IF n < Len(chars) THEN n ELSE Len(chars)
  IN  WellFormed(s) =>
      /\ StrlenUtf8(s) = Len(chars)
      /\ SubSeq(s, 1, NChars(s, n)) = FlattenSeq(SubSeq(chars, 1, some))
      /\ n > 0 => LET cut == StrlcpyUtf8(s, n)
                      left == Characters(cut)
                  IN  /\ Len(cut) < n /\ WellFormed(cut)
                      /\ Len(left) < Len(chars) => Len(cut) + Len(chars[Len(left) + 1]) >= n
=============================================================================
