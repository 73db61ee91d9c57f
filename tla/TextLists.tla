------------------------------ MODULE TextLists ------------------------------
(***************************************************************************)
(* Lists, lines and names in texts: the remaining string functions of      *)
(* libs/zbxcommon.                                                         *)
(***************************************************************************)
EXTENDS TextSteps

CONSTANTS
  MaxHostname,   \* MAX_ZBX_HOSTNAME_LEN
  MaxDnsname,    \* MAX_ZBX_DNSNAME_LEN
  MaxPort        \* 65535

SpaceOrTab == {" ", "\t"}

\* The order of characters in C, as far as they are used here.
Code(c) ==
  IF c = "" THEN 0
  ELSE CHOOSE k \in 1 .. 16 :
         <<"\t", " ", ",", "-", ".", "0", "1", "2", "5", "7", "9", "A", "C", "_", "a", "c">>[k] = c

-----------------------------------------------------------------------------
(* Lists of integers and of words. *)

\* %d of sscanf: blanks, a sign, digits.
ScanInt(s, i) ==
  LET b == Skip(s, i, SpaceOrTab)
      d == IF At(s, b) \in {"-", "+"} THEN b + 1 ELSE b
      e == Skip(s, d, Digit)
      n == FoldLeft(LAMBDA m, c : m * 10 + DigitValue[c], 0, SubSeq(s, d, e - 1))
  IN  [ok |-> e > d, next |-> e, value |-> IF e = d THEN 0 ELSE IF At(s, b) = "-" THEN -n ELSE n]

\* int_in_list: each entry two integers with a dash between them, or whatever atoi makes of it.
IntInList(list, value) ==
  LET Entry(s) ==
        LET i1 == ScanInt(s, 1)
            i2 == ScanInt(s, i1.next + 1)
        IN  IF i1.ok /\ At(s, i1.next) = "-" /\ i2.ok THEN value \in i1.value .. i2.value
            ELSE value = i1.value
      entries == Split(list, ",")
      last == Len(entries)
  IN  \E k \in 1 .. last : (k < last \/ entries[k] # <<>>) /\ Entry(entries[k])

\* zbx_trim_str_list, entry by entry; out is what has been written.
RECURSIVE TrimFrom(_, _, _, _)
TrimFrom(s, i, out, delimiter) ==
  LET j == Skip(s, i, SpaceOrTab)
      e == Find(s, j, {delimiter})
      written == out \o SubSeq(s, j, e - 1)
      trimmed == IF written = <<>> THEN written ELSE Rtrim(written, SpaceOrTab)
  IN  IF i > Len(s) THEN out
      ELSE IF At(s, e) = delimiter THEN TrimFrom(s, e + 1, Append(trimmed, delimiter), delimiter)
      ELSE trimmed

TrimStrList(list, delimiter) == TrimFrom(list, 1, <<>>, delimiter)

\* str_linefeed
StrLinefeed(src, maxline, delim) ==
  LET feeds == Len(src) \div maxline - (IF Len(src) % maxline # 0 \/ src = <<>> THEN 0 ELSE 1)
  IN  FlattenSeq([k \in 1 .. feeds |-> SubSeq(src, (k - 1) * maxline + 1, k * maxline) \o delim])
        \o SubSeq(src, feeds * maxline + 1, Len(src))

-----------------------------------------------------------------------------
(* Comparisons. *)

\* zbx_strncasecmp of texts that are there, from i on in the first one.
Strncasecmp(s1, i, s2, n) ==
  LET l1 == Lower(s1)
      l2 == Lower(s2)
      same == CHOOSE k \in 0 .. n :
                /\ \A j \in 1 .. k : At(l1, i + j - 1) = At(l2, j) /\ At(l2, j) # ""
                /\ k = n \/ At(l1, i + k) # At(l2, k + 1) \/ At(l2, k + 1) = ""
  IN  IF same = n THEN 0 ELSE Code(At(l1, i + same)) - Code(At(l2, same + 1))

\* zbx_strcasestr: where the needle starts first, 0 if nowhere.
StrcaseStr(haystack, needle) ==
  LET found == {p \in 1 .. Len(haystack) - Len(needle) + 1 : Strncasecmp(haystack, p, needle, Len(needle)) = 0}
  IN  IF needle = <<>> THEN 1 ELSE IF found = {} THEN 0 ELSE Min(found)

\* zbx_strcmp_natural: numbers by their values; the character behind two equal numbers is not
\* looked at.
StrcmpNatural(s1, s2) ==
  LET Value(s, i) == ScanInt(s, i).value
      from[i \in 1 .. Len(s1) + 1, j \in 1 .. Len(s2) + 1] ==
        LET difference == Code(At(s1, i)) - Code(At(s2, j))
            ends == <<Skip(s1, i, Digit), Skip(s2, j, Digit)>>
        IN  IF At(s1, i) = "" \/ At(s2, j) = "" THEN difference
            ELSE IF At(s1, i) \notin Digit \/ At(s2, j) \notin Digit
            THEN IF difference # 0 THEN difference ELSE from[i + 1, j + 1]
            ELSE IF Value(s1, i) # Value(s2, j) THEN Value(s1, i) - Value(s2, j)
            ELSE IF At(s1, ends[1]) = "" \/ At(s2, ends[2]) = ""
            THEN Code(At(s1, ends[1])) - Code(At(s2, ends[2]))
            ELSE from[ends[1] + 1, ends[2] + 1]
  IN  from[1, 1]

-----------------------------------------------------------------------------
(* Names of hosts. *)

CheckHostname(s) == s # <<>> /\ ToSet(s) \subseteq HostnameChar /\ Len(s) <= MaxHostname

MakeHostname(s) == [k \in DOMAIN s |-> IF s[k] \in HostnameChar THEN s[k] ELSE "_"]

\* zbx_validate_hostname: a period only behind a component.
ValidateHostname(s) ==
  LET component[k \in 1 .. Len(s)] == k = 1 \/ s[k] # "."
  IN  /\ At(s, 1) \in Alpha \cup Digit
      /\ \A k \in 2 .. Len(s) :
           /\ k <= MaxDnsname
           /\ s[k] \in Alpha \cup Digit \cup {"-", "_"} \/ (s[k] = "." /\ component[k - 1])

\* parse_serveractive_element, built without IPv6.
ParseServeractive(s, portDefault) ==
  LET colon == Find(s, 1, {":"})
      port == IsUintRange(SubSeq(s, colon + 1, Len(s)), 0, MaxPort)
  IN  IF colon > Len(s) THEN [ok |-> TRUE, host |-> s, port |-> portDefault]
      ELSE IF port.ok THEN [ok |-> TRUE, host |-> SubSeq(s, 1, colon - 1), port |-> port.value]
      ELSE [ok |-> FALSE, host |-> <<>>, port |-> portDefault]

-----------------------------------------------------------------------------
(* What they are for *)

RECURSIVE Decimal(_)
Decimal(n) ==
  (IF n < 10 THEN <<>> ELSE Decimal(n \div 10)) \o <<CHOOSE c \in Digit : DigitValue[c] = n % 10>>
WrittenInt(n) == IF n < 0 THEN <<"-">> \o Decimal(-n) ELSE Decimal(n)
WrittenRange(r) == IF r[1] = r[2] THEN WrittenInt(r[1]) ELSE WrittenInt(r[1]) \o <<"-">> \o WrittenInt(r[2])

\* A list of ranges, bounds below zero included, has the integers of its ranges.
IntListSearched(ranges, value) ==
  IntInList(Joined([k \in DOMAIN ranges |-> WrittenRange(ranges[k])], <<",">>), value)
    <=> \E k \in DOMAIN ranges : value \in ranges[k][1] .. ranges[k][2]

\* SpaceOrTabs go from both ends of every entry and from nowhere else.
ListTrimmed(s) ==
  TrimStrList(s, ",") =
    Joined([k \in DOMAIN Split(s, ",") |-> Lrtrim(Split(s, ",")[k], SpaceOrTab)], <<",">>)

\* Lines are full but for the last, none is empty, and together they are the text.
Wrapped(src, maxline) ==
  LET lines == Split(StrLinefeed(src, maxline, <<"\n">>), "\n")
  IN  "\n" \notin ToSet(src) =>
        /\ FlattenSeq(lines) = src
        /\ \A k \in DOMAIN lines : IF k < Len(lines) THEN Len(lines[k]) = maxline
                                   ELSE Len(lines[k]) <= maxline /\ (lines[k] = <<>> => src = <<>>)

\* A text is found wherever letters of any case stand for each other.
FoundInAnyCase(s, t) ==
  LET p == StrcaseStr(s, t)
      At2(k) == Lower(SubSeq(s, k, k + Len(t) - 1)) = Lower(t)
      places == {k \in 1 .. Len(s) + 1 - Len(t) : At2(k)}
  IN  IF p = 0 THEN places = {} ELSE p \in places /\ \A k \in places : p <= k

\* Exchanging the texts turns the comparison round, and numbers are compared as numbers.
NaturallyCompared(s, t) ==
  /\ StrcmpNatural(s, t) = -StrcmpNatural(t, s)
  /\ ToSet(s) \cup ToSet(t) \subseteq Digit /\ s # <<>> /\ t # <<>> =>
       StrcmpNatural(s, t) = ScanInt(s, 1).value - ScanInt(t, 1).value

\* Every name that is not too long can be made one that is accepted, and one that is stays.
HostnameMade(s) ==
  /\ s # <<>> /\ Len(s) <= MaxHostname <=> CheckHostname(MakeHostname(s))
  /\ CheckHostname(s) => MakeHostname(s) = s
  /\ ValidateHostname(s) <=>
       /\ At(s, 1) \in Alpha \cup Digit /\ Len(s) <= MaxDnsname
       /\ ToSet(s) \subseteq Alpha \cup Digit \cup {"-", "_", "."}
       /\ \A k \in 2 .. Len(s) : ~(s[k] = "." /\ s[k - 1] = ".")

\* A server is written as its host, with or without a port.
ServerRead(host, port) ==
  ":" \notin ToSet(host) =>
    /\ ParseServeractive(host \o <<":">> \o Decimal(port), 7) =
         [ok |-> port <= MaxPort, host |-> IF port <= MaxPort THEN host ELSE <<>>,
          port |-> IF port <= MaxPort THEN port ELSE 7]
    /\ ParseServeractive(host, 7) = [ok |-> TRUE, host |-> host, port |-> 7]
=============================================================================
