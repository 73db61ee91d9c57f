------------------------------- MODULE IpRange -------------------------------
(***************************************************************************)
(* Ranges of addresses (libs/zbxcommon/iprange.c) and the checks of        *)
(* addresses and lists in misc.c: 192.168.0-1.1-64, 10.0.0.0/24, fe80::/64.*)
(* A text is a sequence of characters, an address a sequence of groups.    *)
(***************************************************************************)
EXTENDS Texts

CONSTANT MaxVolume    \* 2^64 - 1

ASSUME MaxVolumeAssumption == MaxVolume \in Nat \ {0}

Whitespaces == {" ", "\r", "\n", "\t"}

NotNumber == -1

\* is_uint_n_range, is_hex_n_range: the value, if it is a number of that base up to max.
InBase(s, base, value, max) ==
  LET n == FoldLeft(LAMBDA sum, c : IF sum > max THEN sum ELSE base * sum + value[c], 0, s)
  IN  IF s = <<>> \/ ~(ToSet(s) \subseteq DOMAIN value) \/ n > max THEN NotNumber ELSE n

Types == {"v4", "v6"}
GroupsOf(type) == IF type = "v4" THEN 4 ELSE 8
GroupBits(type) == IF type = "v4" THEN 8 ELSE 16

\* One group of either kind: a number or two with a dash between them.
Group(s, type) ==
  LET once == SplitOnce(s, "-")
      Value(t) == IF type = "v4" THEN InBase(t, 10, DigitValue, 255)
                  ELSE InBase(t, 16, HexValue, 65535)
      Between(from, to) == [ok |-> from # NotNumber /\ from <= to, from |-> from, to |-> to]
      From(from) == Between(from, IF once.found THEN Value(once.right) ELSE from)
  IN  From(Value(once.left))

Zero == [ok |-> TRUE, from |-> 0, to |-> 0]

NoRange == [ok |-> FALSE]

\* iprange_apply_mask: the bits below the mask are free, group by group from the last.
ApplyMask(groups, type, bits) ==
  LET free == Len(groups) * GroupBits(type) - bits
      Here(i) == LET left == free - (Len(groups) - i) * GroupBits(type)
                 IN  IF left <= 0 THEN 0 ELSE IF left > GroupBits(type) THEN GroupBits(type) ELSE left
      Low(n, i) == n % (2 ^ Here(i))
  IN  [i \in DOMAIN groups |->
         [groups[i] EXCEPT !.from = @ - Low(@, i), !.to = (@ - Low(@, i)) + 2 ^ Here(i) - 1]]

\* A mask and a dash exclude each other.
Masked(groups, type, s, max) ==
  LET slash == SplitOnce(s, "/")
      bits == InBase(slash.right, 10, DigitValue, max)
  IN  IF ~slash.found THEN [ok |-> TRUE, type |-> type, mask |-> FALSE, range |-> groups]
      ELSE IF bits = NotNumber \/ "-" \in ToSet(s) THEN NoRange
      ELSE [ok |-> TRUE, type |-> type, mask |-> TRUE, range |-> ApplyMask(groups, type, bits)]

\* iprangev4_parse: what stands after the fourth group is not looked at.
V4Parse(s) ==
  LET Range4(groups) ==
        IF \E i \in 1 .. 4 : ~groups[i].ok THEN NoRange ELSE Masked(groups, "v4", s, 30)
      Of(parts) ==
        IF Len(parts) < 4 THEN NoRange ELSE Range4([i \in 1 .. 4 |-> Group(parts[i], "v4")])
  IN  Of(Split(SplitOnce(s, "/").left, "."))

\* iprangev6_parse: the groups before the eighth, and where :: stands among them (0 if
\* nowhere).  A part is empty between two colons and at an end.
TooMany == [ok |-> FALSE, groups |-> <<>>, fill |-> 0]

RECURSIVE V6Groups(_, _, _)
V6Groups(parts, groups, fill) ==
  LET head == Group(parts[1], "v6")
      double == Len(parts) >= 3 /\ parts[2] = <<>>
      with == IF parts[1] = <<>> THEN groups ELSE Append(groups, head)
      rest == Cut(parts, 3, Len(parts))
      filled == Append(with, Zero)
  IN  IF parts = <<>> \/ Len(groups) >= 8 THEN [ok |-> TRUE, groups |-> groups, fill |-> fill]
      ELSE IF IF parts[1] = <<>> THEN ~double ELSE ~head.ok THEN TooMany
      ELSE IF ~double THEN V6Groups(Tail(parts), with, fill)
      ELSE IF fill # 0 THEN TooMany
      ELSE V6Groups(IF rest = <<<<>>>> THEN <<>> ELSE rest, filled, Len(filled))

WithZeros(groups, fill) ==
  LET zeros == [i \in 1 .. (8 - Len(groups)) |-> Zero]
  IN  IF zeros = <<>> THEN groups
      ELSE Cut(groups, 1, fill) \o zeros \o Cut(groups, fill + 1, Len(groups))

V6Parse(s) ==
  LET Range6(read) ==
        LET n == Len(read.groups)
        IN  IF ~read.ok \/ n > 8 \/ (n < 8 /\ read.fill = 0) THEN NoRange
            ELSE Masked(WithZeros(read.groups, read.fill), "v6", s, 128)
  IN  Range6(V6Groups(Split(SplitOnce(s, "/").left, ":"), <<>>, 0))

\* iprange_parse.
Parse(address) ==
  LET s == Lrtrim(address, Whitespaces)
  IN  IF "." \in ToSet(s) THEN V4Parse(s) ELSE V6Parse(s)

-----------------------------------------------------------------------------
\* A range of IPv4 addresses with a mask has a network and a broadcast address.
HasEnds(r) == r.type = "v4" /\ r.mask

\* iprange_first.
FirstAddress(r) ==
  [i \in DOMAIN r.range |-> IF i = Len(r.range) /\ HasEnds(r) THEN r.range[i].from + 1 ELSE r.range[i].from]

NoAddress == <<>>

\* Mutant: the groups behind the one that is counted up keep their values.
NextWithoutReset(r, a) ==
  LET below == {i \in DOMAIN a : a[i] < r.range[i].to}
      next == [a EXCEPT ![Max(below)] = @ + 1]
  IN  IF below = {} \/ (HasEnds(r) /\ \A i \in DOMAIN a : next[i] = r.range[i].to) THEN NoAddress
      ELSE next

\* iprange_next: the last group that can be counted up is, those behind it start again; the
\* broadcast address is no address.
NextAddress(r, a) ==
  LET below == {i \in DOMAIN a : a[i] < r.range[i].to}
      at == Max(below)
      next == [i \in DOMAIN a |-> IF i < at THEN a[i]
                                  ELSE IF i = at THEN a[i] + 1
                                  ELSE IF r.range[i].from < r.range[i].to THEN r.range[i].from
                                  ELSE a[i]]
  IN  IF below = {} \/ (HasEnds(r) /\ \A i \in DOMAIN a : next[i] = r.range[i].to) THEN NoAddress
      ELSE next

\* iprange_validate looks at the groups the range has, whatever the type of the address.
Validate(r, a) ==
  \A i \in DOMAIN r.range : r.range[i].from <= a[i] /\ a[i] <= r.range[i].to

\* iprange_volume.
Volume(r) ==
  LET Times(volume, g) == LET n == g.to - g.from + 1
                          IN  IF MaxVolume \div n < volume THEN MaxVolume ELSE volume * n
      all == FoldLeft(Times, 1, r.range)
  IN  IF HasEnds(r) /\ all # MaxVolume THEN all - 2 ELSE all

\* ip_in_list; without HAVE_IPV6 only IPv4 counts.
IpInList(list, ip) ==
  LET V4(r) == r.ok /\ r.type = "v4"
      Listed(address) ==
        /\ V4(address)
        /\ \E range \in {Parse(part) : part \in ToSet(Split(list, ","))} :
             V4(range) /\ Validate(range, FirstAddress(address))
  IN  Listed(Parse(ip))

-----------------------------------------------------------------------------
\* is_ip4: four groups of one to three digits.
IsIp4(s) ==
  LET parts == Split(s, ".")
  IN  /\ Len(parts) = 4
      /\ \A i \in 1 .. 4 : Len(parts[i]) \in 1 .. 3 /\ InBase(parts[i], 10, DigitValue, 255) # NotNumber

\* is_ip6: counts colons, double ones and digits, at the end of the text or before the first
\* other character, behind which may stand an IPv4 address.
IsIp6(s) ==
  LET stop == Skip(s, 1, DOMAIN HexValue \cup {":"})
      read == Cut(s, 1, stop - 1)
      parts == Split(read, ":")
      colons == Len(parts) - 1
      doubles == Cardinality({i \in 2 .. colons : parts[i] = <<>>})
      lastColon == Max({i \in DOMAIN s : s[i] = ":"})
  IN  /\ colons \in 2 .. 7 /\ doubles <= 1
      /\ \A i \in DOMAIN parts : Len(parts[i]) <= 4
      /\ \/ stop > Len(s) /\ (doubles > 0 \/ \E i \in DOMAIN read : read[i] # ":")
         \/ stop <= Len(s) /\ colons < 7 /\ lastColon < stop /\ IsIp4(Cut(s, lastColon + 1, Len(s)))

IsIp(s) == IsIp4(s) \/ IsIp6(s)

-----------------------------------------------------------------------------
Before(a, b) == \E i \in DOMAIN a : a[i] < b[i] /\ \A j \in 1 .. (i - 1) : a[j] = b[j]

RECURSIVE Enumerated(_, _)
Enumerated(r, a) == IF a = NoAddress THEN <<>> ELSE <<a>> \o Enumerated(r, NextAddress(r, a))

RECURSIVE Addresses(_)
Addresses(range) ==
  IF range = <<>> THEN {<<>>}
  ELSE {Append(a, n) : a \in Addresses(Front(range)), n \in Last(range).from .. Last(range).to}

NetworkAndBroadcast(r) ==
  IF HasEnds(r)
  THEN {[i \in DOMAIN r.range |-> r.range[i].from], [i \in DOMAIN r.range |-> r.range[i].to]}
  ELSE {}

\* Going through a range meets each of its addresses once, in order, but for the network and
\* the broadcast address, and as many as its volume says.
RangeEnumerated(text) ==
  LET Met(r, met) ==
        /\ ToSet(met) = Addresses(r.range) \ NetworkAndBroadcast(r)
        /\ \A k \in 2 .. Len(met) : Before(met[k - 1], met[k])
        /\ Volume(r) = Len(met)
  IN  \A r \in {Parse(text)} : r.ok => Met(r, Enumerated(r, FirstAddress(r)))

\* A list holds an address if one of its ranges, network and broadcast address included, does.
ListSearched(part, other, ip) ==
  LET Holds(r, a) ==
        r.ok /\ a \in ToSet(Enumerated(r, FirstAddress(r))) \cup NetworkAndBroadcast(r)
  IN  \A address \in {Parse(ip)} :
        address.ok =>
          IpInList(part \o <<",">> \o other, ip)
            = \E r \in {Parse(part), Parse(other)} : Holds(r, FirstAddress(address))

\* What is taken for an address in text form is a range of one, and the other way round.
AddressIsRange(text) ==
  LET parts == Split(text, IF "." \in ToSet(text) THEN "." ELSE ":")
  IN  ToSet(text) \cap ({"-", "/"} \cup Whitespaces) = {} =>
        \A r \in {Parse(text)} :
          /\ IsIp4(text) => r.ok /\ r.type = "v4" /\ Volume(r) = 1
          /\ r.ok /\ Len(parts) <= GroupsOf(r.type) => IsIp(text)
=============================================================================
