------------------------------- MODULE Results -------------------------------
(***************************************************************************)
(* What TimerProcessor makes of the rows a query returned: the values of   *)
(* the items of a host.  A key, a cell and a name are sequences of tokens; *)
(* some tokens of keys, %1, %2, ..., stand for columns of the row.         *)
(***************************************************************************)
EXTENDS Configurations, TLC

CONSTANTS
  Column,       \* the columns that the tokens %n stand for
  NumberOf,     \* the names of columns that are numbers, and these numbers
  SmallLetter   \* the tokens that lower case changes, and what they become

ASSUME TokensAssumption == /\ \A m \in DOMAIN Column : Column[m] \in Nat
                           /\ \A t \in DOMAIN SmallLetter : SmallLetter[t] \notin DOMAIN SmallLetter

NullCell == <<"NULL">>
TextOf(cell) == IF cell = NullCell THEN <<"null">> ELSE cell

\* getItems: the items of the host.
GetItems(items, hostid) == SelectSeq(items, LAMBDA item : item.hostid = hostid)

\* The key with its tokens %n replaced, one after the other.
KeyOf(key, row) ==
  LET Fill(text, m) == ReplaceFirst(text, m, TextOf(Cell(row, Column[m])))
  IN  FoldLeft(Fill, key, SelectSeq(key, LAMBDA t : t \in DOMAIN Column))

\* obj[key] = value: a key that is there keeps its place.
Assigned(obj, key, value) ==
  LET at == {k \in DOMAIN obj : obj[k].key = key}
  IN  IF at = {} THEN Append(obj, [key |-> key, value |-> value])
      ELSE [obj EXCEPT ![Min(at)].value = value]

Trimmed(cell) ==
  LET in == {k \in DOMAIN cell : cell[k] # " "}
  IN  IF in = {} THEN <<>> ELSE SubSeq(cell, Min(in), Max(in))

\* What the drivers make of a row, an object of columns: Object.keys names those with numbers
\* for names first, in order, then the others as they came; an array counts as several cells.
RowOf(columns) ==
  LET obj == FoldLeft(LAMBDA o, c : Assigned(o, c.name, c.cells), <<>>, columns)
      IsNumber(o) == o.key \in DOMAIN NumberOf
      keys == SortSeq(SelectSeq(obj, IsNumber), LAMBDA o, p : NumberOf[o.key] < NumberOf[p.key])
                \o SelectSeq(obj, LAMBDA o : ~ IsNumber(o))
      cells == FlattenSeq([k \in DOMAIN keys |-> keys[k].value])
  IN  [k \in DOMAIN cells |-> Trimmed(cells[k])]

\* Mutant: keys and columns are matched from the left.
FromTheLeft(keys, table) ==
  LET Object(row) ==
        FoldLeft(LAMBDA obj, i : Assigned(obj, KeyOf(keys[i], row), Cell(row, i)), <<>>,
                 [k \in 1 .. Min({Len(keys), Len(row)}) |-> k])
  IN  [r \in DOMAIN table |-> Object(table[r])]

\* produceKeyValueArray: keys and columns are matched from the right, the last ones first.
ProduceKeyValueArray(keys, table) ==
  LET Object(row) ==
        LET first == IF Len(keys) > Len(row) THEN Len(keys) - Len(row) ELSE 0
            Put(obj, i) == Assigned(obj, KeyOf(keys[i], row), row[Len(row) - Len(keys) + i])
        IN  FoldLeft(Put, <<>>, [k \in 1 .. Len(keys) - first |-> Len(keys) + 1 - k])
  IN  [r \in DOMAIN table |-> Object(table[r])]

ToLower(text) == [k \in DOMAIN text |-> IF text[k] \in DOMAIN SmallLetter THEN SmallLetter[text[k]] ELSE text[k]]

\* Rows of a query of type list: a name in the first column (the driver has trimmed it), its value
\* in the second.  NULL has no toString.
ListOf(query, table) ==
  LET At(row) == {k \in DOMAIN query.items : query.items[k] = ToLower(Cell(row, 1))}
      named == SelectSeq(table, LAMBDA row : At(row) # {})
  IN  [r \in DOMAIN named |->
         <<[key |-> query.item[Min(At(named[r]))], value |-> Cell(named[r], 2)]>>]

ListThrows(query, table) ==
  /\ query.type = "list" /\ query.names = NoKeys
  /\ \/ query.items = NoKeys
     \/ \E row \in ToSet(table) : Cell(row, 1) \in {NullCell, NoCell}

\* The first item with the key gets the value; a key without an item is dropped.
Given(items, key, value) ==
  LET of == SelectSeq(items, LAMBDA item : item.key_ = key)
  IN  IF of = <<>> THEN <<>> ELSE <<[itemid |-> of[1].itemid, value |-> value]>>

\* convertToMonitoringData: low-level discovery, or values of items.
ConvertToMonitoringData(query, table, items) ==
  IF query.names # NoKeys
  THEN LET names == [k \in DOMAIN query.names |-> <<"{#">> \o query.names[k] \o <<"}">>]
       IN  IF Len(query.item) = 1 THEN Given(items, query.item[1], ProduceKeyValueArray(names, table))
           ELSE <<>>
  ELSE LET objects == IF query.type = "list" THEN ListOf(query, table)
                      ELSE ProduceKeyValueArray(query.item, table)
           Values(obj) == FlattenSeq([k \in DOMAIN obj |-> Given(items, obj[k].key, obj[k].value)])
       IN  FlattenSeq([r \in DOMAIN objects |-> Values(objects[r])])

-----------------------------------------------------------------------------
(* What they are for *)

Plain(text) == ToSet(text) \cap (DOMAIN Column \cup {"$&", "$$"}) = {}

\* The key with all its tokens %n replaced at once.
Filled(key, row) ==
  FlattenSeq([k \in DOMAIN key |->
    IF key[k] \in DOMAIN Column THEN TextOf(Cell(row, Column[key[k]])) ELSE <<key[k]>>])

\* The values of a row for a key: the last column is for the last key, and so on to the left as
\* long as there are both.
ValuesFor(keys, row, key) ==
  {row[Len(row) - j] : j \in {i \in 0 .. Min({Len(keys), Len(row)}) - 1 : Filled(keys[Len(keys) - i], row) = key}}

\* A name in a list is that of a key whatever letters, small or capital, either is written in.
NamedIn(query, row, key) ==
  {row[2] : k \in {j \in DOMAIN query.items : ToLower(query.items[j]) = ToLower(row[1]) /\ query.item[j] = key}}

\* The queries and rows of lists that the documentation and the code treat alike: the keys are in
\* the attribute items, in small letters; a row is a name, not NULL, and a value.
ListRead(query, table) ==
  query.type = "list" /\ query.names = NoKeys =>
    /\ query.items # NoKeys
    /\ \A k \in DOMAIN query.items : ToLower(query.items[k]) = query.items[k]
    /\ \A row \in ToSet(table) : Len(row) = 2 /\ row[1] # NullCell

Unique(items) == \A j, k \in DOMAIN items : items[j].key_ = items[k].key_ => j = k

\* Some columns may be NULL or missing: no key is made of the words for them.
NotOfNull(key) == ToSet(key) \cap {TextOf(NullCell)[1], NoCell[1]} = {}

\* The item gets one value of each row that has some for it, in the order of the rows.
GetsEach(data, item, table, Values(_)) ==
  LET own == SelectSeq(data, LAMBDA d : d.itemid = item.itemid)
      rows == SelectSeq(table, LAMBDA row : Values(row) # {})
  IN  Len(own) = Len(rows) /\ \A k \in DOMAIN own : own[k].value \in Values(rows[k])

\* Columns with names of their own, none of them a number, arrive in their order, cell by cell.
RowKept(columns) ==
  /\ Cardinality({c.name : c \in ToSet(columns)}) = Len(columns)
  /\ \A c \in ToSet(columns) : c.name \notin DOMAIN NumberOf /\ Len(c.cells) = 1
  => RowOf(columns) = [k \in DOMAIN columns |-> Trimmed(columns[k].cells[1])]

\* Rows go to items of the host, to each one value of every row that has one for its key, and to
\* no other, whatever is missing or too much.
RowsReachItems(query, table, items) ==
  LET data == ConvertToMonitoringData(query, table, items)
      Values(row, key) ==
        IF query.type = "list" THEN NamedIn(query, row, key) ELSE ValuesFor(query.item, row, key)
  IN  \A i \in ToSet(items) :
        NotOfNull(i.key_) => GetsEach(data, i, table, LAMBDA row : Values(row, i.key_))

\* The item of a discovery gets one value: of every row the columns under their names.
RowsAreDiscovered(query, table, items) ==
  LET data == ConvertToMonitoringData(query, table, items)
      Names == [k \in DOMAIN query.names |-> <<"{#">> \o query.names[k] \o <<"}">>]
      asked == {i \in ToSet(items) : query.item = <<i.key_>>}
  IN  (\A k \in DOMAIN Names : Plain(Names[k])) =>
      /\ {d.itemid : d \in ToSet(data)} = {i.itemid : i \in asked} /\ Len(data) = Cardinality(asked)
      /\ \A d \in ToSet(data) :
           /\ Len(d.value) = Len(table)
           /\ \A r \in DOMAIN table : \A k \in DOMAIN Names :
                {e.value : e \in {f \in ToSet(d.value[r]) : f.key = Names[k]}} = ValuesFor(Names, table[r], Names[k])

\* What a query returned reaches the items of its host, and no item of another.
ResultConverted(query, table, all, hostid) ==
  LET items == GetItems(all, hostid)
  IN  /\ ListRead(query, table) /\ Unique(items)
      /\ \A row \in ToSet(table) : \A c \in ToSet(row) : Plain(c)
      => /\ ~ ListThrows(query, table)
         /\ \A d \in ToSet(ConvertToMonitoringData(query, table, items)) :
              \E i \in ToSet(all) : i.itemid = d.itemid /\ i.hostid = hostid
         /\ IF query.names = NoKeys THEN RowsReachItems(query, table, items)
            ELSE RowsAreDiscovered(query, table, items)
=============================================================================
