----------------------------- MODULE LinkedList -----------------------------
(***************************************************************************)
(* linked_list.c, the queue of the preprocessing manager, with its         *)
(* pointers: items are numbered as they are allocated.                     *)
(***************************************************************************)
EXTENDS Integers, Sequences, SequencesExt

Nil == 0

\* zbx_list_create
EmptyList == [head |-> Nil, tail |-> Nil, next |-> <<>>, data |-> <<>>]

\* list_create_item: the item is the last one allocated.
CreateItem(list, value) ==
  [list EXCEPT !.next = Append(@, Nil), !.data = Append(@, value)]

\* zbx_list_insert_after, with no place given zbx_list_append.
InsertAfter(list, after, value) ==
  LET item == Len(list.data) + 1
      place == IF after = Nil THEN list.tail ELSE after
      made == CreateItem(list, value)
      linked == IF place = Nil THEN [made EXCEPT !.head = item]
                ELSE [made EXCEPT !.next = [@ EXCEPT ![item] = made.next[place], ![place] = item]]
  IN  IF place = list.tail THEN [linked EXCEPT !.tail = item] ELSE linked

ListAppend(list, value) == InsertAfter(list, Nil, value)

ListPrepend(list, value) ==
  LET item == Len(list.data) + 1
      linked == [CreateItem(list, value) EXCEPT !.next[item] = list.head, !.head = item]
  IN  IF list.tail = Nil THEN [linked EXCEPT !.tail = item] ELSE linked

\* Mutant: the tail still points to the item that has been freed.
PopKeepsTail(list) ==
  IF list.head = Nil THEN list ELSE [list EXCEPT !.head = list.next[list.head]]

\* zbx_list_pop; the value is what zbx_list_peek sees before.
ListPop(list) ==
  LET rest == list.next[list.head]
  IN  IF list.head = Nil THEN list
      ELSE [list EXCEPT !.head = rest, !.tail = IF rest = Nil THEN Nil ELSE @]

ListPeek(list) == IF list.head = Nil THEN <<>> ELSE <<list.data[list.head]>>

IteratorInit(list) == [next |-> list.head, current |-> Nil]

IteratorNext(list, it) ==
  IF it.next = Nil THEN it ELSE [current |-> it.next, next |-> list.next[it.next]]

IteratorPeek(list, it) == IF it.current = Nil THEN <<>> ELSE <<list.data[it.current]>>

\* After an insertion during the iteration.
IteratorUpdate(list, it) ==
  IF it.current = Nil THEN it ELSE [it EXCEPT !.next = list.next[it.current]]

-----------------------------------------------------------------------------
(* The list against a sequence, call by call. *)

Calls == {"append", "prepend", "insert", "pop", "next", "again"}

\* The values in the order of the pointers.
Contents(list) ==
  LET at[k \in 0 .. Len(list.data)] ==
        IF k = 0 THEN list.head ELSE IF at[k - 1] = Nil THEN Nil ELSE list.next[at[k - 1]]
      last == CHOOSE k \in DOMAIN at : at[k] = Nil /\ \A j \in 0 .. k - 1 : at[j] # Nil
  IN  [k \in 1 .. last |-> list.data[at[k - 1]]]

\* The manager looks for a place with an iterator, inserts there, and goes on; after a pop or a
\* prepend, and once a list is not empty any more, it starts again.
Do(st, call) ==
  LET v == st.count
      Changed(list) == [st EXCEPT !.list = list, !.it = IF st.seq = <<>> THEN IteratorInit(list)
                                                       ELSE IteratorUpdate(list, st.it)]
      Restarted(list) == [st EXCEPT !.list = list, !.it = IteratorInit(list), !.pos = 0]
  IN  CASE call = "append" -> [Changed(ListAppend(st.list, v)) EXCEPT !.seq = Append(@, v)]
        [] call = "prepend" -> [Restarted(ListPrepend(st.list, v)) EXCEPT !.seq = <<v>> \o @]
        [] call = "insert" -> [Changed(InsertAfter(st.list, st.it.current, v)) EXCEPT
                                 !.seq = InsertAt(@, (IF st.pos = 0 THEN Len(@) ELSE st.pos) + 1, v)]
        [] call = "pop" -> [Restarted(ListPop(st.list)) EXCEPT !.seq = IF @ = <<>> THEN @ ELSE Tail(@)]
        [] call = "next" -> [st EXCEPT !.it = IteratorNext(st.list, @),
                                       !.pos = IF @ < Len(st.seq) THEN @ + 1 ELSE @]
        [] call = "again" -> Restarted(st.list)

\* Whatever is appended, prepended, inserted at an iterator and popped, the items from head to
\* tail are those of a sequence treated the same way, and the iterator is where it should be.
ListIsSequence(calls) ==
  LET start == [list |-> EmptyList, it |-> IteratorInit(EmptyList), seq |-> <<>>, pos |-> 0, count |-> 1]
      Step(st, call) == [Do(st, call) EXCEPT !.count = @ + 1]
  IN  \A end \in {FoldLeft(Step, start, calls)} :
        /\ Contents(end.list) = end.seq
        /\ ListPeek(end.list) = IF end.seq = <<>> THEN <<>> ELSE <<Head(end.seq)>>
        /\ end.list.tail = Nil <=> end.seq = <<>>
        /\ end.seq # <<>> => end.list.data[end.list.tail] = Last(end.seq)
        /\ IteratorPeek(end.list, end.it) = IF end.pos = 0 THEN <<>> ELSE <<end.seq[end.pos]>>
=============================================================================
