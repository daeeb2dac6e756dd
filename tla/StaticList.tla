----------------------------- MODULE StaticList -----------------------------
(***************************************************************************)
(* static_list<T, N> of include/coro/static_list.hpp (the version built    *)
(* without STATIC_LIST_USE_STD_LIST): a doubly linked list whose nodes all *)
(* live in one buffer of N nodes, the unused ones chained in a free list.  *)
(*                                                                         *)
(* The model is at the level of the pointers.  Each operation of the class *)
(* is an operator of the source's name that gives the new value of every   *)
(* pointer; intermediate values follow the order of the C++ assignments.   *)
(*                                                                         *)
(* order and spare are history variables: the nodes the client put in the  *)
(* list, and the nodes it gave back, as sequences.  They do not influence  *)
(* the pointers; they say which iterators a client can hold, and what the  *)
(* pointers ought to spell.                                                *)
(***************************************************************************)
EXTENDS Naturals, Sequences, SequencesExt

CONSTANTS
  N,      (* template parameter N, the number of nodes in buffer_          *)
  Value   (* the values of type T that clients construct                   *)

ASSUME NAssumption == N \in Nat \ {0}
ASSUME ValueAssumption == Value # {}

VARIABLES
  next, prev, value,  (* the fields of the nodes in buffer_                *)
  free, first, last,  (* free_, first_ and last_                           *)
  order, spare        (* history: nodes in the list, nodes in the free list*)

pointers == <<next, prev, value, free, first, last>>
history == <<order, spare>>
vars == <<next, prev, value, free, first, last, order, spare>>

(* Node k is get_array_entry(k - 1).                                       *)
Node == 1 .. N
Null == 0
Pointer == Node \cup {Null}

-----------------------------------------------------------------------------
(* "if (p) p->field = x", the guarded store used all over the class.       *)
SetIf(field, p, x) == IF p = Null THEN field ELSE [field EXCEPT ![p] = x]

(* The constructor links every node into the free list.  The value fields  *)
(* are raw storage: they hold anything.                                    *)
Init ==
  /\ next = [n \in Node |-> IF n = N THEN Null ELSE n + 1]
  /\ prev = [n \in Node |-> n - 1]
  /\ value \in [Node -> Value]
  /\ free = 1
  /\ first = Null
  /\ last = Null
  /\ order = <<>>
  /\ spare = [n \in Node |-> n]

(* A slip: the node handed out stays at the head of the free list.         *)
get_free_elemKept ==
  /\ free # Null
  /\ free' = free

(* get_free_elem() on a non-empty free list hands out the node free and    *)
(* unlinks it: the new head has no predecessor.                            *)
get_free_elem ==
  /\ free # Null
  /\ free' = next[free]

PrevAfterGet == SetIf(prev, next[free], Null)

(* return_free_elem(elem), given the next and prev fields as the caller    *)
(* has left them: elem becomes the head of the free list.                  *)
return_free_elem(nx, pv, elem) ==
  /\ next' = [nx EXCEPT ![elem] = free]
  /\ prev' = SetIf([pv EXCEPT ![elem] = Null], free, elem)
  /\ free' = elem

(* The placement new of the element: T(args...) in the node's value.       *)
Construct(elem, v) == value' = [value EXCEPT ![elem] = v]

(* Link the node elem behind the last one.                                 *)
LinkLast(elem) ==
  /\ prev' = [PrevAfterGet EXCEPT ![elem] = last]
  /\ next' = SetIf([next EXCEPT ![elem] = Null], last, elem)
  /\ last' = elem
  /\ first' = IF first = Null THEN elem ELSE first

(* Link the node elem in front of the node i.                              *)
LinkBefore(elem, i) ==
  LET i_prev == PrevAfterGet[i] IN
  /\ next' = [SetIf(next, i_prev, elem) EXCEPT ![elem] = i]
  /\ prev' = [PrevAfterGet EXCEPT ![elem] = i_prev, ![i] = elem]
  /\ first' = IF i_prev = Null THEN elem ELSE first
  /\ last' = last

emplace_back(v) ==
  /\ get_free_elem
  /\ Construct(free, v)
  /\ LinkLast(free)

(* A slip: the value is constructed in the node the iterator points at.    *)
emplaceOver(i, v) ==
  /\ get_free_elem
  /\ Construct(IF i = Null THEN free ELSE i, v)
  /\ IF i = Null THEN LinkLast(free) ELSE LinkBefore(free, i)

(* emplace(i, v); the iterator i is the node it points at, end() is Null.  *)
emplace(i, v) ==
  /\ get_free_elem
  /\ Construct(free, v)
  /\ IF i = Null THEN LinkLast(free) ELSE LinkBefore(free, i)

(* A slip: the successor is read after the node went to the free list.     *)
pop_frontReadsLate ==
  LET n == IF next[first] = Null THEN Null ELSE free IN
  /\ first # Null
  /\ return_free_elem(next, SetIf(prev, next[first], Null), first)
  /\ last' = IF first = last THEN n ELSE last
  /\ first' = n
  /\ UNCHANGED value

pop_front ==
  LET n == next[first] IN
  /\ first # Null
  /\ return_free_elem(next, SetIf(prev, n, Null), first)
  /\ last' = IF first = last THEN n ELSE last
  /\ first' = n
  /\ UNCHANGED value

pop_back ==
  LET p == prev[last] IN
  /\ last # Null
  /\ return_free_elem(SetIf(next, p, Null), prev, last)
  /\ first' = IF first = last THEN p ELSE first
  /\ last' = p
  /\ UNCHANGED value

(* A slip: erasing the last node leaves last_ pointing at it.              *)
eraseKeepsLast(i) ==
  LET n == next[i]
      p == prev[i]
  IN
  /\ first' = IF p = Null THEN n ELSE first
  /\ last' = last
  /\ return_free_elem(SetIf(next, p, n), SetIf(prev, n, p), i)
  /\ UNCHANGED value

(* erase(i) of an iterator other than end(), which the code dereferences.  *)
erase(i) ==
  LET n == next[i]
      p == prev[i]
  IN
  /\ first' = IF p = Null THEN n ELSE first
  /\ last' = IF n = Null THEN p ELSE last
  /\ return_free_elem(SetIf(next, p, n), SetIf(prev, n, p), i)
  /\ UNCHANGED value

-----------------------------------------------------------------------------
(* What the history variables record of an insert and of a removal at      *)
(* position k of the list.                                                 *)
RecordInsert(k) ==
  /\ order' = InsertAt(order, k, free)
  /\ spare' = Tail(spare)

RecordRemove(k) ==
  /\ order' = RemoveAt(order, k)
  /\ spare' = <<order[k]>> \o spare

(* The iterator k - 1 increments away from begin().                        *)
IteratorAt(k) == IF k > Len(order) THEN Null ELSE order[k]

EmplaceBack(v) ==
  /\ emplace_back(v)
  /\ RecordInsert(Len(order) + 1)

Emplace(k, v) ==
  /\ emplace(IteratorAt(k), v)
  /\ RecordInsert(k)

(* get_free_elem() returns nullptr: both emplace calls drop the value.     *)
EmplaceFull ==
  /\ free = Null
  /\ UNCHANGED vars

PopFront ==
  /\ pop_front
  /\ RecordRemove(1)

PopBack ==
  /\ pop_back
  /\ RecordRemove(Len(order))

(* The pops of an empty list test first_ and last_ and do nothing.         *)
PopEmpty ==
  /\ first = Null \/ last = Null
  /\ UNCHANGED vars

Erase(k) ==
  /\ erase(order[k])
  /\ RecordRemove(k)

Next ==
  \/ \E v \in Value : EmplaceBack(v)
  \/ \E v \in Value, k \in 1 .. Len(order) + 1 : Emplace(k, v)
  \/ EmplaceFull
  \/ PopFront
  \/ PopBack
  \/ PopEmpty
  \/ \E k \in 1 .. Len(order) : Erase(k)

Spec == Init /\ [][Next]_vars

-----------------------------------------------------------------------------
TypeOK ==
  /\ next \in [Node -> Pointer]
  /\ prev \in [Node -> Pointer]
  /\ value \in [Node -> Value]
  /\ free \in Pointer
  /\ first \in Pointer
  /\ last \in Pointer
  /\ order \in Seq(Node)
  /\ spare \in Seq(Node)

(* Iterating from begin() with ++ visits exactly the nodes of the list, in *)
(* order, and then reaches end().                                          *)
ForwardChain ==
  /\ first = IF order = <<>> THEN Null ELSE order[1]
  /\ \A k \in 1 .. Len(order) :
       next[order[k]] = IF k = Len(order) THEN Null ELSE order[k + 1]

(* Iterating from rbegin() visits the same nodes in the opposite order.    *)
BackwardChain ==
  /\ last = IF order = <<>> THEN Null ELSE order[Len(order)]
  /\ \A k \in 1 .. Len(order) :
       prev[order[k]] = IF k = 1 THEN Null ELSE order[k - 1]

(* The free list is a well-formed chain of the nodes that were given back  *)
(* or never used, so that get_free_elem() hands out each of them once.     *)
FreeChain ==
  /\ free = IF spare = <<>> THEN Null ELSE spare[1]
  /\ \A k \in 1 .. Len(spare) :
       /\ next[spare[k]] = IF k = Len(spare) THEN Null ELSE spare[k + 1]
       /\ prev[spare[k]] = IF k = 1 THEN Null ELSE spare[k - 1]

Distinct(s) == \A j, k \in 1 .. Len(s) : s[j] = s[k] => j = k

(* No node of buffer_ is leaked and none is in two places: whatever the    *)
(* order of inserts and removals, each node is in the list once or in the  *)
(* free list once.                                                         *)
Partition ==
  /\ Distinct(order)
  /\ Distinct(spare)
  /\ \A j \in 1 .. Len(order), k \in 1 .. Len(spare) : order[j] # spare[k]
  /\ Len(order) + Len(spare) = N

(* All three chains are as the class promises, after every call of every   *)
(* sequence of calls: the list reads the same from both ends, and the free *)
(* list is one chain.                                                      *)
WellFormed == TypeOK /\ ForwardChain /\ BackwardChain /\ FreeChain

(* References and iterators stay valid, as with std::list: no operation    *)
(* changes the value in a node that is in the list before and after it.    *)
LiveEntriesStable ==
  [][\A n \in ToSet(order) \cap ToSet(order') : value'[n] = value[n]]_vars

(* The nodes visited from begin() with ++, which stays at end().           *)
Visit[k \in Node] ==
  IF k = 1 THEN first
           ELSE IF Visit[k - 1] = Null THEN Null ELSE next[Visit[k - 1]]

(* The values a client reads by iterating over the list.                   *)
Elems == [k \in {j \in Node : Visit[j] # Null} |-> value[Visit[k]]]

(* The list is a correct bounded std::list: the values read by iterating   *)
(* over it change exactly as the abstract list of values does.             *)
Abstract == INSTANCE BoundedList WITH elems <- Elems
ImplementsBoundedList == Abstract!Spec
=============================================================================
