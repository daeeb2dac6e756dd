---------------------------- MODULE BoundedList ----------------------------
(***************************************************************************)
(* What static_list<T, N> promises its clients: the part of the std::list  *)
(* interface it provides ("The interface is consistent with std::list"),   *)
(* on a sequence of at most N values.  There are no exceptions: an insert  *)
(* into a full list and a pop from an empty one do nothing.                *)
(***************************************************************************)
EXTENDS Naturals, Sequences, SequencesExt

CONSTANTS
  N,      (* capacity: the template parameter N                            *)
  Value   (* the values of type T a client stores                          *)

VARIABLE elems  (* the contents, front of the list first                   *)

Init == elems = <<>>

Full == Len(elems) = N

(* Insert v before position k; k = Len(elems) + 1 is end().                *)
Emplace(k, v) ==
  elems' = IF Full THEN elems ELSE InsertAt(elems, k, v)

EmplaceBack(v) ==
  elems' = IF Full THEN elems ELSE Append(elems, v)

Erase(k) == elems' = RemoveAt(elems, k)

PopFront == elems' = IF elems = <<>> THEN elems ELSE Tail(elems)

PopBack == elems' = IF elems = <<>> THEN elems ELSE Front(elems)

Next ==
  \/ \E v \in Value : EmplaceBack(v)
  \/ \E v \in Value, k \in 1 .. Len(elems) + 1 : Emplace(k, v)
  \/ \E k \in 1 .. Len(elems) : Erase(k)
  \/ PopFront
  \/ PopBack

Spec == Init /\ [][Next]_elems
=============================================================================
