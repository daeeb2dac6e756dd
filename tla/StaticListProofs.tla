-------------------------- MODULE StaticListProofs --------------------------
(***************************************************************************)
(* Proofs about StaticList for every capacity N and every set of values:   *)
(* the pointers of static_list always spell two disjoint well-formed       *)
(* chains that share out the nodes of buffer_.                             *)
(***************************************************************************)
EXTENDS StaticList, SequenceLemmas

-----------------------------------------------------------------------------
(* The pops are erasures of the end nodes, and emplace_back is emplace at  *)
(* end(), so a step that changes anything is an Emplace or an Erase.       *)

(* The inductive invariant: the two chains and the nodes they share out.   *)
IInv ==
  /\ TypeOK
  /\ ForwardChain
  /\ BackwardChain
  /\ FreeChain
  /\ Partition

(* nullptr is not the address of a node.                                   *)
LEMMA NullNotNode == Null \notin Node
BY NAssumption DEF Node, Null

(* The invariant entry by entry, for a list of L and a free list of M.     *)
Shape(L, M) ==
  /\ Len(order) = L /\ Len(spare) = M /\ L + M = N
  /\ order = <<>> <=> L = 0
  /\ spare = <<>> <=> M = 0
  /\ \A k \in 1 .. L : order[k] \in Node /\ order[k] # Null
  /\ \A k \in 1 .. M : spare[k] \in Node /\ spare[k] # Null
  /\ first = IF L = 0 THEN Null ELSE order[1]
  /\ last = IF L = 0 THEN Null ELSE order[L]
  /\ free = IF M = 0 THEN Null ELSE spare[1]
  /\ \A k \in 1 .. L : next[order[k]] = IF k = L THEN Null ELSE order[k + 1]
  /\ \A k \in 1 .. L : prev[order[k]] = IF k = 1 THEN Null ELSE order[k - 1]
  /\ \A k \in 1 .. M : next[spare[k]] = IF k = M THEN Null ELSE spare[k + 1]
  /\ \A k \in 1 .. M : prev[spare[k]] = IF k = 1 THEN Null ELSE spare[k - 1]
  /\ \A j, k \in 1 .. L : order[j] = order[k] => j = k
  /\ \A j, k \in 1 .. M : spare[j] = spare[k] => j = k
  /\ \A j \in 1 .. L, k \in 1 .. M : order[j] # spare[k]

(* The inductive invariant with the lengths of the two chains named.       *)
LEMMA ShapeFromInv ==
  ASSUME IInv
  PROVE  \E L, M \in Nat : Shape(L, M)
<1>1. order \in Seq(Node) /\ spare \in Seq(Node)
  BY DEF IInv, TypeOK
<1>2. PICK L \in Nat : L = Len(order)
  BY <1>1, LenProperties
<1>3. PICK M \in Nat : M = Len(spare)
  BY <1>1, LenProperties
<1>4. /\ order = <<>> <=> L = 0
      /\ spare = <<>> <=> M = 0
  BY <1>1, <1>2, <1>3
<1>5. /\ \A k \in 1 .. L : order[k] \in Node /\ order[k] # Null
      /\ \A k \in 1 .. M : spare[k] \in Node /\ spare[k] # Null
  BY <1>1, <1>2, <1>3, ElementOfSeq, NullNotNode
<1> WITNESS L \in Nat, M \in Nat
<1> QED
  BY <1>2, <1>3, <1>4, <1>5
  DEF Shape, IInv, ForwardChain, BackwardChain, FreeChain, Partition, Distinct

(* The constructor's free list holds every node.                           *)
LEMMA InitInv == Init => IInv
<1> SUFFICES ASSUME Init PROVE IInv
  OBVIOUS
<1> USE NAssumption DEF Init, Node, Pointer, Null
<1>1. /\ order = <<>> /\ Len(order) = 0 /\ order \in Seq(Node)
      /\ spare \in Seq(Node) /\ Len(spare) = N
      /\ \A k \in 1 .. N : spare[k] = k
  OBVIOUS
<1>2. TypeOK
  BY <1>1 DEF TypeOK
<1>3. ForwardChain /\ BackwardChain
  BY <1>1 DEF ForwardChain, BackwardChain
<1>4. FreeChain
  <2>1. free = IF spare = <<>> THEN Null ELSE spare[1]
    BY <1>1
  <2>2. ASSUME NEW k \in 1 .. Len(spare)
        PROVE  /\ next[spare[k]] = IF k = Len(spare) THEN Null ELSE spare[k + 1]
               /\ prev[spare[k]] = IF k = 1 THEN Null ELSE spare[k - 1]
    <3>1. spare[k] = k /\ k \in 1 .. N /\ next[k] = IF k = N THEN 0 ELSE k + 1
      BY <1>1
    <3>2. k # N => spare[k + 1] = k + 1
      BY <1>1, <3>1
    <3>3. k # 1 => spare[k - 1] = k - 1
      BY <1>1, <3>1
    <3> QED BY <1>1, <3>1, <3>2, <3>3
  <2> QED BY <2>1, <2>2 DEF FreeChain
<1>5. Partition
  BY <1>1 DEF Partition, Distinct
<1> QED BY <1>2, <1>3, <1>4, <1>5 DEF IInv

(* pop_front() does what erase(begin()) does.                              *)
LEMMA PopFrontErases ==
  ASSUME IInv, PopFront
  PROVE  1 \in 1 .. Len(order) /\ Erase(1)
<1>1. PICK L \in Nat, M \in Nat : Shape(L, M)
  BY ShapeFromInv
<1>2. L >= 1
  BY <1>1 DEF PopFront, pop_front, Shape
<1>3. first = order[1] /\ prev[first] = Null
  BY <1>1, <1>2 DEF Shape
<1>4. next[first] = Null <=> L = 1
  BY <1>1, <1>2 DEF Shape
<1>5. first = last <=> L = 1
  BY <1>1, <1>2 DEF Shape
<1>6. erase(first)
  BY <1>3, <1>4, <1>5 DEF PopFront, pop_front, erase, SetIf
<1> QED BY <1>1, <1>2, <1>3, <1>6 DEF PopFront, Erase, Shape

(* pop_back() does what erase() of the last node does.                     *)
LEMMA PopBackErases ==
  ASSUME IInv, PopBack
  PROVE  Len(order) \in 1 .. Len(order) /\ Erase(Len(order))
<1>1. PICK L \in Nat, M \in Nat : Shape(L, M)
  BY ShapeFromInv
<1>2. L >= 1
  BY <1>1 DEF PopBack, pop_back, Shape
<1>3. last = order[L] /\ next[last] = Null
  BY <1>1, <1>2 DEF Shape
<1>4. prev[last] = Null <=> L = 1
  BY <1>1, <1>2 DEF Shape
<1>5. first = last <=> L = 1
  BY <1>1, <1>2 DEF Shape
<1>6. erase(last)
  BY <1>3, <1>4, <1>5 DEF PopBack, pop_back, erase, SetIf
<1> QED BY <1>1, <1>2, <1>3, <1>6 DEF PopBack, Erase, Shape

(* emplace_back(v) does what emplace(end(), v) does.                       *)
LEMMA EmplaceBackEmplaces ==
  ASSUME IInv, NEW v \in Value, EmplaceBack(v)
  PROVE  Len(order) + 1 \in 1 .. Len(order) + 1 /\ Emplace(Len(order) + 1, v)
<1>1. Len(order) \in Nat
  BY DEF IInv, TypeOK
<1>2. IteratorAt(Len(order) + 1) = Null
  BY <1>1 DEF IteratorAt
<1> QED BY <1>1, <1>2 DEF EmplaceBack, Emplace, emplace_back, emplace

-----------------------------------------------------------------------------
(* emplace links the node it takes from the free list at position k.       *)
LEMMA EmplaceShape ==
  ASSUME IInv, NEW L \in Nat, NEW M \in Nat, Shape(L, M),
         NEW k \in 1 .. L + 1, NEW v \in Value, Emplace(k, v)
  PROVE  M >= 1 /\ TypeOK' /\ Shape(L + 1, M - 1)'
<1> DEFINE e == free
<1>1. M >= 1 /\ e = spare[1] /\ e \in Node /\ e # Null
  BY DEF Shape, Emplace, emplace, get_free_elem
<1>2. /\ \A j \in 1 .. L : order[j] # e
      /\ \A j \in 2 .. M : spare[j] # e
  BY <1>1 DEF Shape
<1>3. next[e] = IF M = 1 THEN Null ELSE spare[2]
  BY <1>1 DEF Shape
<1>4. IteratorAt(k) = IF k = L + 1 THEN Null ELSE order[k]
  BY DEF IteratorAt, Shape
<1>5. /\ order' \in Seq(Node)
      /\ Len(order') = L + 1
      /\ \A j \in 1 .. k - 1 : order'[j] = order[j]
      /\ order'[k] = e
      /\ \A j \in k + 1 .. L + 1 : order'[j] = order[j - 1]
  <2>1. order' = InsertAt(order, k, e) /\ order \in Seq(Node) /\ Len(order) = L
    BY DEF Emplace, RecordInsert, IInv, TypeOK, Shape
  <2>2. order' \in Seq(Node) /\ Inserted(order', order, k, e, L)
    BY <1>1, <2>1, InsertAtEntries
  <2> QED BY <2>2 DEF Inserted
<1>6. /\ spare' \in Seq(Node)
      /\ Len(spare') = M - 1
      /\ \A j \in 1 .. M - 1 : spare'[j] = spare[j + 1]
  <2>1. /\ spare' = Tail(spare) /\ spare \in Seq(Node) /\ Len(spare) = M
        /\ spare # <<>>
    BY <1>1 DEF Emplace, RecordInsert, IInv, TypeOK, Shape
  <2> QED BY <1>1, <2>1, HeadTailProperties
<1>7. /\ next' \in [Node -> Pointer]
      /\ prev' \in [Node -> Pointer]
      /\ \A n \in Node : next'[n] =
           IF n = e THEN IF k = L + 1 THEN Null ELSE order[k]
           ELSE IF k > 1 /\ n = order[k - 1] THEN e ELSE next[n]
      /\ \A n \in Node : prev'[n] =
           IF n = e THEN IF k = 1 THEN Null ELSE order[k - 1]
           ELSE IF k <= L /\ n = order[k] THEN e
           ELSE IF M > 1 /\ n = spare[2] THEN Null ELSE prev[n]
      /\ first' = IF k = 1 THEN e ELSE order[1]
      /\ last' = IF k = L + 1 THEN e ELSE order[L]
  <2> DEFINE pg == PrevAfterGet
  <2>1. /\ next \in [Node -> Pointer]
        /\ prev \in [Node -> Pointer]
        /\ \A n \in Node : n \in Pointer /\ n # Null
        /\ Null \in Pointer
    BY NullNotNode DEF IInv, TypeOK, Pointer
  <2>2. /\ pg \in [Node -> Pointer]
        /\ \A n \in Node :
             pg[n] = IF M > 1 /\ n = spare[2] THEN Null ELSE prev[n]
    BY <1>1, <1>3, <2>1 DEF PrevAfterGet, SetIf, Shape
  <2> HIDE DEF pg
  <2>3. CASE k = L + 1
    <3>1. LinkLast(e)
      BY <1>4, <2>3 DEF Emplace, emplace
    <3>2. /\ prev' = [pg EXCEPT ![e] = last]
          /\ next' = SetIf([next EXCEPT ![e] = Null], last, e)
          /\ last' = e
          /\ first' = IF first = Null THEN e ELSE first
      BY <3>1 DEF LinkLast, pg
    <3>3. /\ last = IF k = 1 THEN Null ELSE order[k - 1]
          /\ first = IF k = 1 THEN Null ELSE order[1]
          /\ last \in Pointer
          /\ k > 1 => last \in Node /\ last # e /\ first # Null
      BY <1>2, <2>1, <2>3 DEF Shape
    <3>4. next' \in [Node -> Pointer] /\ prev' \in [Node -> Pointer]
      BY <1>1, <2>1, <2>2, <3>2, <3>3 DEF SetIf
    <3>5. \A n \in Node : next'[n] =
            IF n = e THEN Null
            ELSE IF k > 1 /\ n = order[k - 1] THEN e ELSE next[n]
      BY <1>1, <2>1, <3>2, <3>3 DEF SetIf
    <3>6. \A n \in Node : prev'[n] =
            IF n = e THEN IF k = 1 THEN Null ELSE order[k - 1]
            ELSE IF M > 1 /\ n = spare[2] THEN Null ELSE prev[n]
      BY <1>1, <2>2, <3>2, <3>3
    <3>7. first' = IF k = 1 THEN e ELSE order[1]
      BY <3>2, <3>3
    <3>8. ~ (k <= L)
      BY <2>3
    <3> QED BY <2>3, <3>2, <3>4, <3>5, <3>6, <3>7, <3>8
  <2>4. CASE k <= L
    <3> DEFINE i == order[k]
               p == IF k = 1 THEN Null ELSE order[k - 1]
    <3>1. /\ i \in Node /\ i # Null /\ i # e
          /\ M > 1 => i # spare[2]
          /\ p \in Pointer /\ p # e
          /\ k > 1 => p \in Node /\ p # Null
          /\ k = 1 <=> p = Null
          /\ prev[i] = p
      BY <1>1, <1>2, <2>1, <2>4 DEF Shape
    <3>2. pg[i] = p
      BY <2>2, <3>1
    <3>3. LinkBefore(e, i)
      BY <1>4, <2>4, <3>1 DEF Emplace, emplace
    <3>4. /\ next' = [SetIf(next, p, e) EXCEPT ![e] = i]
          /\ prev' = [pg EXCEPT ![e] = p, ![i] = e]
          /\ first' = IF p = Null THEN e ELSE first
          /\ last' = last
      BY <3>2, <3>3 DEF LinkBefore, pg
    <3> HIDE DEF i
    <3>5. next' \in [Node -> Pointer] /\ prev' \in [Node -> Pointer]
      BY <1>1, <2>1, <2>2, <3>1, <3>4 DEF SetIf
    <3>6. \A n \in Node : next'[n] =
            IF n = e THEN i
            ELSE IF k > 1 /\ n = order[k - 1] THEN e ELSE next[n]
      BY <1>1, <2>1, <3>1, <3>4 DEF SetIf
    <3>7. \A n \in Node : prev'[n] =
            IF n = e THEN p ELSE IF n = i THEN e
            ELSE IF M > 1 /\ n = spare[2] THEN Null ELSE prev[n]
      BY <1>1, <2>2, <3>1, <3>4
    <3>8. /\ first' = IF k = 1 THEN e ELSE order[1]
          /\ last' = order[L]
      BY <2>4, <3>1, <3>4 DEF Shape
    <3> QED BY <2>4, <3>5, <3>6, <3>7, <3>8 DEF i
  <2> QED BY <2>3, <2>4
<1>8. free' = (IF M = 1 THEN Null ELSE spare[2]) /\ free' \in Pointer
  BY <1>1, <1>3 DEF Emplace, emplace, get_free_elem, Shape, Pointer
<1>9. value' \in [Node -> Value]
  BY <1>1 DEF Emplace, emplace, Construct, IInv, TypeOK
<1>10. TypeOK'
  <2>1. first' \in Pointer /\ last' \in Pointer
    BY <1>1, <1>7 DEF Shape, Pointer
  <2> QED BY <1>5, <1>6, <1>7, <1>8, <1>9, <2>1 DEF TypeOK
<1> HIDE DEF e
<1>11. order' # <<>> /\ (spare' = <<>> <=> M - 1 = 0)
  BY <1>1, <1>5, <1>6
<1>12. /\ \A j \in 1 .. L + 1 : order'[j] \in Node /\ order'[j] # Null
       /\ \A j \in 1 .. M - 1 : spare'[j] \in Node /\ spare'[j] # Null
  BY <1>1, <1>5, <1>6 DEF Shape
<1>13. /\ first' = order'[1]
       /\ last' = order'[L + 1]
       /\ free' = IF M - 1 = 0 THEN Null ELSE spare'[1]
  BY <1>1, <1>5, <1>6, <1>7, <1>8
<1>14. \A j \in 1 .. L + 1 :
         next'[order'[j]] = IF j = L + 1 THEN Null ELSE order'[j + 1]
  <2> TAKE j \in 1 .. L + 1
  <2>1. CASE j < k - 1
    BY <1>2, <1>5, <1>7, <2>1 DEF Shape
  <2>2. CASE j = k - 1
    BY <1>2, <1>5, <1>7, <2>2 DEF Shape
  <2>3. CASE j = k
    BY <1>1, <1>5, <1>7, <2>3 DEF Shape
  <2>4. CASE j > k
    <3>1. /\ order'[j] = order[j - 1] /\ j - 1 \in 1 .. L /\ j - 1 # k - 1
          /\ j < L + 1 => order'[j + 1] = order[j]
      BY <1>5, <2>4
    <3>2. k > 1 => order[j - 1] # order[k - 1]
      BY <2>4, <3>1 DEF Shape
    <3>3. /\ order[j - 1] \in Node
          /\ next[order[j - 1]] = IF j - 1 = L THEN Null ELSE order[j]
      BY <3>1 DEF Shape
    <3> QED BY <1>2, <1>7, <3>1, <3>2, <3>3
  <2> QED BY <2>1, <2>2, <2>3, <2>4
<1>15. \A j \in 1 .. L + 1 :
         prev'[order'[j]] = IF j = 1 THEN Null ELSE order'[j - 1]
  <2>1. \A j \in 1 .. L : M > 1 => order[j] # spare[2]
    BY DEF Shape
  <2> TAKE j \in 1 .. L + 1
  <2>2. CASE j < k
    <3>1. order'[j] = order[j] /\ j \in 1 .. L /\ (j > 1 => order'[j - 1] = order[j - 1])
      BY <1>5, <2>2
    <3>2. k <= L => order[j] # order[k]
      BY <2>2, <3>1 DEF Shape
    <3>3. order[j] \in Node /\ prev[order[j]] = IF j = 1 THEN Null ELSE order[j - 1]
      BY <3>1 DEF Shape
    <3> QED BY <1>2, <1>7, <2>1, <3>1, <3>2, <3>3
  <2>3. CASE j = k
    <3>1. order'[j] = e /\ (j > 1 => order'[j - 1] = order[k - 1])
      BY <1>5, <2>3
    <3>2. prev'[e] = IF k = 1 THEN Null ELSE order[k - 1]
      BY <1>1, <1>7
    <3>3. j = 1 \/ j > 1
      OBVIOUS
    <3> QED BY <2>3, <3>1, <3>2, <3>3
  <2>4. CASE j = k + 1
    <3>1. order'[j] = order[k] /\ k \in 1 .. L /\ order'[j - 1] = e /\ j # 1
      BY <1>5, <2>4
    <3>2. order[k] \in Node /\ order[k] # e
      BY <1>2, <3>1 DEF Shape
    <3> QED BY <1>7, <3>1, <3>2
  <2>5. CASE j > k + 1
    <3>1. /\ order'[j] = order[j - 1] /\ j - 1 \in 1 .. L
          /\ order'[j - 1] = order[j - 2] /\ j # 1 /\ j - 1 # 1 /\ j - 1 # k
      BY <1>5, <2>5
    <3>2. k <= L => order[j - 1] # order[k]
      BY <3>1 DEF Shape
    <3>3. order[j - 1] \in Node /\ prev[order[j - 1]] = order[j - 2]
      BY <3>1 DEF Shape
    <3> QED BY <1>2, <1>7, <2>1, <3>1, <3>2, <3>3
  <2> QED BY <2>2, <2>3, <2>4, <2>5
<1>16. \A j \in 1 .. M - 1 :
         next'[spare'[j]] = IF j = M - 1 THEN Null ELSE spare'[j + 1]
  <2> TAKE j \in 1 .. M - 1
  <2>1. /\ spare'[j] = spare[j + 1] /\ spare[j + 1] \in Node
        /\ spare[j + 1] # e
        /\ k > 1 => spare[j + 1] # order[k - 1]
        /\ j < M - 1 => spare'[j + 1] = spare[j + 2]
    BY <1>1, <1>2, <1>6 DEF Shape
  <2>2. next[spare[j + 1]] = IF j = M - 1 THEN Null ELSE spare[j + 2]
    BY DEF Shape
  <2> QED BY <1>7, <2>1, <2>2
<1>17. \A j \in 1 .. M - 1 :
         prev'[spare'[j]] = IF j = 1 THEN Null ELSE spare'[j - 1]
  <2> TAKE j \in 1 .. M - 1
  <2>1. /\ spare'[j] = spare[j + 1] /\ spare[j + 1] \in Node
        /\ spare[j + 1] # e
        /\ k <= L => spare[j + 1] # order[k]
    BY <1>1, <1>2, <1>6 DEF Shape
  <2>2. CASE j = 1
    BY <1>7, <2>1, <2>2
  <2>3. CASE j > 1
    <3>1. spare[j + 1] # spare[2] /\ prev[spare[j + 1]] = spare[j]
      BY <2>3 DEF Shape
    <3>2. spare'[j - 1] = spare[j]
      BY <1>6, <2>3
    <3> QED BY <1>7, <2>1, <2>3, <3>1, <3>2
  <2> QED BY <2>2, <2>3
<1>18. /\ \A j, m \in 1 .. L + 1 : order'[j] = order'[m] => j = m
       /\ \A j, m \in 1 .. M - 1 : spare'[j] = spare'[m] => j = m
       /\ \A j \in 1 .. L + 1, m \in 1 .. M - 1 : order'[j] # spare'[m]
  <2>1. ASSUME NEW j \in 1 .. L + 1, NEW m \in 1 .. L + 1,
               j < m, order'[j] = order'[m]
        PROVE  FALSE
    <3>1. CASE m < k
      BY <1>5, <2>1, <3>1 DEF Shape
    <3>2. CASE m = k
      BY <1>2, <1>5, <2>1, <3>2
    <3>3. CASE j < k /\ m > k
      BY <1>5, <2>1, <3>3 DEF Shape
    <3>4. CASE j = k
      BY <1>2, <1>5, <2>1, <3>4
    <3>5. CASE j > k
      BY <1>5, <2>1, <3>5 DEF Shape
    <3> QED BY <2>1, <3>1, <3>2, <3>3, <3>4, <3>5
  <2>2. \A j, m \in 1 .. M - 1 : spare'[j] = spare'[m] => j = m
    BY <1>6 DEF Shape
  <2>3. ASSUME NEW j \in 1 .. L + 1, NEW m \in 1 .. M - 1
        PROVE  order'[j] # spare'[m]
    <3>1. spare'[m] = spare[m + 1] /\ m + 1 \in 2 .. M
      BY <1>6
    <3>2. CASE j < k
      BY <1>5, <3>1, <3>2 DEF Shape
    <3>3. CASE j = k
      BY <1>2, <1>5, <3>1, <3>3
    <3>4. CASE j > k
      BY <1>5, <3>1, <3>4 DEF Shape
    <3> QED BY <3>2, <3>3, <3>4
  <2>4. \A j, m \in 1 .. L + 1 : order'[j] = order'[m] => j = m
    <3> TAKE j, m \in 1 .. L + 1
    <3>1. j < m \/ j = m \/ m < j
      OBVIOUS
    <3> QED BY <2>1, <3>1
  <2> QED BY <2>2, <2>3, <2>4
<1>19. (L + 1) + (M - 1) = N /\ L + 1 # 0
  BY <1>1 DEF Shape
<1> QED
  BY <1>1, <1>5, <1>6, <1>10, <1>11, <1>12, <1>13, <1>14, <1>15, <1>16,
     <1>17, <1>18, <1>19 DEF Shape

(* erase unlinks the node at position k and puts it back on the free list. *)
LEMMA EraseShape ==
  ASSUME IInv, NEW L \in Nat, NEW M \in Nat, Shape(L, M),
         NEW k \in 1 .. L, Erase(k)
  PROVE  TypeOK' /\ Shape(L - 1, M + 1)'
<1> DEFINE i == order[k]
           n == IF k = L THEN Null ELSE order[k + 1]
           p == IF k = 1 THEN Null ELSE order[k - 1]
<1>1. /\ i \in Node /\ i # Null
      /\ next[i] = n /\ prev[i] = p
      /\ n # i /\ p # i
      /\ k < L => n \in Node /\ n # Null
      /\ k > 1 => p \in Node /\ p # Null
  BY DEF Shape
<1>2. /\ \A j \in 1 .. M : i # spare[j]
      /\ \A j \in 1 .. L : i = order[j] => j = k
  BY DEF Shape
<1>3. /\ free = IF M = 0 THEN Null ELSE spare[1]
      /\ M > 0 => free \in Node /\ free # Null /\ free # i /\ free # n
      /\ free \in Pointer
  BY <1>2, NullNotNode DEF Shape, Pointer
<1>4. /\ order' \in Seq(Node)
      /\ Len(order') = L - 1
      /\ \A j \in 1 .. k - 1 : order'[j] = order[j]
      /\ \A j \in k .. L - 1 : order'[j] = order[j + 1]
  <2>1. order' = RemoveAt(order, k) /\ order \in Seq(Node) /\ Len(order) = L
    BY DEF Erase, RecordRemove, IInv, TypeOK, Shape
  <2>2. order' \in Seq(Node) /\ Removed(order', order, k, L)
    BY <2>1, RemoveAtEntries
  <2> QED BY <2>2 DEF Removed
<1>5. /\ spare' \in Seq(Node)
      /\ Len(spare') = M + 1
      /\ spare'[1] = i
      /\ \A j \in 2 .. M + 1 : spare'[j] = spare[j - 1]
  <2>1. spare' = <<i>> \o spare /\ spare \in Seq(Node) /\ Len(spare) = M
    BY DEF Erase, RecordRemove, IInv, TypeOK, Shape
  <2> HIDE DEF i
  <2>2. spare' \in Seq(Node) /\ Inserted(spare', spare, 1, i, M)
    BY <1>1, <2>1, PushEntries
  <2> QED BY <2>2 DEF Inserted
<1> HIDE DEF i
<1>6. /\ next' = [SetIf(next, p, n) EXCEPT ![i] = free]
      /\ prev' = SetIf([SetIf(prev, n, p) EXCEPT ![i] = Null], free, i)
      /\ free' = i
      /\ first' = IF p = Null THEN n ELSE first
      /\ last' = IF n = Null THEN p ELSE last
      /\ value' = value
  BY <1>1 DEF Erase, erase, return_free_elem, i
<1>7. /\ next \in [Node -> Pointer]
      /\ prev \in [Node -> Pointer]
      /\ value \in [Node -> Value]
      /\ \A m \in Node : m \in Pointer /\ m # Null
      /\ n \in Pointer /\ p \in Pointer /\ Null \in Pointer
  BY <1>1, NullNotNode DEF IInv, TypeOK, Pointer
<1>8. /\ next' \in [Node -> Pointer]
      /\ \A m \in Node : next'[m] =
           IF m = i THEN free
           ELSE IF k > 1 /\ m = order[k - 1] THEN n ELSE next[m]
  BY <1>1, <1>3, <1>6, <1>7 DEF SetIf
<1>9. /\ prev' \in [Node -> Pointer]
      /\ \A m \in Node : prev'[m] =
           IF M > 0 /\ m = spare[1] THEN i
           ELSE IF m = i THEN Null
           ELSE IF k < L /\ m = order[k + 1] THEN p ELSE prev[m]
  <2> DEFINE q == SetIf(prev, n, p)
             r == [q EXCEPT ![i] = Null]
  <2>1. /\ q \in [Node -> Pointer]
        /\ \A m \in Node :
             q[m] = IF k < L /\ m = order[k + 1] THEN p ELSE prev[m]
    BY <1>1, <1>7 DEF SetIf
  <2> HIDE DEF q
  <2>2. /\ r \in [Node -> Pointer]
        /\ \A m \in Node : r[m] = IF m = i THEN Null ELSE q[m]
    BY <1>1, <1>7, <2>1
  <2>3. prev' = SetIf(r, free, i)
    BY <1>6 DEF q
  <2> HIDE DEF r
  <2> QED BY <1>1, <1>3, <1>7, <2>1, <2>2, <2>3 DEF SetIf
<1>10. /\ first' = IF k = 1 THEN n ELSE order[1]
       /\ last' = IF k = L THEN p ELSE order[L]
       /\ first' \in Pointer /\ last' \in Pointer
  BY <1>1, <1>6, <1>7 DEF Shape
<1>11. TypeOK'
  BY <1>1, <1>4, <1>5, <1>6, <1>7, <1>8, <1>9, <1>10 DEF TypeOK
<1>12. /\ (order' = <<>> <=> L - 1 = 0)
       /\ spare' # <<>> /\ M + 1 # 0
       /\ (L - 1) + (M + 1) = N
  BY <1>4, <1>5 DEF Shape
<1>13. /\ \A j \in 1 .. L - 1 : order'[j] \in Node /\ order'[j] # Null
       /\ \A j \in 1 .. M + 1 : spare'[j] \in Node /\ spare'[j] # Null
  BY <1>1, <1>4, <1>5 DEF Shape
<1>14. /\ first' = IF L - 1 = 0 THEN Null ELSE order'[1]
       /\ last' = IF L - 1 = 0 THEN Null ELSE order'[L - 1]
       /\ free' = spare'[1]
  BY <1>4, <1>5, <1>6, <1>10
<1>15. \A j \in 1 .. L - 1 :
         next'[order'[j]] = IF j = L - 1 THEN Null ELSE order'[j + 1]
  <2> TAKE j \in 1 .. L - 1
  <2>1. CASE j < k - 1
    <3>1. /\ order'[j] = order[j] /\ order'[j + 1] = order[j + 1]
          /\ order[j] # order[k - 1] /\ order[j] \in Node
          /\ next[order[j]] = order[j + 1] /\ j # L - 1
      BY <1>4, <2>1 DEF Shape
    <3> QED BY <1>2, <1>8, <2>1, <3>1
  <2>2. CASE j = k - 1
    <3>1. /\ order'[j] = order[k - 1] /\ order[k - 1] \in Node
          /\ k < L => order'[j + 1] = order[k + 1]
      BY <1>4, <2>2 DEF Shape
    <3> QED BY <1>2, <1>8, <2>2, <3>1
  <2>3. CASE j >= k
    <3>1. /\ order'[j] = order[j + 1] /\ order[j + 1] \in Node
          /\ j < L - 1 => order'[j + 1] = order[j + 2]
          /\ k > 1 => order[j + 1] # order[k - 1]
          /\ next[order[j + 1]] = IF j + 1 = L THEN Null ELSE order[j + 2]
      BY <1>4, <2>3 DEF Shape
    <3> QED BY <1>2, <1>8, <2>3, <3>1
  <2> QED BY <2>1, <2>2, <2>3
<1>16. \A j \in 1 .. L - 1 :
         prev'[order'[j]] = IF j = 1 THEN Null ELSE order'[j - 1]
  <2>1. \A j \in 1 .. L : M > 0 => order[j] # spare[1]
    BY DEF Shape
  <2> TAKE j \in 1 .. L - 1
  <2>2. CASE j < k
    <3>1. /\ order'[j] = order[j] /\ order[j] \in Node
          /\ j > 1 => order'[j - 1] = order[j - 1]
          /\ k < L => order[j] # order[k + 1]
          /\ prev[order[j]] = IF j = 1 THEN Null ELSE order[j - 1]
      BY <1>4, <2>2 DEF Shape
    <3> QED BY <1>2, <1>9, <2>1, <2>2, <3>1
  <2>3. CASE j = k
    <3>1. /\ order'[j] = order[k + 1] /\ order[k + 1] \in Node
          /\ k > 1 => order'[j - 1] = order[k - 1]
      BY <1>4, <2>3 DEF Shape
    <3> QED BY <1>2, <1>9, <2>1, <2>3, <3>1
  <2>4. CASE j > k
    <3>1. /\ order'[j] = order[j + 1] /\ order[j + 1] \in Node
          /\ order'[j - 1] = order[j]
          /\ order[j + 1] # order[k + 1]
          /\ prev[order[j + 1]] = order[j]
      BY <1>4, <2>4 DEF Shape
    <3> QED BY <1>2, <1>9, <2>1, <2>4, <3>1
  <2> QED BY <2>2, <2>3, <2>4
<1>17. \A j \in 1 .. M + 1 :
         next'[spare'[j]] = IF j = M + 1 THEN Null ELSE spare'[j + 1]
  <2> TAKE j \in 1 .. M + 1
  <2>1. CASE j = 1
    BY <1>1, <1>3, <1>5, <1>8, <2>1
  <2>2. CASE j > 1
    <3>1. /\ spare'[j] = spare[j - 1] /\ spare[j - 1] \in Node
          /\ j < M + 1 => spare'[j + 1] = spare[j]
          /\ k > 1 => spare[j - 1] # order[k - 1]
          /\ next[spare[j - 1]] = IF j - 1 = M THEN Null ELSE spare[j]
      BY <1>5, <2>2 DEF Shape
    <3> QED BY <1>2, <1>8, <2>2, <3>1
  <2> QED BY <2>1, <2>2
<1>18. \A j \in 1 .. M + 1 :
         prev'[spare'[j]] = IF j = 1 THEN Null ELSE spare'[j - 1]
  <2> TAKE j \in 1 .. M + 1
  <2>1. CASE j = 1
    BY <1>1, <1>2, <1>5, <1>9, <2>1
  <2>2. CASE j = 2
    <3>1. spare'[j] = spare[1] /\ spare[1] \in Node /\ M > 0
      BY <1>5, <2>2 DEF Shape
    <3> QED BY <1>5, <1>9, <2>2, <3>1
  <2>3. CASE j > 2
    <3>1. /\ spare'[j] = spare[j - 1] /\ spare[j - 1] \in Node
          /\ spare'[j - 1] = spare[j - 2]
          /\ spare[j - 1] # spare[1]
          /\ k < L => spare[j - 1] # order[k + 1]
          /\ prev[spare[j - 1]] = spare[j - 2]
      BY <1>5, <2>3 DEF Shape
    <3> QED BY <1>2, <1>9, <2>3, <3>1
  <2> QED BY <2>1, <2>2, <2>3
<1>19. /\ \A j, m \in 1 .. L - 1 : order'[j] = order'[m] => j = m
       /\ \A j, m \in 1 .. M + 1 : spare'[j] = spare'[m] => j = m
       /\ \A j \in 1 .. L - 1, m \in 1 .. M + 1 : order'[j] # spare'[m]
  <2>1. \A j \in 1 .. L - 1 :
          \E a \in 1 .. L : /\ order'[j] = order[a]
                            /\ a = IF j < k THEN j ELSE j + 1
    BY <1>4
  <2>2. \A j \in 2 .. M + 1 : spare'[j] = spare[j - 1] /\ j - 1 \in 1 .. M
    BY <1>5
  <2>3. \A j, m \in 1 .. L - 1 : order'[j] = order'[m] => j = m
    BY <2>1 DEF Shape
  <2>4. \A j, m \in 1 .. M + 1 : spare'[j] = spare'[m] => j = m
    BY <1>2, <1>5, <2>2 DEF Shape
  <2>5. ASSUME NEW j \in 1 .. L - 1, NEW m \in 1 .. M + 1
        PROVE  order'[j] # spare'[m]
    <3>1. PICK a \in 1 .. L : order'[j] = order[a] /\ a # k
      BY <2>1
    <3>2. CASE m = 1
      BY <1>2, <1>5, <3>1, <3>2
    <3>3. CASE m > 1
      BY <2>2, <3>1, <3>3 DEF Shape
    <3> QED BY <3>2, <3>3
  <2> QED BY <2>3, <2>4, <2>5
<1> QED
  BY <1>4, <1>5, <1>11, <1>12, <1>13, <1>14, <1>15, <1>16, <1>17, <1>18,
     <1>19 DEF Shape

-----------------------------------------------------------------------------
(* Every step is a stuttering one, an Emplace or an Erase.                 *)
LEMMA StepCases ==
  ASSUME IInv, [Next]_vars
  PROVE  \/ UNCHANGED vars
         \/ \E v \in Value, k \in 1 .. Len(order) + 1 : Emplace(k, v)
         \/ \E k \in 1 .. Len(order) : Erase(k)
<1>1. ASSUME NEW v \in Value, EmplaceBack(v)
      PROVE  \E k \in 1 .. Len(order) + 1 : Emplace(k, v)
  BY <1>1, EmplaceBackEmplaces
<1>2. ASSUME PopFront
      PROVE  \E k \in 1 .. Len(order) : Erase(k)
  BY <1>2, PopFrontErases
<1>3. ASSUME PopBack
      PROVE  \E k \in 1 .. Len(order) : Erase(k)
  BY <1>3, PopBackErases
<1> QED BY <1>1, <1>2, <1>3 DEF Next, EmplaceFull, PopEmpty

(* Every call of the class preserves the inductive invariant.              *)
LEMMA NextInv == IInv /\ [Next]_vars => IInv'
<1> SUFFICES ASSUME IInv, [Next]_vars PROVE IInv'
  OBVIOUS
<1>1. PICK L \in Nat, M \in Nat : Shape(L, M)
  BY ShapeFromInv
<1>2. Len(order) = L
  BY <1>1 DEF Shape
<1>3. CASE UNCHANGED vars
  BY <1>3 DEF vars, IInv, TypeOK, ForwardChain, BackwardChain, FreeChain,
              Partition, Distinct
<1>4. ASSUME NEW v \in Value, NEW k \in 1 .. L + 1, Emplace(k, v)
      PROVE  IInv'
  <2>1. M >= 1 /\ TypeOK' /\ Shape(L + 1, M - 1)'
    BY <1>1, <1>4, EmplaceShape
  <2>2. L + 1 \in Nat /\ M - 1 \in Nat
    BY <2>1
  <2> QED
    BY <2>1, <2>2 DEF Shape, IInv, ForwardChain, BackwardChain, FreeChain,
                      Partition, Distinct
<1>5. ASSUME NEW k \in 1 .. L, Erase(k)
      PROVE  IInv'
  <2>1. TypeOK' /\ Shape(L - 1, M + 1)'
    BY <1>1, <1>5, EraseShape
  <2>2. L - 1 \in Nat /\ M + 1 \in Nat
    OBVIOUS
  <2> QED
    BY <2>1, <2>2 DEF Shape, IInv, ForwardChain, BackwardChain, FreeChain,
                      Partition, Distinct
<1> QED BY <1>2, <1>3, <1>4, <1>5, StepCases

(* The pointers always spell the list and the free list, forwards and      *)
(* backwards, and no node of buffer_ is lost or in both: whatever the      *)
(* sequence of emplace, pop and erase calls, for every capacity.           *)
THEOREM ChainsWellFormed ==
  Spec => [](WellFormed /\ Partition)
<1>1. IInv => WellFormed /\ Partition
  BY DEF IInv, WellFormed
<1> QED BY <1>1, InitInv, NextInv, PTL DEF Spec

(* No operation of the list changes the value of an entry that stays in    *)
(* it, so a reference a client holds keeps its value.                      *)
THEOREM ReferencesStable == Spec => LiveEntriesStable
<1>1. ASSUME IInv, [Next]_vars
      PROVE  [\A n \in ToSet(order) \cap ToSet(order') :
                value'[n] = value[n]]_vars
  <2>1. CASE UNCHANGED vars
    BY <2>1
  <2>2. ASSUME NEW v \in Value, NEW k \in 1 .. Len(order) + 1, Emplace(k, v),
               NEW n \in ToSet(order)
        PROVE  value'[n] = value[n]
    <3>1. PICK L \in Nat, M \in Nat : Shape(L, M)
      BY <1>1, ShapeFromInv
    <3>2. n \in Node /\ n # free
      <4>1. PICK j \in 1 .. L : n = order[j]
        BY <1>1, <2>2, <3>1 DEF ToSet, Shape, IInv, TypeOK
      <4>2. M >= 1 /\ free = spare[1]
        BY <2>2, <3>1 DEF Shape, Emplace, emplace, get_free_elem
      <4> QED BY <3>1, <4>1, <4>2 DEF Shape
    <3>3. value' = [value EXCEPT ![free] = v] /\ value \in [Node -> Value]
      BY <1>1, <2>2 DEF Emplace, emplace, Construct, IInv, TypeOK
    <3> QED BY <3>2, <3>3
  <2>3. ASSUME NEW k \in 1 .. Len(order), Erase(k)
        PROVE  value' = value
    BY <2>3 DEF Erase, erase
  <2> QED BY <1>1, <2>1, <2>2, <2>3, StepCases
<1> QED BY <1>1, InitInv, NextInv, PTL DEF Spec, LiveEntriesStable

-----------------------------------------------------------------------------
(* The refinement.  The abstract list is what iterating over the pointers  *)
(* reads, so the first step is that the iteration visits the nodes of      *)
(* order.  A set of natural numbers has a least element, which stands in   *)
(* for induction along the list.                                           *)

(* From begin(), ++ visits the L nodes of the list and then stays at end().*)
LEMMA VisitsOrder ==
  ASSUME IInv, NEW L \in Nat, NEW M \in Nat, Shape(L, M)
  PROVE  \A k \in Node : Visit[k] = IF k <= L THEN order[k] ELSE Null
<1> DEFINE After(f, k) ==
             IF k = 1 THEN first
                      ELSE IF f[k - 1] = Null THEN Null ELSE next[f[k - 1]]
           g == [k \in Node |-> IF k <= L THEN order[k] ELSE Null]
<1>1. g = [k \in Node |-> After(g, k)]
  <2>1. ASSUME NEW k \in Node
        PROVE  (IF k <= L THEN order[k] ELSE Null) = After(g, k)
    <3>1. CASE k = 1
      BY <3>1 DEF Shape, Node
    <3>2. CASE k > 1
      <4>1. k - 1 \in Node /\ g[k - 1] = IF k - 1 <= L THEN order[k - 1] ELSE Null
        BY <3>2, NAssumption DEF Node
      <4> HIDE DEF g
      <4>2. CASE k - 1 <= L
        <5>1. /\ order[k - 1] # Null
              /\ next[order[k - 1]] = IF k - 1 = L THEN Null ELSE order[k]
          BY <3>2, <4>2 DEF Shape, Node
        <5> QED BY <3>2, <4>1, <4>2, <5>1 DEF Node
      <4>3. CASE ~ (k - 1 <= L)
        BY <3>2, <4>1, <4>3 DEF Node
      <4> QED BY <4>2, <4>3
    <3> QED BY <3>1, <3>2, NAssumption DEF Node
  <2> QED BY <2>1
<1>2. Visit = [k \in Node |-> After(Visit, k)]
  <2> HIDE DEF g
  <2> QED BY <1>1, Zenon DEF Visit
<1> DEFINE T == {k \in Node : Visit[k] # g[k]}
<1>3. ASSUME T # {} PROVE FALSE
  <2>1. T \subseteq Nat
    BY DEF Node
  <2>2. PICK x \in T : \A y \in T : x <= y
    BY <1>3, <2>1, LeastNumber
  <2>3. x \in Node /\ Visit[x] = After(Visit, x) /\ g[x] = After(g, x)
    BY <1>1, <1>2, <2>2
  <2>4. x = 1 \/ (x - 1 \in Node /\ x - 1 \notin T)
    BY <2>2, <2>3, NAssumption DEF Node
  <2>5. x = 1 \/ Visit[x - 1] = g[x - 1]
    BY <2>4
  <2> HIDE DEF g
  <2>6. Visit[x] = g[x]
    BY <2>3, <2>5
  <2> QED BY <2>2, <2>6
<1> QED BY <1>3

(* The values of the list, front to back.                                  *)
Contents(L) == [k \in 1 .. L |-> value[order[k]]]

ReadsContents ==
  IInv => \A L, M \in Nat : Shape(L, M) => Elems = Contents(L)

(* Iterating reads the values of the nodes of order.                       *)
LEMMA ElemsAreContents == ReadsContents
<1> SUFFICES ASSUME IInv, NEW L \in Nat, NEW M \in Nat, Shape(L, M)
             PROVE  Elems = Contents(L)
  BY DEF ReadsContents
<1>1. \A k \in Node : Visit[k] = IF k <= L THEN order[k] ELSE Null
  BY VisitsOrder
<1>2. \A k \in 1 .. L : k \in Node /\ order[k] # Null
  BY NAssumption DEF Shape, Node
<1>3. {j \in Node : Visit[j] # Null} = 1 .. L
  BY <1>1, <1>2, NAssumption DEF Node
<1>4. \A k \in 1 .. L : value[Visit[k]] = value[order[k]]
  BY <1>1, <1>2
<1> QED BY <1>3, <1>4, Zenon DEF Elems, Contents

(* The same in the state after a step.                                     *)
LEMMA ElemsAreContentsNext == ReadsContents'
BY ElemsAreContents, PTL

(* The contents are a sequence of L values.                                *)
LEMMA ContentsFacts ==
  ASSUME IInv, NEW L \in Nat, NEW M \in Nat, Shape(L, M)
  PROVE  Contents(L) \in Seq(Value) /\ Len(Contents(L)) = L
<1>1. \A k \in 1 .. L : value[order[k]] \in Value
  BY DEF Shape, IInv, TypeOK
<1> QED BY <1>1 DEF Contents

(* An Emplace step inserts its value into the contents.                    *)
LEMMA EmplaceContents ==
  ASSUME IInv, NEW L \in Nat, NEW M \in Nat, Shape(L, M),
         NEW k \in 1 .. L + 1, NEW v \in Value, Emplace(k, v)
  PROVE  /\ Elems' = InsertAt(Elems, k, v)
         /\ Len(Elems) = L /\ L < N
<1>1. M >= 1 /\ TypeOK' /\ Shape(L + 1, M - 1)'
  BY EmplaceShape
<1>2. L + 1 \in Nat /\ M - 1 \in Nat /\ L < N
  BY <1>1 DEF Shape
<1>3. IInv'
  BY <1>1, <1>2 DEF Shape, IInv, ForwardChain, BackwardChain, FreeChain,
                    Partition, Distinct
<1>4. Elems = Contents(L) /\ Contents(L) \in Seq(Value) /\ Len(Contents(L)) = L
  BY ElemsAreContents, ContentsFacts DEF ReadsContents
<1>5. Elems' = Contents(L + 1)'
  BY <1>1, <1>2, <1>3, ElemsAreContentsNext DEF ReadsContents
<1>6. /\ order \in Seq(Node) /\ free \in Node
      /\ \A j \in 1 .. L : order[j] \in Node /\ order[j] # free
      /\ value \in [Node -> Value]
      /\ value' = [value EXCEPT ![free] = v]
      /\ order' = InsertAt(order, k, free) /\ Len(order) = L
  BY DEF Shape, IInv, TypeOK, Emplace, emplace, get_free_elem, Construct,
         RecordInsert
<1>7. Inserted(order', order, k, free, L)
  BY <1>6, InsertAtEntries
<1> DEFINE c == Contents(L)
           d == Contents(L + 1)'
           t == InsertAt(c, k, v)
<1>8. t \in Seq(Value) /\ Inserted(t, c, k, v, L)
  <2>1. c \in Seq(Value) /\ Len(c) = L
    BY <1>4
  <2> HIDE DEF c
  <2> QED BY <2>1, InsertAtEntries
<1>9. \A j \in 1 .. L : c[j] = value[order[j]]
  BY DEF Contents
<1>10. \A j \in 1 .. L + 1 : d[j] = value'[order'[j]]
  BY DEF Contents
<1> HIDE DEF c, d, t
<1>11. \A j \in 1 .. L + 1 : d[j] = t[j]
  <2> TAKE j \in 1 .. L + 1
  <2>1. CASE j < k
    BY <1>6, <1>7, <1>8, <1>9, <1>10, <2>1 DEF Inserted
  <2>2. CASE j = k
    BY <1>6, <1>7, <1>8, <1>10, <2>2 DEF Inserted
  <2>3. CASE j > k
    <3>1. j - 1 \in 1 .. L
      BY <2>3
    <3>2. d[j] = value'[order[j - 1]] /\ t[j] = c[j - 1]
      BY <1>7, <1>8, <1>10, <2>3 DEF Inserted
    <3> QED BY <1>6, <1>9, <3>1, <3>2
  <2> QED BY <2>1, <2>2, <2>3
<1>12. d \in Seq(Value) /\ Len(d) = L + 1
  <2>1. d = [j \in 1 .. L + 1 |-> value'[order'[j]]]
    BY DEF d, Contents
  <2>2. ASSUME NEW j \in 1 .. L + 1 PROVE value'[order'[j]] \in Value
    BY <1>1 DEF Shape, TypeOK
  <2> QED BY <2>1, <2>2
<1>13. Len(t) = L + 1
  BY <1>8 DEF Inserted
<1>14. d = t
  BY <1>8, <1>11, <1>12, <1>13, SeqEqual
<1> QED BY <1>2, <1>4, <1>5, <1>14 DEF c, d, t

(* An Erase step removes one entry from the contents.                      *)
LEMMA EraseContents ==
  ASSUME IInv, NEW L \in Nat, NEW M \in Nat, Shape(L, M),
         NEW k \in 1 .. L, Erase(k)
  PROVE  Elems' = RemoveAt(Elems, k) /\ Len(Elems) = L
<1>1. TypeOK' /\ Shape(L - 1, M + 1)'
  BY EraseShape
<1>2. L - 1 \in Nat /\ M + 1 \in Nat
  OBVIOUS
<1>3. IInv'
  BY <1>1, <1>2 DEF Shape, IInv, ForwardChain, BackwardChain, FreeChain,
                    Partition, Distinct
<1>4. Elems = Contents(L) /\ Contents(L) \in Seq(Value) /\ Len(Contents(L)) = L
  BY ElemsAreContents, ContentsFacts DEF ReadsContents
<1>5. Elems' = Contents(L - 1)'
  BY <1>1, <1>2, <1>3, ElemsAreContentsNext DEF ReadsContents
<1>6. /\ order \in Seq(Node) /\ value' = value
      /\ order' = RemoveAt(order, k) /\ Len(order) = L
  BY DEF Shape, IInv, TypeOK, Erase, erase, RecordRemove
<1>7. Removed(order', order, k, L)
  BY <1>6, RemoveAtEntries
<1> DEFINE c == Contents(L)
           d == Contents(L - 1)'
           t == RemoveAt(c, k)
<1>8. t \in Seq(Value) /\ Removed(t, c, k, L)
  <2>1. c \in Seq(Value) /\ Len(c) = L
    BY <1>4
  <2> HIDE DEF c
  <2> QED BY <2>1, RemoveAtEntries
<1>9. \A j \in 1 .. L : c[j] = value[order[j]]
  BY DEF Contents
<1>10. \A j \in 1 .. L - 1 : d[j] = value'[order'[j]]
  BY DEF Contents
<1> HIDE DEF c, d, t
<1>11. \A j \in 1 .. L - 1 : d[j] = t[j]
  <2> TAKE j \in 1 .. L - 1
  <2>1. CASE j < k
    BY <1>6, <1>7, <1>8, <1>9, <1>10, <2>1 DEF Removed
  <2>2. CASE j >= k
    <3>1. j + 1 \in 1 .. L
      BY <2>2
    <3>2. d[j] = value'[order[j + 1]] /\ t[j] = c[j + 1]
      BY <1>7, <1>8, <1>10, <2>2 DEF Removed
    <3> QED BY <1>6, <1>9, <3>1, <3>2
  <2> QED BY <2>1, <2>2
<1>12. d \in Seq(Value) /\ Len(d) = L - 1
  <2>1. d = [j \in 1 .. L - 1 |-> value'[order'[j]]]
    BY DEF d, Contents
  <2>2. ASSUME NEW j \in 1 .. L - 1 PROVE value'[order'[j]] \in Value
    BY <1>1 DEF Shape, TypeOK
  <2> QED BY <1>2, <2>1, <2>2
<1>13. Len(t) = L - 1
  BY <1>8 DEF Removed
<1>14. d = t
  BY <1>8, <1>11, <1>12, <1>13, SeqEqual
<1> QED BY <1>4, <1>5, <1>14 DEF c, d, t

(* What a client reads by iterating over a static_list changes as a        *)
(* bounded std::list does: inserts go before the iterator's position or    *)
(* are dropped when all N nodes are in use, removals take out one entry.   *)
THEOREM ListRefinement == Spec => ImplementsBoundedList
<1>1. Init => Abstract!Init
  <2> SUFFICES ASSUME Init PROVE Elems = <<>>
    BY DEF Abstract!Init
  <2>1. IInv
    BY InitInv
  <2>2. Shape(0, N) /\ N \in Nat
    <3>1. PICK L \in Nat, M \in Nat : Shape(L, M)
      BY <2>1, ShapeFromInv
    <3>2. L = 0
      BY <3>1 DEF Init, Shape
    <3> QED BY <3>1, <3>2, NAssumption DEF Shape
  <2>3. Elems = Contents(0)
    BY <2>1, <2>2, ElemsAreContents DEF ReadsContents
  <2> QED BY <2>3 DEF Contents
<1>2. ASSUME IInv, [Next]_vars
      PROVE  [Abstract!Next]_Elems
  <2>1. PICK L \in Nat, M \in Nat : Shape(L, M)
    BY <1>2, ShapeFromInv
  <2>2. Len(order) = L /\ Len(Elems) = L
    BY <1>2, <2>1, ElemsAreContents, ContentsFacts DEF Shape, ReadsContents
  <2>3. CASE UNCHANGED vars
    BY <2>3 DEF vars, Elems, Visit
  <2>4. ASSUME NEW v \in Value, NEW k \in 1 .. L + 1, Emplace(k, v)
        PROVE  Abstract!Next
    <3>1. Elems' = InsertAt(Elems, k, v) /\ L < N
      BY <1>2, <2>1, <2>4, EmplaceContents
    <3>2. Len(Elems) # N
      BY <2>2, <3>1, NAssumption
    <3>3. Abstract!Emplace(k, v)
      BY <3>1, <3>2 DEF Abstract!Emplace, Abstract!Full, InsertAt, Abstract!InsertAt
    <3> QED BY <2>2, <3>3 DEF Abstract!Next
  <2>5. ASSUME NEW k \in 1 .. L, Erase(k)
        PROVE  Abstract!Next
    <3>1. Elems' = RemoveAt(Elems, k)
      BY <1>2, <2>1, <2>5, EraseContents
    <3>2. Abstract!Erase(k)
      BY <3>1 DEF Abstract!Erase, RemoveAt, Abstract!RemoveAt
    <3> QED BY <2>2, <3>2 DEF Abstract!Next
  <2> QED BY <1>2, <2>2, <2>3, <2>4, <2>5, StepCases
<1> QED
  BY <1>1, <1>2, InitInv, NextInv, PTL
  DEF Spec, ImplementsBoundedList, Abstract!Spec
=============================================================================
