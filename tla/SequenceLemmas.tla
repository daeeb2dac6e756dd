--------------------------- MODULE SequenceLemmas ---------------------------
(***************************************************************************)
(* Facts about sequences and numbers that the proofs about static_list and *)
(* about the schedulers share.                                             *)
(***************************************************************************)
EXTENDS Naturals, Sequences, SequencesExt, SequenceTheorems,
        WellFoundedInduction, TLAPS

-----------------------------------------------------------------------------
(* What InsertAt and RemoveAt return, entry by entry.                      *)

(* t is the sequence s of length L with e inserted before position k.      *)
Inserted(t, s, k, e, L) ==
  /\ Len(t) = L + 1
  /\ \A j \in 1 .. k - 1 : t[j] = s[j]
  /\ t[k] = e
  /\ \A j \in k + 1 .. L + 1 : t[j] = s[j - 1]

(* t is the sequence s of length L without its position k.                 *)
Removed(t, s, k, L) ==
  /\ Len(t) = L - 1
  /\ \A j \in 1 .. k - 1 : t[j] = s[j]
  /\ \A j \in k .. L - 1 : t[j] = s[j + 1]

(* Inserting e before position k moves the entries from k on up by one.    *)
LEMMA InsertAtEntries ==
  ASSUME NEW S, NEW s \in Seq(S), NEW L \in Nat, Len(s) = L,
         NEW k \in 1 .. L + 1, NEW e \in S
  PROVE  /\ InsertAt(s, k, e) \in Seq(S)
         /\ Inserted(InsertAt(s, k, e), s, k, e, L)
<1> DEFINE a == SubSeq(s, 1, k - 1)
           b == SubSeq(s, k, L)
           ae == a \o <<e>>
<1>1. /\ a \in Seq(S)
      /\ Len(a) = k - 1
      /\ \A j \in 1 .. k - 1 : a[j] = s[j]
  BY SubSeqProperties, ElementOfSeq
<1>2. /\ b \in Seq(S)
      /\ Len(b) = L - k + 1
      /\ \A j \in 1 .. L - k + 1 : b[j] = s[k + j - 1]
  BY SubSeqProperties, ElementOfSeq
<1>3. InsertAt(s, k, e) = ae \o b
  BY DEF InsertAt
<1> HIDE DEF a, b
<1>4. /\ ae \in Seq(S)
      /\ Len(ae) = k
      /\ \A j \in 1 .. k - 1 : ae[j] = s[j]
      /\ ae[k] = e
  <2>1. <<e>> \in Seq(S) /\ Len(<<e>>) = 1 /\ <<e>>[1] = e
    OBVIOUS
  <2> QED BY <1>1, <2>1, ConcatProperties
<1> HIDE DEF ae
<1>5. /\ ae \o b \in Seq(S)
      /\ Len(ae \o b) = Len(ae) + Len(b)
      /\ \A j \in 1 .. Len(ae) + Len(b) :
           (ae \o b)[j] = IF j <= Len(ae) THEN ae[j] ELSE b[j - Len(ae)]
  BY <1>2, <1>4, ConcatProperties
<1>6. /\ Len(ae \o b) = L + 1
      /\ \A j \in 1 .. k : (ae \o b)[j] = ae[j]
      /\ \A j \in k + 1 .. L + 1 : (ae \o b)[j] = b[j - k]
  BY <1>2, <1>4, <1>5
<1>7. ASSUME NEW j \in k + 1 .. L + 1
      PROVE  b[j - k] = s[j - 1]
  <2>1. j - k \in 1 .. L - k + 1 /\ k + (j - k) - 1 = j - 1
    OBVIOUS
  <2> QED BY <1>2, <2>1
<1> QED BY <1>3, <1>4, <1>5, <1>6, <1>7 DEF Inserted

(* Removing position k moves the entries behind it down by one.            *)
LEMMA RemoveAtEntries ==
  ASSUME NEW S, NEW s \in Seq(S), NEW L \in Nat, Len(s) = L,
         NEW k \in 1 .. L
  PROVE  /\ RemoveAt(s, k) \in Seq(S)
         /\ Removed(RemoveAt(s, k), s, k, L)
<1> DEFINE a == SubSeq(s, 1, k - 1)
           b == SubSeq(s, k + 1, L)
<1>1. /\ a \in Seq(S)
      /\ Len(a) = k - 1
      /\ \A j \in 1 .. k - 1 : a[j] = s[j]
  BY SubSeqProperties, ElementOfSeq
<1>2. /\ b \in Seq(S)
      /\ Len(b) = L - k
      /\ \A j \in 1 .. L - k : b[j] = s[k + j]
  BY SubSeqProperties, ElementOfSeq
<1>3. RemoveAt(s, k) = a \o b
  BY DEF RemoveAt
<1> HIDE DEF a, b
<1>4. /\ a \o b \in Seq(S)
      /\ Len(a \o b) = Len(a) + Len(b)
      /\ \A j \in 1 .. Len(a) + Len(b) :
           (a \o b)[j] = IF j <= Len(a) THEN a[j] ELSE b[j - Len(a)]
  BY <1>1, <1>2, ConcatProperties
<1>5. /\ Len(a \o b) = L - 1
      /\ \A j \in 1 .. k - 1 : (a \o b)[j] = a[j]
      /\ \A j \in k .. L - 1 : (a \o b)[j] = b[j - (k - 1)]
  BY <1>1, <1>2, <1>4
<1>6. ASSUME NEW j \in k .. L - 1
      PROVE  b[j - (k - 1)] = s[j + 1]
  <2>1. j - (k - 1) \in 1 .. L - k /\ k + (j - (k - 1)) = j + 1
    OBVIOUS
  <2> QED BY <1>2, <2>1
<1> QED BY <1>1, <1>3, <1>4, <1>5, <1>6 DEF Removed

(* A new head moves every entry up by one.                                 *)
LEMMA PushEntries ==
  ASSUME NEW S, NEW s \in Seq(S), NEW L \in Nat, Len(s) = L, NEW e \in S
  PROVE  /\ <<e>> \o s \in Seq(S)
         /\ Inserted(<<e>> \o s, s, 1, e, L)
<1>1. <<e>> \in Seq(S) /\ Len(<<e>>) = 1 /\ <<e>>[1] = e
  OBVIOUS
<1> QED BY <1>1, ConcatProperties DEF Inserted

(* t is the sequence s of length L without its last entry.                 *)
Shortened(t, s, L) ==
  /\ Len(t) = L - 1
  /\ \A j \in 1 .. L - 1 : t[j] = s[j]

(* Taking off the last entry leaves the others where they are.             *)
LEMMA FrontEntries ==
  ASSUME NEW S, NEW s \in Seq(S), NEW L \in Nat, Len(s) = L, s # <<>>
  PROVE  /\ L >= 1
         /\ Last(s) \in S
         /\ Last(s) = s[L]
         /\ Front(s) \in Seq(S)
         /\ Shortened(Front(s), s, L)
<1>1. L >= 1
  BY EmptySeq
<1>2. Last(s) = s[L] /\ s[L] \in S
  BY <1>1, ElementOfSeq DEF Last
<1>3. /\ SubSeq(s, 1, L - 1) \in Seq(S)
      /\ Len(SubSeq(s, 1, L - 1)) = L - 1
      /\ \A j \in 1 .. L - 1 : SubSeq(s, 1, L - 1)[j] = s[j]
  BY <1>1, SubSeqProperties, ElementOfSeq
<1> QED BY <1>1, <1>2, <1>3 DEF Front, Shortened

(* Sequences of one and of two entries.                                    *)
LEMMA ShortSequences ==
  ASSUME NEW x, NEW y
  PROVE  /\ <<x>> # <<>> /\ Last(<<x>>) = x /\ Front(<<x>>) = <<>>
         /\ <<x, y>> # <<>> /\ Last(<<x, y>>) = y /\ Front(<<x, y>>) = <<x>>
         /\ Append(<<>>, x) = <<x>> /\ Append(<<x>>, y) = <<x, y>>
<1> DEFINE S == {x, y}
           o == <<>>
           a == <<x>>
           b == <<x, y>>
<1>1. /\ o \in Seq(S) /\ a \in Seq(S) /\ b \in Seq(S)
      /\ Len(o) = 0 /\ Len(a) = 1 /\ Len(b) = 2
      /\ a[1] = x /\ b[1] = x /\ b[2] = y
      /\ x \in S /\ y \in S
      /\ a # o /\ b # o
  OBVIOUS
<1>2. \A s \in Seq(S) : s # o => s # <<>>
  OBVIOUS
<1>3. ASSUME NEW s \in Seq(S)
      PROVE  /\ Len(s) = 0 => s = o
             /\ Len(s) = 1 /\ s[1] = x => s = a
             /\ Len(s) = 2 /\ s[1] = x /\ s[2] = y => s = b
  <2> HIDE DEF S, o, a, b
  <2> QED BY <1>1, <1>3, SeqEqual
<1>4. /\ Last(a) = x /\ Last(b) = y /\ Front(a) \in Seq(S) /\ Front(b) \in Seq(S)
      /\ Len(Front(a)) = 0 /\ Len(Front(b)) = 1 /\ Front(b)[1] = x
  <2> HIDE DEF S, o, a, b
  <2>1. a # <<>> /\ b # <<>>
    BY <1>1, <1>2
  <2> QED BY <1>1, <2>1, FrontEntries DEF Shortened
<1>5. /\ Append(o, x) \in Seq(S) /\ Len(Append(o, x)) = 1 /\ Append(o, x)[1] = x
      /\ Append(a, y) \in Seq(S) /\ Len(Append(a, y)) = 2
      /\ Append(a, y)[1] = x /\ Append(a, y)[2] = y
  <2> HIDE DEF S, o, a, b
  <2> QED BY <1>1, AppendProperties
<1>6. a # o /\ b # o /\ Front(a) = o /\ Front(b) = a /\ Append(o, x) = a /\ Append(a, y) = b
  <2> HIDE DEF S, o, a, b
  <2> QED BY <1>1, <1>3, <1>4, <1>5
<1> QED BY <1>4, <1>6

-----------------------------------------------------------------------------
(* The order of the natural numbers, as a relation.                        *)
Below == {ss \in Nat \X Nat : ss[1] < ss[2]}

(* A set of natural numbers has a least element.  This stands in for       *)
(* induction along a list.                                                 *)
LEMMA LeastNumber ==
  ASSUME NEW T, T \subseteq Nat, T # {}
  PROVE  \E x \in T : \A y \in T : x <= y
<1>1. IsWellFoundedOn(Below, Nat)
  BY NatLessThanWellFounded, Zenon DEF OpToRel, Below
<1>2. PICK x \in T : \A y \in T : ~ (<<y, x>> \in Below)
  BY <1>1, WFMin
<1>3. ASSUME NEW y \in T PROVE x <= y
  <2>1. x \in Nat /\ y \in Nat
    OBVIOUS
  <2>2. y < x => <<y, x>> \in Below
    BY <2>1 DEF Below
  <2> QED BY <1>2, <2>1, <2>2
<1> QED BY <1>3
=============================================================================
