----------------------- MODULE OrderedSchedulerProofs -----------------------
(***************************************************************************)
(* Proofs about OrderedScheduler, for any coroutines, any capacity and any *)
(* wake condition whose ready_to_wake satisfies the assumptions of that    *)
(* module.                                                                 *)
(***************************************************************************)
EXTENDS OrderedScheduler, SequenceLemmas, FiniteSetTheorems

(* What resume() reports as idle: nothing waits, and no body executes.     *)
IdleReported ==
  (ret # None /\ ~ ret.pending) => waiting = <<>> /\ stack = <<>>

(* The inductive invariant.  SoleOwner needs both of its halves: a body    *)
(* that awaits is not waiting already because it is on the stack.          *)
IInv ==
  /\ TypeOK
  /\ WaitingSorted
  /\ SoleOwner
  /\ IdleReported

-----------------------------------------------------------------------------
(* What the actions do to waiting_, entry by entry.                        *)

(* The entry for h and c went in at position k of the L entries, or was    *)
(* dropped because all nodes are in use.                                   *)
InsertedAt(k, h, c, L) ==
  /\ waiting' \in Seq(Entry)
  /\ InsertPoint(c, k)
  /\ \/ L = MaxTasks /\ waiting' = waiting
     \/ /\ L < MaxTasks
        /\ Inserted(waiting', waiting, k, [handle |-> h, cond |-> c], L)

(* insert() puts its entry where its loop stops.                           *)
LEMMA InsertEntries ==
  ASSUME TypeOK, NEW L \in Nat, Len(waiting) = L,
         NEW h \in Handle, NEW c \in Condition, insert(h, c)
  PROVE  \E k \in 1 .. L + 1 : InsertedAt(k, h, c, L)
<1> DEFINE e == [handle |-> h, cond |-> c]
<1>1. e \in Entry
  BY DEF Entry
<1>2. PICK k \in 1 .. L + 1 : InsertPoint(c, k) /\ List!Emplace(k, e)
  BY DEF insert
<1>3. waiting \in Seq(Entry) /\ L <= MaxTasks /\ MaxTasks \in Nat
  BY MaxTasksAssumption DEF TypeOK
<1>4. CASE L = MaxTasks
  <2>1. waiting' = waiting
    BY <1>2, <1>4 DEF List!Emplace, List!Full
  <2> QED BY <1>2, <1>3, <1>4, <2>1 DEF InsertedAt
<1>5. CASE L # MaxTasks
  <2>1. waiting' = InsertAt(waiting, k, e)
    BY <1>2, <1>5 DEF List!Emplace, List!Full, List!InsertAt, InsertAt
  <2> HIDE DEF e
  <2>2. waiting' \in Seq(Entry) /\ Inserted(waiting', waiting, k, e, L)
    BY <1>1, <1>3, <2>1, InsertAtEntries
  <2>3. L < MaxTasks
    BY <1>3, <1>5
  <2> QED BY <1>2, <2>2, <2>3 DEF InsertedAt, e
<1> QED BY <1>4, <1>5

(* Entry k of the L entries was the first one due; it is gone and its      *)
(* coroutine executes.                                                     *)
ResumedAt(k, q, L) ==
  /\ DueFirst(q, k)
  /\ waiting' \in Seq(Entry)
  /\ Removed(waiting', waiting, k, L)
  /\ status' = [status EXCEPT ![waiting[k].handle] = "running"]
  /\ stack' = <<waiting[k].handle>>
  /\ ret' = [pending |-> TRUE,
             next |-> priority_condition(SubSeq(waiting, 1, k - 1))]

(* resume() takes the entry it resumes out of the list.                    *)
LEMMA ResumeEntries ==
  ASSUME TypeOK, NEW L \in Nat, Len(waiting) = L, NEW q, ResumeDue(q)
  PROVE  \E k \in 1 .. L : ResumedAt(k, q, L)
<1>1. PICK k \in 1 .. L :
        /\ DueFirst(q, k)
        /\ List!Erase(k)
        /\ status' = [status EXCEPT ![waiting[k].handle] = "running"]
        /\ stack' = <<waiting[k].handle>>
        /\ ret' = [pending |-> TRUE,
                   next |-> priority_condition(SubSeq(waiting, 1, k - 1))]
  BY DEF ResumeDue
<1>2. waiting' = RemoveAt(waiting, k) /\ waiting \in Seq(Entry)
  BY <1>1 DEF List!Erase, List!RemoveAt, RemoveAt, TypeOK
<1>3. waiting' \in Seq(Entry) /\ Removed(waiting', waiting, k, L)
  BY <1>2, RemoveAtEntries
<1> QED BY <1>1, <1>3 DEF ResumedAt

(* Every entry has a handle and a condition.                               *)
LEMMA EntryFields ==
  ASSUME TypeOK, NEW i \in 1 .. Len(waiting)
  PROVE  waiting[i].handle \in Handle /\ waiting[i].cond \in Condition
<1>1. waiting[i] \in Entry
  BY ElementOfSeq DEF TypeOK
<1> QED BY <1>1 DEF Entry

-----------------------------------------------------------------------------
(* priority_condition, whose loop is a recursive function.                 *)

(* f holds the values of priority_condition in the first n rounds over s.  *)
Rounds(f, s, n) ==
  f = [i \in 0 .. n |->
         IF i = 0
         THEN None
         ELSE IF f[i - 1] = None \/ ReadyToWake(f[i - 1], s[i].cond)
              THEN s[i].cond
              ELSE f[i - 1]]

(* The loop can always make its rounds.                                    *)
LEMMA RoundsExist ==
  ASSUME NEW s, NEW L \in Nat
  PROVE  \E f : Rounds(f, s, L)
<1> DEFINE Stuck == {n \in Nat : ~ \E f : Rounds(f, s, n)}
<1>1. SUFFICES Stuck = {}
  OBVIOUS
<1>2. SUFFICES ASSUME Stuck # {} PROVE FALSE
  OBVIOUS
<1>3. PICK n \in Stuck : \A m \in Stuck : n <= m
  BY <1>2, LeastNumber
<1>4. CASE n = 0
  <2> DEFINE f == [i \in 0 .. 0 |-> None]
  <2>1. Rounds(f, s, 0)
    BY DEF Rounds
  <2> QED BY <1>4, <2>1
<1>5. CASE n # 0
  <2>1. n \in Nat /\ n - 1 \in Nat /\ n - 1 < n /\ ~ (n <= n - 1)
    BY <1>5
  <2>2. n - 1 \notin Stuck
    BY <1>3, <2>1
  <2>3. PICK f : Rounds(f, s, n - 1)
    BY <2>1, <2>2
  <2> DEFINE x == IF f[n - 1] = None \/ ReadyToWake(f[n - 1], s[n].cond)
                  THEN s[n].cond ELSE f[n - 1]
             g == [i \in 0 .. n |-> IF i = n THEN x ELSE f[i]]
  <2>4. ASSUME NEW i \in 0 .. n
        PROVE  g[i] = IF i = 0
                      THEN None
                      ELSE IF g[i - 1] = None \/ ReadyToWake(g[i - 1], s[i].cond)
                           THEN s[i].cond
                           ELSE g[i - 1]
    <3>1. CASE i = n
      <4>1. n - 1 \in 0 .. n /\ n - 1 # n
        BY <2>1
      <4>2. g[n - 1] = f[n - 1]
        BY <4>1
      <4> QED BY <1>5, <3>1, <4>2
    <3>2. CASE i # n
      <4>1. i \in 0 .. n - 1 /\ (i # 0 => i - 1 \in 0 .. n /\ i - 1 # n)
        BY <2>1, <3>2
      <4>2. g[i] = f[i] /\ (i # 0 => g[i - 1] = f[i - 1])
        BY <3>2, <4>1
      <4>3. f[i] = IF i = 0
                   THEN None
                   ELSE IF f[i - 1] = None \/ ReadyToWake(f[i - 1], s[i].cond)
                        THEN s[i].cond
                        ELSE f[i - 1]
        BY <2>3, <4>1 DEF Rounds
      <4> QED BY <4>2, <4>3
    <3> QED BY <3>1, <3>2
  <2>5. Rounds(g, s, n)
    BY <2>4 DEF Rounds
  <2> QED BY <2>5
<1> QED BY <1>4, <1>5

(* What the loop leaves in priority_condition is the last of its rounds.   *)
LEMMA PriorityConditionRounds ==
  ASSUME NEW s, NEW L \in Nat, Len(s) = L
  PROVE  \E f : Rounds(f, s, L) /\ priority_condition(s) = f[L]
<1> DEFINE f == CHOOSE f : Rounds(f, s, L)
<1>1. Rounds(f, s, L)
  BY RoundsExist, Zenon
<1>2. priority_condition(s) = f[L]
  BY Zenon DEF priority_condition, Rounds
<1> QED BY <1>1, <1>2

(* priority_condition is empty or the condition of an entry.               *)
LEMMA PriorityConditionMember ==
  ASSUME NEW s, NEW L \in Nat, Len(s) = L
  PROVE  \/ priority_condition(s) = None
         \/ \E i \in 1 .. L : priority_condition(s) = s[i].cond
<1>1. PICK f : Rounds(f, s, L) /\ priority_condition(s) = f[L]
  BY PriorityConditionRounds
<1> DEFINE Good(n) == f[n] = None \/ \E i \in 1 .. L : f[n] = s[i].cond
           Bad == {n \in 0 .. L : ~ Good(n)}
<1>2. SUFFICES ASSUME Bad # {} PROVE FALSE
  BY <1>1
<1>3. PICK n \in Bad : \A m \in Bad : n <= m
  <2>1. Bad \subseteq Nat
    OBVIOUS
  <2> QED BY <1>2, <2>1, LeastNumber
<1>4. f[n] = IF n = 0
             THEN None
             ELSE IF f[n - 1] = None \/ ReadyToWake(f[n - 1], s[n].cond)
                  THEN s[n].cond
                  ELSE f[n - 1]
  BY <1>1 DEF Rounds
<1>5. n # 0
  BY <1>4
<1>6. n \in 1 .. L /\ n - 1 \in 0 .. L /\ ~ (n <= n - 1)
  BY <1>5
<1>7. Good(n - 1)
  BY <1>3, <1>6
<1> QED BY <1>4, <1>5, <1>6, <1>7

(* So it has the type of one.                                              *)
LEMMA PriorityConditionType ==
  ASSUME NEW s \in Seq(Entry)
  PROVE  priority_condition(s) \in Condition \cup {None}
<1>1. PICK L \in Nat : Len(s) = L
  BY LenProperties
<1>2. ASSUME NEW i \in 1 .. L PROVE s[i].cond \in Condition
  <2>1. s[i] \in Entry
    BY <1>1, ElementOfSeq
  <2> QED BY <2>1 DEF Entry
<1> QED BY <1>1, <1>2, PriorityConditionMember

(* A loop that passes over no entry leaves priority_condition empty.       *)
LEMMA PriorityConditionEmpty ==
  ASSUME NEW s, Len(s) = 0
  PROVE  priority_condition(s) = None
<1>1. PICK f : Rounds(f, s, 0) /\ priority_condition(s) = f[0]
  BY PriorityConditionRounds
<1> QED BY <1>1 DEF Rounds

-----------------------------------------------------------------------------
(* One lemma per action: what it preserves.                                *)

(* Before any call nothing waits and nothing executes.                     *)
LEMMA InitInv == Init => IInv
<1> SUFFICES ASSUME Init PROVE IInv
  OBVIOUS
<1>1. Len(waiting) = 0 /\ Len(stack) = 0
  BY DEF Init
<1>2. TypeOK
  BY <1>1, MaxTasksAssumption DEF Init, TypeOK
<1>3. WaitingSorted /\ SoleOwner
  BY <1>1 DEF WaitingSorted, SoleOwner
<1> QED BY <1>2, <1>3 DEF IInv, IdleReported, Init

(* Calling a coroutine.                                                    *)
LEMMA CallInv ==
  ASSUME IInv, NEW h \in Handle, Call(h)
  PROVE  IInv'
<1> USE DEF IInv
<1>1. PICK M \in Nat : Len(stack) = M
  BY LenProperties DEF TypeOK
<1>2. /\ stack' \in Seq(Handle)
      /\ Len(stack') = M + 1
      /\ \A i \in 1 .. M : stack'[i] = stack[i]
      /\ stack'[M + 1] = h
  BY <1>1, AppendProperties DEF Call, TypeOK
<1>3. TypeOK'
  BY <1>2 DEF TypeOK, Call
<1>4. WaitingSorted'
  BY DEF WaitingSorted, NotAfter, Call
<1>5. \A i \in 1 .. M : stack[i] # h
  BY <1>1 DEF SoleOwner, Call
<1>6. SoleOwner'
  <2>1. ASSUME NEW i \in 1 .. Len(waiting)
        PROVE  status'[waiting[i].handle] = "suspended"
    BY EntryFields DEF SoleOwner, Call, TypeOK
  <2>2. ASSUME NEW i \in 1 .. M + 1 PROVE status'[stack'[i]] = "running"
    <3>1. CASE i = M + 1
      BY <1>2, <3>1 DEF Call, TypeOK
    <3>2. CASE i # M + 1
      <4>1. i \in 1 .. M
        BY <3>2
      <4>2. status[stack[i]] = "running" /\ stack[i] \in Handle
        BY <1>1, <4>1, ElementOfSeq DEF SoleOwner, TypeOK
      <4> QED BY <1>2, <1>5, <4>1, <4>2 DEF Call, TypeOK
    <3> QED BY <3>1, <3>2
  <2>3. ASSUME NEW i \in 1 .. M + 1, NEW j \in 1 .. M + 1, stack'[i] = stack'[j]
        PROVE  i = j
    BY <1>1, <1>2, <1>5, <2>3 DEF SoleOwner
  <2> QED BY <1>2, <2>1, <2>2, <2>3 DEF SoleOwner, Call
<1>7. IdleReported'
  BY DEF IdleReported, Call
<1> QED BY <1>3, <1>4, <1>6, <1>7

(* A coroutine comes to its end.                                           *)
LEMMA CoReturnInv ==
  ASSUME IInv, CoReturn
  PROVE  IInv'
<1> USE DEF IInv
<1>1. PICK M \in Nat : Len(stack) = M
  BY LenProperties DEF TypeOK
<1>2. /\ M >= 1
      /\ Last(stack) \in Handle
      /\ Last(stack) = stack[M]
      /\ Front(stack) \in Seq(Handle)
      /\ Shortened(Front(stack), stack, M)
  BY <1>1, FrontEntries DEF CoReturn, TypeOK
<1>3. TypeOK'
  BY <1>2 DEF TypeOK, CoReturn
<1>4. WaitingSorted'
  BY DEF WaitingSorted, NotAfter, CoReturn
<1>5. SoleOwner'
  <2>1. ASSUME NEW i \in 1 .. Len(waiting)
        PROVE  status'[waiting[i].handle] = "suspended"
    BY <1>1, <1>2, EntryFields DEF SoleOwner, CoReturn, TypeOK
  <2>2. ASSUME NEW i \in 1 .. M - 1
        PROVE  stack'[i] = stack[i] /\ status'[stack'[i]] = "running"
    <3>1. i \in 1 .. M /\ i # M /\ stack'[i] = stack[i]
      BY <1>2 DEF CoReturn, Shortened
    <3>2. stack[i] # stack[M] /\ status[stack[i]] = "running" /\ stack[i] \in Handle
      BY <1>1, <1>2, <3>1, ElementOfSeq DEF SoleOwner, TypeOK
    <3> QED BY <1>2, <3>1, <3>2 DEF CoReturn, TypeOK
  <2>3. ASSUME NEW i \in 1 .. M - 1, NEW j \in 1 .. M - 1, stack'[i] = stack'[j]
        PROVE  i = j
    BY <1>1, <1>2, <2>2, <2>3 DEF SoleOwner
  <2>4. Len(stack') = M - 1
    BY <1>2 DEF CoReturn, Shortened
  <2> QED BY <2>1, <2>2, <2>3, <2>4 DEF SoleOwner, CoReturn
<1>6. IdleReported'
  BY DEF IdleReported, CoReturn
<1> QED BY <1>3, <1>4, <1>5, <1>6

(* An insert keeps the list sorted, by the transitivity of ready_to_wake.  *)
LEMMA InsertSorted ==
  ASSUME TypeOK, WaitingSorted, NEW L \in Nat, Len(waiting) = L,
         NEW k \in 1 .. L + 1, NEW h \in Handle, NEW c \in Condition,
         InsertedAt(k, h, c, L)
  PROVE  WaitingSorted'
<1>1. CASE L = MaxTasks /\ waiting' = waiting
  BY <1>1 DEF WaitingSorted, NotAfter
<1>2. CASE Inserted(waiting', waiting, k, [handle |-> h, cond |-> c], L)
  <2> DEFINE w(i) == waiting[i].cond
             v(i) == waiting'[i].cond
  <2>1. /\ Len(waiting') = L + 1
        /\ \A i \in 1 .. k - 1 : v(i) = w(i)
        /\ v(k) = c
        /\ \A i \in k + 1 .. L + 1 : v(i) = w(i - 1)
    BY <1>2 DEF Inserted
  <2>2. \A i \in 1 .. L : w(i) \in Condition
    BY EntryFields
  <2>3. /\ \A i \in 1 .. k - 1 : ~ ReadyToWake(c, w(i))
        /\ k <= L => ReadyToWake(c, w(k))
    BY DEF InsertedAt, InsertPoint
  <2>4. \A i, j \in 1 .. L :
          i < j => ReadyToWake(w(i), w(j)) \/ ~ ReadyToWake(w(j), w(i))
    BY DEF WaitingSorted, NotAfter
  <2> HIDE DEF w, v
  <2>5. ASSUME NEW j \in k .. L
        PROVE  ReadyToWake(c, w(j)) \/ ~ ReadyToWake(w(j), c)
    <3>1. k \in 1 .. L /\ j \in 1 .. L /\ (k = j \/ k < j)
      OBVIOUS
    <3>2. ReadyToWake(c, w(k)) /\ w(k) \in Condition /\ w(j) \in Condition
      BY <2>2, <2>3, <3>1
    <3>3. CASE k < j
      BY <2>4, <3>1, <3>2, <3>3, ReadyTransitive
    <3> QED BY <3>1, <3>2, <3>3
  <2>6. ASSUME NEW i \in 1 .. L + 1, NEW j \in 1 .. L + 1, i < j
        PROVE  ReadyToWake(v(i), v(j)) \/ ~ ReadyToWake(v(j), v(i))
    <3>1. CASE j < k
      <4>1. v(i) = w(i) /\ v(j) = w(j) /\ i \in 1 .. L /\ j \in 1 .. L
        BY <2>1, <2>6, <3>1
      <4> QED BY <2>4, <2>6, <4>1
    <3>2. CASE j = k
      <4>1. v(i) = w(i) /\ v(j) = c /\ i \in 1 .. k - 1
        BY <2>1, <2>6, <3>2
      <4> QED BY <2>3, <4>1
    <3>3. CASE i < k /\ j > k
      <4>1. v(i) = w(i) /\ v(j) = w(j - 1)
        BY <2>1, <3>3
      <4>2. i \in 1 .. L /\ j - 1 \in 1 .. L /\ i < j - 1
        BY <2>6, <3>3
      <4> QED BY <2>4, <4>1, <4>2
    <3>4. CASE i = k
      <4>1. v(i) = c /\ v(j) = w(j - 1) /\ j - 1 \in k .. L
        BY <2>1, <2>6, <3>4
      <4> QED BY <2>5, <4>1
    <3>5. CASE i > k
      <4>1. v(i) = w(i - 1) /\ v(j) = w(j - 1)
        BY <2>1, <2>6, <3>5
      <4>2. i - 1 \in 1 .. L /\ j - 1 \in 1 .. L /\ i - 1 < j - 1
        BY <2>6, <3>5
      <4> QED BY <2>4, <4>1, <4>2
    <3> QED BY <2>6, <3>1, <3>2, <3>3, <3>4, <3>5
  <2> QED BY <2>1, <2>6 DEF WaitingSorted, NotAfter, v
<1> QED BY <1>1, <1>2 DEF InsertedAt

(* Awaiting a condition.                                                   *)
LEMMA AwaitInv ==
  ASSUME IInv, NEW c \in Condition, Await(c)
  PROVE  IInv'
<1> USE DEF IInv
<1>1. PICK M \in Nat : Len(stack) = M
  BY LenProperties DEF TypeOK
<1>2. PICK L \in Nat : Len(waiting) = L
  BY LenProperties DEF TypeOK
<1> DEFINE h == Last(stack)
<1>3. /\ M >= 1
      /\ h \in Handle
      /\ h = stack[M]
      /\ Front(stack) \in Seq(Handle)
      /\ Shortened(Front(stack), stack, M)
  BY <1>1, FrontEntries DEF Await, TypeOK
<1>4. insert(h, c) /\ status' = [status EXCEPT ![h] = "suspended"]
  BY DEF Await
<1> HIDE DEF h
<1>5. PICK k \in 1 .. L + 1 : InsertedAt(k, h, c, L)
  BY <1>2, <1>3, <1>4, InsertEntries
<1>6. WaitingSorted'
  BY <1>2, <1>3, <1>5, InsertSorted
<1>7. /\ waiting' \in Seq(Entry)
      /\ waiting' = waiting \/ Inserted(waiting', waiting, k, [handle |-> h, cond |-> c], L)
      /\ Len(waiting') <= MaxTasks
  BY <1>2, <1>5, MaxTasksAssumption DEF InsertedAt, Inserted, TypeOK
<1>8. TypeOK'
  BY <1>3, <1>4, <1>7 DEF TypeOK, Await
<1>9. ASSUME NEW i \in 1 .. L
      PROVE  waiting[i].handle # h /\ status'[waiting[i].handle] = "suspended"
  <2>1. status[waiting[i].handle] = "suspended" /\ status[h] = "running"
    BY <1>1, <1>2, <1>3 DEF SoleOwner
  <2> QED BY <1>2, <1>4, <2>1, EntryFields DEF TypeOK
<1>10. SoleOwner'
  <2>1. ASSUME NEW i \in 1 .. M - 1
        PROVE  stack'[i] = stack[i] /\ status'[stack'[i]] = "running"
    <3>1. i \in 1 .. M /\ i # M /\ stack'[i] = stack[i]
      BY <1>3 DEF Await, Shortened
    <3>2. stack[i] # stack[M] /\ status[stack[i]] = "running" /\ stack[i] \in Handle
      BY <1>1, <1>3, <3>1, ElementOfSeq DEF SoleOwner, TypeOK
    <3> QED BY <1>3, <1>4, <3>1, <3>2 DEF TypeOK
  <2>2. ASSUME NEW i \in 1 .. M - 1, NEW j \in 1 .. M - 1, stack'[i] = stack'[j]
        PROVE  i = j
    BY <1>1, <1>3, <2>1, <2>2 DEF SoleOwner
  <2>3. Len(stack') = M - 1
    BY <1>3 DEF Await, Shortened
  <2>4. /\ \A i \in 1 .. Len(waiting') : status'[waiting'[i].handle] = "suspended"
        /\ \A i, j \in 1 .. Len(waiting') :
             waiting'[i].handle = waiting'[j].handle => i = j
    <3>1. CASE waiting' = waiting
      BY <1>2, <1>9, <3>1 DEF SoleOwner
    <3>2. CASE Inserted(waiting', waiting, k, [handle |-> h, cond |-> c], L)
      <4> DEFINE w(i) == waiting[i].handle
                 v(i) == waiting'[i].handle
      <4>1. /\ Len(waiting') = L + 1
            /\ \A i \in 1 .. k - 1 : v(i) = w(i)
            /\ v(k) = h
            /\ \A i \in k + 1 .. L + 1 : v(i) = w(i - 1)
        BY <3>2 DEF Inserted
      <4>2. \A i, j \in 1 .. L : w(i) = w(j) => i = j
        BY <1>2 DEF SoleOwner
      <4>3. \A i \in 1 .. L : w(i) # h /\ status'[w(i)] = "suspended"
        BY <1>9
      <4>4. status'[h] = "suspended"
        BY <1>3, <1>4 DEF TypeOK
      <4> HIDE DEF w, v
      <4>5. ASSUME NEW i \in 1 .. L + 1 PROVE status'[v(i)] = "suspended"
        <5>1. i < k => i \in 1 .. k - 1 /\ i \in 1 .. L
          OBVIOUS
        <5>2. i > k => i \in k + 1 .. L + 1 /\ i - 1 \in 1 .. L
          OBVIOUS
        <5> QED BY <4>1, <4>3, <4>4, <5>1, <5>2
      <4>6. ASSUME NEW i \in 1 .. L + 1, NEW j \in 1 .. L + 1, v(i) = v(j)
            PROVE  i = j
        <5> DEFINE old(x) == IF x < k THEN x ELSE x - 1
        <5>1. ASSUME NEW x \in 1 .. L + 1, x # k
              PROVE  old(x) \in 1 .. L /\ v(x) = w(old(x)) /\ v(x) # h
          BY <4>1, <4>3, <5>1
        <5>2. CASE i = k \/ j = k
          BY <4>1, <4>6, <5>1, <5>2
        <5>3. CASE i # k /\ j # k
          <6>1. old(i) = old(j)
            BY <4>2, <4>6, <5>1, <5>3
          <6> QED BY <5>3, <6>1
        <5> QED BY <5>2, <5>3
      <4> QED BY <4>1, <4>5, <4>6 DEF v
    <3> QED BY <1>7, <3>1, <3>2
  <2> QED BY <2>1, <2>2, <2>3, <2>4 DEF SoleOwner
<1>11. IdleReported'
  BY DEF IdleReported, Await
<1> QED BY <1>6, <1>8, <1>10, <1>11

(* resume() wakes a coroutine.                                             *)
LEMMA ResumeDueInv ==
  ASSUME IInv, stack = <<>>, NEW q \in Condition, ResumeDue(q)
  PROVE  IInv'
<1> USE DEF IInv
<1>1. PICK L \in Nat : Len(waiting) = L
  BY LenProperties DEF TypeOK
<1>2. PICK k \in 1 .. L : ResumedAt(k, q, L)
  BY <1>1, ResumeEntries
<1> DEFINE h == waiting[k].handle
           old(i) == IF i < k THEN i ELSE i + 1
<1>3. /\ h \in Handle
      /\ status' = [status EXCEPT ![h] = "running"]
      /\ stack' = <<h>>
  BY <1>1, <1>2, EntryFields DEF ResumedAt
<1>4. /\ Len(waiting') = L - 1
      /\ \A i \in 1 .. L - 1 :
           /\ old(i) \in 1 .. L
           /\ old(i) # k
           /\ waiting'[i] = waiting[old(i)]
  <2>1. Removed(waiting', waiting, k, L)
    BY <1>2 DEF ResumedAt
  <2>2. ASSUME NEW i \in 1 .. L - 1
        PROVE  old(i) \in 1 .. L /\ old(i) # k /\ waiting'[i] = waiting[old(i)]
    <3>1. CASE i < k
      <4>1. i \in 1 .. k - 1
        BY <3>1
      <4> QED BY <2>1, <3>1, <4>1 DEF Removed
    <3>2. CASE ~ (i < k)
      <4>1. i \in k .. L - 1
        BY <3>2
      <4> QED BY <2>1, <3>2, <4>1 DEF Removed
    <3> QED BY <3>1, <3>2
  <2> QED BY <2>1, <2>2 DEF Removed
<1>5. TypeOK'
  <2>1. ret' \in [pending : BOOLEAN, next : Condition \cup {None}]
    <3>1. k - 1 \in 0 .. L /\ waiting \in Seq(Entry)
      BY DEF TypeOK
    <3>2. SubSeq(waiting, 1, k - 1) \in Seq(Entry)
      BY <1>1, <3>1, SubSeqProperties, ElementOfSeq
    <3>3. priority_condition(SubSeq(waiting, 1, k - 1)) \in Condition \cup {None}
      BY <3>2, PriorityConditionType
    <3> QED BY <1>2, <3>3 DEF ResumedAt
  <2>2. waiting' \in Seq(Entry) /\ Len(waiting') <= MaxTasks
    BY <1>1, <1>2, <1>4, MaxTasksAssumption DEF ResumedAt, TypeOK
  <2>3. stack' \in Seq(Handle)
    BY <1>3
  <2> HIDE DEF h
  <2>4. status' \in [Handle -> {"absent", "running", "suspended", "done"}]
    BY <1>3 DEF TypeOK
  <2> QED BY <2>1, <2>2, <2>3, <2>4 DEF TypeOK
<1>6. WaitingSorted'
  <2>1. ASSUME NEW i \in 1 .. L - 1, NEW j \in 1 .. L - 1, i < j
        PROVE  NotAfter(waiting'[i].cond, waiting'[j].cond)
    <3>1. old(i) < old(j)
      BY <2>1
    <3>2. NotAfter(waiting[old(i)].cond, waiting[old(j)].cond)
      BY <1>1, <1>4, <3>1 DEF WaitingSorted
    <3> QED BY <1>4, <3>2
  <2> QED BY <1>4, <2>1 DEF WaitingSorted, NotAfter
<1>7. SoleOwner'
  <2>1. ASSUME NEW i \in 1 .. L - 1
        PROVE  status'[waiting'[i].handle] = "suspended"
    <3>1. waiting[old(i)].handle # h /\ waiting[old(i)].handle \in Handle
      BY <1>1, <1>4, EntryFields DEF SoleOwner
    <3>2. status[waiting[old(i)].handle] = "suspended"
      BY <1>1, <1>4 DEF SoleOwner
    <3> HIDE DEF h, old
    <3> QED BY <1>3, <1>4, <3>1, <3>2 DEF TypeOK
  <2>2. ASSUME NEW i \in 1 .. L - 1, NEW j \in 1 .. L - 1,
               waiting'[i].handle = waiting'[j].handle
        PROVE  i = j
    <3>1. old(i) = old(j)
      BY <1>1, <1>4, <2>2 DEF SoleOwner
    <3> QED BY <3>1
  <2> HIDE DEF h, old
  <2>3. Len(stack') = 1 /\ stack'[1] = h /\ status'[h] = "running"
    BY <1>3 DEF TypeOK
  <2> QED BY <1>4, <2>1, <2>2, <2>3 DEF SoleOwner
<1>8. IdleReported'
  <2>1. ret'.pending = TRUE
    BY <1>2 DEF ResumedAt
  <2> QED BY <2>1 DEF IdleReported
<1> QED BY <1>5, <1>6, <1>7, <1>8

(* resume() finds no coroutine to wake.                                    *)
LEMMA ResumeIdleInv ==
  ASSUME IInv, stack = <<>>, NEW q \in Condition, ResumeIdle(q)
  PROVE  IInv'
<1> USE DEF IInv
<1>1. priority_condition(waiting) \in Condition \cup {None}
  BY PriorityConditionType DEF TypeOK
<1>2. /\ ret' = [pending |-> waiting # <<>>, next |-> priority_condition(waiting)]
      /\ UNCHANGED <<waiting, status, stack>>
  BY DEF ResumeIdle
<1>3. ret' \in [pending : BOOLEAN, next : Condition \cup {None}]
  BY <1>1, <1>2, Zenon
<1>4. TypeOK'
  BY <1>2, <1>3 DEF TypeOK
<1>5. WaitingSorted' /\ SoleOwner'
  BY <1>2 DEF WaitingSorted, NotAfter, SoleOwner
<1>6. IdleReported'
  <2>1. ret'.pending = (waiting # <<>>)
    BY <1>2, Zenon
  <2> QED BY <1>2, <2>1 DEF IdleReported
<1> QED BY <1>4, <1>5, <1>6

(* Every step preserves the inductive invariant.                           *)
LEMMA NextInv == IInv /\ [Next]_vars => IInv'
<1> SUFFICES ASSUME IInv, [Next]_vars PROVE IInv'
  OBVIOUS
<1>1. CASE UNCHANGED vars
  BY <1>1 DEF IInv, TypeOK, WaitingSorted, NotAfter, SoleOwner, IdleReported, vars
<1>2. ASSUME NEW h \in Handle, Call(h) PROVE IInv'
  BY <1>2, CallInv
<1>3. ASSUME NEW c \in Condition, Await(c) PROVE IInv'
  BY <1>3, AwaitInv
<1>4. CASE CoReturn
  BY <1>4, CoReturnInv
<1>5. ASSUME NEW q \in Condition, resume(q) PROVE IInv'
  BY <1>5, ResumeDueInv, ResumeIdleInv DEF resume
<1> QED BY <1>1, <1>2, <1>3, <1>4, <1>5 DEF Next

(* The ordered scheduler keeps its list typed, within its capacity and     *)
(* sorted by urgency, holds each coroutine frame at most once and never    *)
(* together with the stack, and reports false only when nothing waits.     *)
THEOREM SchedulerInvariant ==
  Spec => [](TypeOK /\ WaitingSorted /\ SoleOwner /\ FalseMeansEmpty)
<1>1. IInv => TypeOK /\ WaitingSorted /\ SoleOwner /\ FalseMeansEmpty
  BY DEF IInv, IdleReported, FalseMeansEmpty
<1> QED BY <1>1, InitInv, NextInv, PTL DEF Spec

-----------------------------------------------------------------------------
(* The order in which coroutines run.                                      *)

(* The entry that resume() wakes is the first of the list.                 *)
LEMMA FirstIsDue ==
  ASSUME IInv, NEW q \in Condition, NEW k \in 1 .. Len(waiting), DueFirst(q, k)
  PROVE  k = 1
<1> SUFFICES ASSUME k # 1 PROVE FALSE
  OBVIOUS
<1> DEFINE a == waiting[1].cond
           b == waiting[k].cond
<1>1. TypeOK
  BY DEF IInv
<1>2. PICK L \in Nat : Len(waiting) = L
  BY <1>1, LenProperties DEF TypeOK
<1>3. k \in 1 .. L /\ 1 \in 1 .. L /\ 1 < k /\ 1 \in 1 .. k - 1
  BY <1>2
<1>4. a \in Condition /\ b \in Condition
  BY <1>1, <1>2, <1>3, EntryFields
<1>5. ReadyToWake(b, q) /\ ~ ReadyToWake(a, q)
  BY <1>3 DEF DueFirst
<1>6. ReadyToWake(a, b) \/ ~ ReadyToWake(b, a)
  BY <1>2, <1>3 DEF IInv, WaitingSorted, NotAfter
<1> HIDE DEF a, b
<1>7. ReadyToWake(b, a)
  BY <1>4, <1>5, ReadyWeak
<1> QED BY <1>4, <1>5, <1>6, <1>7, ReadyTransitive

(* Only resume() makes a waiting coroutine run.                            *)
LEMMA WakesOnlyByResume ==
  ASSUME IInv, [Next]_vars, NEW k \in 1 .. Len(waiting),
         status'[waiting[k].handle] = "running"
  PROVE  k = 1
<1> DEFINE g == waiting[k].handle
<1>1. TypeOK /\ status[g] = "suspended" /\ g \in Handle
  BY EntryFields DEF IInv, SoleOwner
<1>2. PICK L \in Nat : Len(waiting) = L
  BY <1>1, LenProperties DEF TypeOK
<1>3. ASSUME NEW h \in Handle, Call(h) PROVE FALSE
  BY <1>1, <1>3 DEF Call, TypeOK
<1>4. ASSUME NEW c \in Condition, Await(c) PROVE FALSE
  BY <1>1, <1>4 DEF Await, TypeOK
<1>5. CASE CoReturn
  BY <1>1, <1>5 DEF CoReturn, TypeOK
<1>6. CASE UNCHANGED vars
  BY <1>1, <1>6 DEF vars
<1>7. ASSUME NEW q \in Condition, resume(q) PROVE k = 1
  <2>1. CASE ResumeIdle(q)
    BY <1>1, <2>1 DEF ResumeIdle
  <2>2. CASE ResumeDue(q)
    <3>1. PICK m \in 1 .. L : ResumedAt(m, q, L)
      BY <1>1, <1>2, <2>2, ResumeEntries
    <3>2. m = 1
      BY <1>2, <3>1, FirstIsDue DEF ResumedAt
    <3>3. status' = [status EXCEPT ![waiting[m].handle] = "running"]
      BY <3>1 DEF ResumedAt
    <3>4. waiting[m].handle = g
      BY <1>1, <3>3 DEF TypeOK
    <3>5. m = k
      BY <1>2, <3>4 DEF IInv, SoleOwner
    <3> QED BY <3>2, <3>5
  <2> QED BY <1>7, <2>1, <2>2 DEF resume
<1> QED BY <1>3, <1>4, <1>5, <1>6, <1>7 DEF Next

(* The coroutine resume() wakes is always one that none of the waiting     *)
(* ones need run before, for every order of awaits, calls and resumes.     *)
THEOREM MostUrgentFirst == Spec => ResumesMostUrgent
<1>1. ASSUME IInv, [Next]_vars
      PROVE  [ \A k \in 1 .. Len(waiting) :
                 (status'[waiting[k].handle] = "running") =>
                   \A j \in 1 .. Len(waiting) :
                     NotAfter(waiting[k].cond, waiting[j].cond) ]_vars
  <2>1. ASSUME NEW k \in 1 .. Len(waiting),
               status'[waiting[k].handle] = "running",
               NEW j \in 1 .. Len(waiting)
        PROVE  NotAfter(waiting[k].cond, waiting[j].cond)
    <3>1. k = 1
      BY <1>1, <2>1, WakesOnlyByResume
    <3>2. CASE j = 1
      BY <3>1, <3>2 DEF NotAfter
    <3>3. CASE j # 1
      <4>1. k < j
        BY <3>1, <3>3
      <4> QED BY <1>1, <4>1 DEF IInv, WaitingSorted
    <3> QED BY <3>2, <3>3
  <2> QED BY <2>1
<1> QED BY <1>1, InitInv, NextInv, PTL DEF Spec, ResumesMostUrgent

(* When resume() has woken a coroutine, the next condition that it returns *)
(* is empty: the loops of the clients get no time to sleep from it.        *)
THEOREM NoNextWakeAfterRun == Spec => RunGivesNoNextWake
<1>1. ASSUME IInv, [Next]_vars, stack = <<>>, stack' # <<>>, ret' # None
      PROVE  ret'.next = None
  <2>1. ASSUME NEW h \in Handle, Call(h) PROVE FALSE
    BY <1>1, <2>1 DEF Call
  <2>2. ASSUME NEW q \in Condition, resume(q) PROVE ret'.next = None
    <3>1. CASE ResumeIdle(q)
      BY <1>1, <3>1 DEF ResumeIdle
    <3>2. CASE ResumeDue(q)
      <4>1. PICK L \in Nat : Len(waiting) = L
        BY <1>1, LenProperties DEF IInv, TypeOK
      <4>2. PICK k \in 1 .. L : ResumedAt(k, q, L)
        BY <1>1, <3>2, <4>1, ResumeEntries DEF IInv
      <4>3. k = 1
        BY <1>1, <4>1, <4>2, FirstIsDue DEF ResumedAt
      <4>4. Len(SubSeq(waiting, 1, 0)) = 0
        BY <1>1, <4>1, SubSeqProperties, ElementOfSeq DEF IInv, TypeOK
      <4>5. priority_condition(SubSeq(waiting, 1, 0)) = None
        BY <4>4, PriorityConditionEmpty
      <4>6. ret'.next = priority_condition(SubSeq(waiting, 1, 1 - 1)) /\ 1 - 1 = 0
        BY <4>2, <4>3 DEF ResumedAt
      <4> QED BY <4>5, <4>6
    <3> QED BY <2>2, <3>1, <3>2 DEF resume
  <2> QED BY <1>1, <2>1, <2>2 DEF Next, Await, CoReturn, vars
<1>2. ASSUME IInv, [Next]_vars
      PROVE  [stack = <<>> /\ stack' # <<>> /\ ret' # None => ret'.next = None]_vars
  BY <1>1, <1>2
<1> QED BY <1>2, InitInv, NextInv, PTL DEF Spec, RunGivesNoNextWake

-----------------------------------------------------------------------------
(* Coroutines that nothing will resume.                                    *)

(* A coroutine gets lost only by awaiting while the list is full.          *)
LEMMA LostStep ==
  ASSUME IInv, [Next]_vars, NEW h \in Handle, ~ Lost(h), Lost(h)'
  PROVE  Len(waiting) = MaxTasks /\ stack # <<>> /\ h = Last(stack)
<1>1. TypeOK
  BY DEF IInv
<1>2. PICK L \in Nat : Len(waiting) = L
  BY <1>1, LenProperties DEF TypeOK
<1>3. /\ status'[h] = "suspended"
      /\ \A i \in 1 .. Len(waiting') : waiting'[i].handle # h
  BY DEF Lost
<1>4. status[h] = "suspended" => \E i \in 1 .. L : waiting[i].handle = h
  BY <1>2 DEF Lost
<1>5. CASE UNCHANGED vars
  BY <1>2, <1>3, <1>4, <1>5 DEF vars
<1>6. ASSUME NEW g \in Handle, Call(g) PROVE FALSE
  BY <1>1, <1>2, <1>3, <1>4, <1>6 DEF Call, TypeOK
<1>7. CASE CoReturn
  <2>1. status[h] = "suspended"
    BY <1>1, <1>3, <1>7 DEF CoReturn, TypeOK
  <2> QED BY <1>2, <1>3, <1>4, <1>7, <2>1 DEF CoReturn
<1>8. ASSUME NEW q \in Condition, resume(q) PROVE FALSE
  <2>1. CASE ResumeIdle(q)
    BY <1>2, <1>3, <1>4, <2>1 DEF ResumeIdle
  <2>2. CASE ResumeDue(q)
    <3>1. PICK k \in 1 .. L : ResumedAt(k, q, L)
      BY <1>1, <1>2, <2>2, ResumeEntries
    <3>2. status' = [status EXCEPT ![waiting[k].handle] = "running"]
      BY <3>1 DEF ResumedAt
    <3>3. waiting[k].handle # h /\ status[h] = "suspended"
      BY <1>1, <1>3, <3>2 DEF TypeOK
    <3>4. PICK i \in 1 .. L : waiting[i].handle = h
      BY <1>4, <3>3
    <3>5. Removed(waiting', waiting, k, L)
      BY <3>1 DEF ResumedAt
    <3>6. i # k
      BY <3>3, <3>4
    <3>7. CASE i < k
      <4>1. i \in 1 .. k - 1 /\ i \in 1 .. L - 1
        BY <3>7
      <4> QED BY <1>3, <3>4, <3>5, <4>1 DEF Removed
    <3>8. CASE i > k
      <4>1. i - 1 \in k .. L - 1 /\ i - 1 \in 1 .. L - 1 /\ (i - 1) + 1 = i
        BY <3>8
      <4>2. waiting'[i - 1] = waiting[i] /\ Len(waiting') = L - 1
        BY <3>5, <4>1 DEF Removed
      <4> QED BY <1>3, <3>4, <4>1, <4>2
    <3> QED BY <3>6, <3>7, <3>8
  <2> QED BY <1>8, <2>1, <2>2 DEF resume
<1>9. ASSUME NEW c \in Condition, Await(c)
      PROVE  Len(waiting) = MaxTasks /\ stack # <<>> /\ h = Last(stack)
  <2> DEFINE g == Last(stack)
  <2>1. stack # <<>> /\ stack \in Seq(Handle)
    BY <1>1, <1>9 DEF Await, TypeOK
  <2>2. PICK M \in Nat : Len(stack) = M
    BY <2>1, LenProperties
  <2>3. g \in Handle
    BY <2>1, <2>2, FrontEntries
  <2>4. insert(g, c) /\ status' = [status EXCEPT ![g] = "suspended"]
    BY <1>9 DEF Await
  <2> HIDE DEF g
  <2>5. PICK k \in 1 .. L + 1 : InsertedAt(k, g, c, L)
    BY <1>1, <1>2, <2>3, <2>4, InsertEntries
  <2>6. CASE L = MaxTasks /\ waiting' = waiting
    <3>1. CASE h = g
      BY <1>2, <2>1, <2>6, <3>1 DEF g
    <3>2. CASE h # g
      <4>1. status[h] = "suspended"
        BY <1>1, <1>3, <2>4, <3>2 DEF TypeOK
      <4> QED BY <1>2, <1>3, <1>4, <2>6, <4>1
    <3> QED BY <3>1, <3>2
  <2>7. CASE Inserted(waiting', waiting, k, [handle |-> g, cond |-> c], L)
    <3>1. /\ Len(waiting') = L + 1
          /\ \A i \in 1 .. k - 1 : waiting'[i] = waiting[i]
          /\ waiting'[k].handle = g
          /\ \A i \in k + 1 .. L + 1 : waiting'[i] = waiting[i - 1]
      BY <2>7 DEF Inserted
    <3>2. h # g
      BY <1>3, <3>1
    <3>3. status[h] = "suspended"
      BY <1>1, <1>3, <2>4, <3>2 DEF TypeOK
    <3>4. PICK i \in 1 .. L : waiting[i].handle = h
      BY <1>4, <3>3
    <3>5. CASE i < k
      <4>1. i \in 1 .. k - 1 /\ i \in 1 .. L + 1
        BY <3>5
      <4> QED BY <1>3, <3>1, <3>4, <4>1
    <3>6. CASE i >= k
      <4>1. i + 1 \in k + 1 .. L + 1 /\ i + 1 \in 1 .. L + 1 /\ (i + 1) - 1 = i
        BY <3>6
      <4>2. waiting'[i + 1] = waiting[i]
        BY <3>1, <4>1
      <4> QED BY <1>3, <3>1, <3>4, <4>1, <4>2
    <3> QED BY <3>5, <3>6
  <2> QED BY <2>5, <2>6, <2>7 DEF InsertedAt
<1> QED BY <1>5, <1>6, <1>7, <1>8, <1>9 DEF Next

(* However many coroutines share a scheduler, the only one that can get    *)
(* lost is the one that awaits while MAX_TASKS others wait; a coroutine in *)
(* the list stays in it until resume() wakes it.                           *)
THEOREM OnlyFullLoses == Spec => LostOnlyWhenFull
<1>1. ASSUME IInv, [Next]_vars
      PROVE  [ \A h \in Handle :
                 ~ Lost(h) /\ Lost(h)' =>
                   Len(waiting) = MaxTasks /\ h = Last(stack) ]_vars
  BY <1>1, LostStep
<1> QED BY <1>1, InitInv, NextInv, PTL DEF Spec, LostOnlyWhenFull

(* A body that executes leaves too few coroutines to fill the list.        *)
LEMMA RoomForAll ==
  ASSUME IInv, IsFiniteSet(Started), Cardinality(Started) <= MaxTasks,
         stack # <<>>
  PROVE  Len(waiting) # MaxTasks
<1> SUFFICES ASSUME Len(waiting) = MaxTasks PROVE FALSE
  OBVIOUS
<1>1. TypeOK /\ MaxTasks \in Nat /\ MaxTasks >= 1
  BY MaxTasksAssumption DEF IInv
<1>2. PICK M \in Nat : Len(stack) = M
  BY <1>1, LenProperties DEF TypeOK
<1> DEFINE g == stack[M]
<1>3. M >= 1 /\ g \in Handle
  BY <1>1, <1>2, FrontEntries DEF TypeOK
<1>4. status[g] = "running" /\ g \in Started
  BY <1>2, <1>3 DEF IInv, SoleOwner, Started
<1> HIDE DEF g
<1> DEFINE f == [i \in 1 .. MaxTasks |-> waiting[i].handle]
<1>5. f \in [1 .. MaxTasks -> Started \ {g}]
  <2>1. ASSUME NEW i \in 1 .. MaxTasks
        PROVE  waiting[i].handle \in Started \ {g}
    <3>1. waiting[i].handle \in Handle
      BY <1>1, EntryFields
    <3>2. status[waiting[i].handle] = "suspended"
      BY DEF IInv, SoleOwner
    <3> QED BY <1>4, <3>1, <3>2 DEF Started
  <2> QED BY <2>1
<1>6. /\ IsFiniteSet(Started \ {g})
      /\ Cardinality(Started \ {g}) = Cardinality(Started) - 1
  BY <1>4, FS_RemoveElement
<1>7. IsFiniteSet(1 .. MaxTasks) /\ Cardinality(1 .. MaxTasks) = MaxTasks
  BY <1>1, FS_Interval
<1>8. Cardinality(Started \ {g}) < Cardinality(1 .. MaxTasks)
  BY <1>1, <1>6, <1>7, FS_CardinalityType
<1> HIDE DEF f
<1>9. PICK i, j \in 1 .. MaxTasks : i # j /\ f[i] = f[j]
  BY <1>5, <1>6, <1>7, <1>8, FS_PigeonHole
<1>10. waiting[i].handle = waiting[j].handle
  BY <1>9 DEF f
<1> QED BY <1>9, <1>10 DEF IInv, SoleOwner

(* A coroutine that was called is not forgotten to have been.              *)
LEMMA StartedGrows ==
  ASSUME IInv, [Next]_vars
  PROVE  Started \subseteq Started'
<1>1. TypeOK
  BY DEF IInv
<1>2. CASE UNCHANGED vars
  BY <1>2 DEF vars, Started
<1>3. ASSUME NEW h \in Handle, Call(h) PROVE Started \subseteq Started'
  BY <1>1, <1>3 DEF Call, Started, TypeOK
<1>4. ASSUME NEW c \in Condition, Await(c) PROVE Started \subseteq Started'
  BY <1>1, <1>4 DEF Await, Started, TypeOK
<1>5. CASE CoReturn
  BY <1>1, <1>5 DEF CoReturn, Started, TypeOK
<1>6. ASSUME NEW q \in Condition, resume(q) PROVE Started \subseteq Started'
  BY <1>1, <1>6 DEF resume, ResumeDue, ResumeIdle, Started, TypeOK
<1> QED BY <1>2, <1>3, <1>4, <1>5, <1>6 DEF Next

(* A scheduler with room for all the coroutines that were called never     *)
(* lost one: a suspended coroutine is in the list.                         *)
THEOREM RoomMeansNoneLost ==
  ASSUME IsFiniteSet(Handle)
  PROVE  Spec => []NoneLost
<1>1. Init => NoneLost
  BY DEF Init, NoneLost, Lost
<1>2. ASSUME IInv, NoneLost, [Next]_vars PROVE NoneLost'
  <2> SUFFICES ASSUME Cardinality(Started') <= MaxTasks,
                      NEW h \in Handle, Lost(h)'
               PROVE  FALSE
    BY DEF NoneLost
  <2>1. /\ IsFiniteSet(Started) /\ IsFiniteSet(Started')
        /\ Cardinality(Started) \in Nat /\ Cardinality(Started') \in Nat
    BY FS_Subset, FS_CardinalityType DEF Started
  <2>2. Cardinality(Started) <= Cardinality(Started')
    BY <1>2, <2>1, StartedGrows, FS_Subset
  <2>3. Cardinality(Started) <= MaxTasks
    BY <2>1, <2>2, MaxTasksAssumption
  <2>4. ~ Lost(h)
    BY <1>2, <2>3 DEF NoneLost
  <2>5. Len(waiting) = MaxTasks /\ stack # <<>>
    BY <1>2, <2>4, LostStep
  <2> QED BY <1>2, <2>1, <2>3, <2>5, RoomForAll
<1> QED BY <1>1, <1>2, InitInv, NextInv, PTL DEF Spec
=============================================================================
