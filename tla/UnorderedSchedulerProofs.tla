---------------------- MODULE UnorderedSchedulerProofs ----------------------
(***************************************************************************)
(* Proofs about UnorderedScheduler, for any number of schedulers, each of  *)
(* any capacity, and any coroutines that go from one to another.           *)
(***************************************************************************)
EXTENDS UnorderedScheduler, SequenceLemmas

(* The inductive invariant: OneHolder speaks of lists and stack at once,   *)
(* and each half needs the other.                                          *)
IInv == TypeOK /\ OneHolder

Frame == Scheduler \cup Handle

-----------------------------------------------------------------------------
(* What the actions do to the lists and to the stack, entry by entry.      *)

(* Every entry of the lists after an await was there before, at the same   *)
(* place, or is the coroutine that awaits, behind the others.              *)
Enqueued(h, s) ==
  \A t \in Scheduler : \A i \in DOMAIN waiting'[t] :
    \/ i \in DOMAIN waiting[t] /\ waiting'[t][i] = waiting[t][i]
    \/ t = s /\ i = Len(waiting[s]) + 1 /\ waiting'[t][i] = h

(* The other direction: all the entries are kept.                          *)
Kept ==
  \A t \in Scheduler : \A i \in DOMAIN waiting[t] :
    i \in DOMAIN waiting'[t] /\ waiting'[t][i] = waiting[t][i]

(* insert() appends to one list, unless it is full.                        *)
LEMMA InsertEntries ==
  ASSUME TypeOK, NEW h \in Handle, NEW s \in Scheduler, insert(s, h)
  PROVE  /\ waiting' \in [Scheduler -> Seq(Handle)]
         /\ \A t \in Scheduler : Len(waiting'[t]) <= MaxTasks[t]
         /\ Enqueued(h, s)
         /\ Kept
         /\ Len(waiting[s]) = MaxTasks[s] \/
              (\E i \in DOMAIN waiting'[s] : waiting'[s][i] = h)
<1>1. waiting \in [Scheduler -> Seq(Handle)]
  BY DEF TypeOK
<1>2. waiting[s] \in Seq(Handle)
  BY <1>1
<1>3. PICK L \in Nat : Len(waiting[s]) = L
  BY <1>2, LenProperties
<1>4. L <= MaxTasks[s] /\ MaxTasks[s] \in Nat
  BY <1>3, UnorderedAssumption DEF TypeOK
<1>5. ASSUME NEW t \in Scheduler, t # s PROVE waiting'[t] = waiting[t]
  BY <1>1, <1>5 DEF insert
<1>6. CASE L = MaxTasks[s]
  <2>1. waiting'[s] = waiting[s]
    BY <1>1, <1>3, <1>6 DEF insert
  <2>2. waiting' = waiting
    BY <1>1, <1>3, <1>6 DEF insert
  <2> QED BY <1>1, <1>3, <1>6, <2>2 DEF Enqueued, Kept, TypeOK
<1>7. CASE L # MaxTasks[s]
  <2> DEFINE q == waiting[s]
  <2>1. waiting' = [waiting EXCEPT ![s] = Append(q, h)]
    BY <1>1, <1>3, <1>7 DEF insert
  <2>2. waiting'[s] = Append(q, h)
    BY <1>1, <2>1
  <2>3. /\ Append(q, h) \in Seq(Handle)
        /\ Len(Append(q, h)) = L + 1
        /\ Append(q, h)[L + 1] = h
        /\ \A i \in 1 .. L : Append(q, h)[i] = q[i]
    BY <1>2, <1>3, AppendProperties
  <2>4. DOMAIN q = 1 .. L /\ DOMAIN Append(q, h) = 1 .. L + 1
    BY <1>2, <1>3, <2>3, LenProperties
  <2>5. waiting' \in [Scheduler -> Seq(Handle)]
    BY <1>1, <2>1, <2>3
  <2>6. ASSUME NEW t \in Scheduler PROVE Len(waiting'[t]) <= MaxTasks[t]
    <3>1. CASE t = s
      BY <1>4, <1>7, <2>2, <2>3, <3>1
    <3>2. CASE t # s
      BY <1>5, <3>2 DEF TypeOK
    <3> QED BY <3>1, <3>2
  <2>7. Enqueued(h, s)
    <3> SUFFICES ASSUME NEW t \in Scheduler, NEW i \in DOMAIN waiting'[t]
                 PROVE  \/ i \in DOMAIN waiting[t] /\ waiting'[t][i] = waiting[t][i]
                        \/ t = s /\ i = L + 1 /\ waiting'[t][i] = h
      BY <1>3 DEF Enqueued
    <3>1. CASE t # s
      BY <1>5, <3>1
    <3>2. CASE t = s
      <4>1. i \in 1 .. L + 1
        BY <2>2, <2>4, <3>2
      <4>2. CASE i = L + 1
        BY <2>2, <2>3, <3>2, <4>2
      <4>3. CASE i # L + 1
        <5>1. i \in 1 .. L
          BY <4>1, <4>3
        <5> QED BY <2>2, <2>3, <2>4, <3>2, <5>1
      <4> QED BY <4>2, <4>3
    <3> QED BY <3>1, <3>2
  <2>8. Kept
    <3> SUFFICES ASSUME NEW t \in Scheduler, NEW i \in DOMAIN waiting[t]
                 PROVE  i \in DOMAIN waiting'[t] /\ waiting'[t][i] = waiting[t][i]
      BY DEF Kept
    <3>1. CASE t # s
      BY <1>5, <3>1
    <3>2. CASE t = s
      <4>1. i \in 1 .. L /\ i \in 1 .. L + 1
        BY <2>4, <3>2
      <4> QED BY <2>2, <2>3, <2>4, <3>2, <4>1
    <3> QED BY <3>1, <3>2
  <2>9. L + 1 \in DOMAIN waiting'[s] /\ waiting'[s][L + 1] = h
    BY <2>2, <2>3, <2>4
  <2> QED BY <2>5, <2>6, <2>7, <2>8, <2>9
<1> QED BY <1>6, <1>7

(* Every entry after a resume() step was there before, and is not the one  *)
(* that was taken off the list.                                            *)
Dequeued(s) ==
  /\ \A t \in Scheduler : t # s => waiting'[t] = waiting[t]
  /\ \A i \in DOMAIN waiting'[s] :
       i \in Nat /\ i + 1 \in DOMAIN waiting[s] /\ i + 1 # 1
       /\ waiting'[s][i] = waiting[s][i + 1]
  /\ \A i \in DOMAIN waiting[s] :
       i # 1 => i - 1 \in DOMAIN waiting'[s] /\ waiting'[s][i - 1] = waiting[s][i]

(* Taking the first entry off moves the others of that list up by one.     *)
LEMMA PopEntries ==
  ASSUME TypeOK, NEW s \in Scheduler, ResumeNext(s)
  PROVE  /\ waiting' \in [Scheduler -> Seq(Handle)]
         /\ \A t \in Scheduler : Len(waiting'[t]) <= MaxTasks[t]
         /\ Dequeued(s)
         /\ 1 \in DOMAIN waiting[s]
         /\ Head(waiting[s]) = waiting[s][1]
         /\ Head(waiting[s]) \in Handle
<1> DEFINE q == waiting[s]
<1>1. waiting \in [Scheduler -> Seq(Handle)] /\ q \in Seq(Handle) /\ q # <<>>
  BY DEF TypeOK, ResumeNext
<1>2. PICK L \in Nat : Len(q) = L
  BY <1>1, LenProperties
<1>3. waiting' = [waiting EXCEPT ![s] = Tail(q)]
  BY DEF ResumeNext
<1>4. waiting'[s] = Tail(q) /\ \A t \in Scheduler : t # s => waiting'[t] = waiting[t]
  BY <1>1, <1>3
<1>5. /\ Head(q) \in Handle /\ Tail(q) \in Seq(Handle)
      /\ L >= 1 /\ Len(Tail(q)) = L - 1
      /\ \A i \in 1 .. L - 1 : Tail(q)[i] = q[i + 1]
  BY <1>1, <1>2, HeadTailProperties, EmptySeq
<1>6. DOMAIN q = 1 .. L /\ DOMAIN Tail(q) = 1 .. L - 1
  BY <1>1, <1>2, <1>5, LenProperties
<1>7. Head(q) = q[1]
  BY <1>1
<1>8. Dequeued(s)
  <2>1. ASSUME NEW i \in 1 .. L - 1
        PROVE  i \in Nat /\ i + 1 \in 1 .. L /\ i + 1 # 1 /\ Tail(q)[i] = q[i + 1]
    BY <1>5
  <2>2. ASSUME NEW i \in 1 .. L, i # 1
        PROVE  i - 1 \in 1 .. L - 1 /\ Tail(q)[i - 1] = q[i]
    <3>1. i - 1 \in 1 .. L - 1 /\ (i - 1) + 1 = i
      BY <2>2
    <3> QED BY <1>5, <3>1
  <2> QED BY <1>4, <1>6, <2>1, <2>2 DEF Dequeued
<1>9. waiting' \in [Scheduler -> Seq(Handle)]
  BY <1>1, <1>3, <1>5
<1>10. ASSUME NEW t \in Scheduler PROVE Len(waiting'[t]) <= MaxTasks[t]
  <2>1. CASE t = s
    <3>1. L <= MaxTasks[s] /\ MaxTasks[s] \in Nat
      BY <1>2, UnorderedAssumption DEF TypeOK
    <3>2. Len(waiting'[s]) = L - 1
      BY <1>4, <1>5
    <3>3. L - 1 <= MaxTasks[s]
      BY <3>1
    <3> QED BY <2>1, <3>2, <3>3
  <2>2. CASE t # s
    BY <1>4, <2>2 DEF TypeOK
  <2> QED BY <2>1, <2>2
<1> QED BY <1>5, <1>6, <1>7, <1>8, <1>9, <1>10

(* f is taken off the top of the stack.                                    *)
Popped(f) ==
  /\ stack' \in Seq(Frame)
  /\ \E m \in DOMAIN stack : stack[m] = f /\ m \notin DOMAIN stack'
  /\ \A i \in DOMAIN stack' : i \in DOMAIN stack /\ stack'[i] = stack[i]

(* A frame that ends or suspends leaves the others where they are.         *)
LEMMA PopFrame ==
  ASSUME TypeOK, NEW f, Executing(f), stack' = Front(stack)
  PROVE  Popped(f)
<1>1. stack \in Seq(Frame) /\ stack # <<>>
  BY DEF TypeOK, Frame, Executing
<1>2. PICK M \in Nat : Len(stack) = M
  BY <1>1, LenProperties
<1>3. /\ M >= 1 /\ Last(stack) = stack[M] /\ stack' \in Seq(Frame)
      /\ Len(stack') = M - 1 /\ \A i \in 1 .. M - 1 : stack'[i] = stack[i]
  BY <1>1, <1>2, FrontEntries DEF Shortened
<1>4. DOMAIN stack = 1 .. M /\ DOMAIN stack' = 1 .. M - 1
  BY <1>1, <1>2, <1>3, LenProperties
<1>5. M \in DOMAIN stack /\ stack[M] = f /\ M \notin DOMAIN stack'
  BY <1>3, <1>4 DEF Executing
<1> QED BY <1>3, <1>4, <1>5 DEF Popped

(* f is put on top of the stack.                                           *)
Pushed(f) ==
  /\ stack' \in Seq(Frame)
  /\ \E m \in DOMAIN stack' : \A i \in DOMAIN stack' :
       \/ i \in DOMAIN stack /\ stack'[i] = stack[i]
       \/ i = m /\ stack'[i] = f

(* A frame that is entered lies on top of the others.                      *)
LEMMA PushFrame ==
  ASSUME TypeOK, NEW f \in Frame, stack' = Append(stack, f)
  PROVE  Pushed(f)
<1>1. stack \in Seq(Frame)
  BY DEF TypeOK, Frame
<1>2. PICK M \in Nat : Len(stack) = M
  BY <1>1, LenProperties
<1>3. /\ stack' \in Seq(Frame) /\ Len(stack') = M + 1 /\ stack'[M + 1] = f
      /\ \A i \in 1 .. M : stack'[i] = stack[i]
  BY <1>1, <1>2, AppendProperties
<1>4. DOMAIN stack = 1 .. M /\ DOMAIN stack' = 1 .. M + 1
  BY <1>1, <1>2, <1>3, LenProperties
<1>5. ASSUME NEW i \in 1 .. M + 1
      PROVE  \/ i \in 1 .. M /\ stack'[i] = stack[i]
             \/ i = M + 1 /\ stack'[i] = f
  BY <1>3
<1>6. M + 1 \in DOMAIN stack'
  BY <1>4
<1> QED BY <1>3, <1>4, <1>5, <1>6 DEF Pushed

-----------------------------------------------------------------------------
(* The halves of OneHolder.                                                *)
ListsHold ==
  \A s \in Scheduler : \A i \in DOMAIN waiting[s] :
    /\ status[waiting[s][i]] = "suspended"
    /\ \A t \in Scheduler : \A j \in DOMAIN waiting[t] :
         waiting[s][i] = waiting[t][j] => s = t /\ i = j

StackHolds ==
  \A i, j \in DOMAIN stack :
    stack[i] \in Handle =>
      status[stack[i]] = "running" /\ (stack[i] = stack[j] => i = j)

(* The invariant, taken apart.                                             *)
LEMMA Halves == IInv <=> TypeOK /\ ListsHold /\ StackHolds
BY DEF IInv, OneHolder, ListsHold, StackHolds

(* A coroutine is in one list only, and once.                              *)
LEMMA OnlyOnce ==
  ASSUME ListsHold, NEW s \in Scheduler, NEW i \in DOMAIN waiting[s],
         NEW t \in Scheduler, NEW j \in DOMAIN waiting[t],
         waiting[s][i] = waiting[t][j]
  PROVE  s = t /\ i = j
BY DEF ListsHold

(* What is in a list is a coroutine, and what is on the stack a frame.     *)
LEMMA Members ==
  ASSUME TypeOK
  PROVE  /\ \A s \in Scheduler : \A i \in DOMAIN waiting[s] : waiting[s][i] \in Handle
         /\ \A i \in DOMAIN stack : stack[i] \in Frame
<1>1. ASSUME NEW s \in Scheduler, NEW i \in DOMAIN waiting[s]
      PROVE  waiting[s][i] \in Handle
  <2>1. waiting[s] \in Seq(Handle)
    BY DEF TypeOK
  <2> QED BY <1>1, <2>1, LenProperties, ElementOfSeq
<1>2. stack \in Seq(Frame)
  BY DEF TypeOK, Frame
<1>3. \A i \in DOMAIN stack : stack[i] \in Frame
  BY <1>2, LenProperties, ElementOfSeq
<1> QED BY <1>1, <1>3

(* A coroutine that executes is running, and on the stack only at the top. *)
LEMMA TopRuns ==
  ASSUME IInv, NEW h \in Handle, Executing(h)
  PROVE  status[h] = "running"
<1>1. stack \in Seq(Frame) /\ stack # <<>>
  BY DEF IInv, TypeOK, Frame, Executing
<1>2. PICK M \in Nat : Len(stack) = M
  BY <1>1, LenProperties
<1>3. M >= 1 /\ stack[M] = h
  BY <1>1, <1>2, FrontEntries DEF Executing
<1>4. M \in DOMAIN stack
  BY <1>1, <1>2, <1>3, LenProperties
<1> QED BY <1>3, <1>4, Halves DEF StackHolds

-----------------------------------------------------------------------------
(* One lemma for each action.                                              *)

(* A coroutine that is called was in no list and not on the stack.         *)
LEMMA CallInv ==
  ASSUME IInv, NEW h \in Handle, Call(h)
  PROVE  IInv'
<1>1. TypeOK /\ ListsHold /\ StackHolds
  BY Halves
<1>2. status[h] = "absent" /\ status' = [status EXCEPT ![h] = "running"] /\ waiting' = waiting
  BY DEF Call
<1>3. Pushed(h)
  BY <1>1, PushFrame DEF Call, Frame
<1>4. TypeOK'
  BY <1>1, <1>2, <1>3 DEF TypeOK, Pushed, Frame
<1>5. ListsHold'
  <2>1. ASSUME NEW s \in Scheduler, NEW i \in DOMAIN waiting[s]
        PROVE  status'[waiting[s][i]] = "suspended"
    BY <1>1, <1>2, <2>1, Members DEF ListsHold, TypeOK
  <2> QED BY <1>1, <1>2, <2>1 DEF ListsHold
<1>6. StackHolds'
  <2>1. PICK m : \A i \in DOMAIN stack' :
                   \/ i \in DOMAIN stack /\ stack'[i] = stack[i]
                   \/ i = m /\ stack'[i] = h
    BY <1>3 DEF Pushed
  <2>2. ASSUME NEW i \in DOMAIN stack', stack'[i] \in Handle
        PROVE  /\ status'[stack'[i]] = "running"
               /\ i \in DOMAIN stack => stack[i] # h
    BY <1>1, <1>2, <2>1, <2>2 DEF StackHolds, TypeOK
  <2>3. ASSUME NEW i \in DOMAIN stack', NEW j \in DOMAIN stack',
               stack'[i] \in Handle, stack'[i] = stack'[j]
        PROVE  i = j
    BY <1>1, <2>1, <2>2, <2>3 DEF StackHolds
  <2> QED BY <2>2, <2>3 DEF StackHolds
<1> QED BY <1>4, <1>5, <1>6 DEF IInv, OneHolder, ListsHold, StackHolds

(* A coroutine that awaits goes from the stack to a list, or nowhere.      *)
LEMMA AwaitInv ==
  ASSUME IInv, NEW h \in Handle, NEW s \in Scheduler, Await(h, s)
  PROVE  IInv'
<1>1. TypeOK /\ ListsHold /\ StackHolds
  BY Halves
<1>2. status[h] = "running" /\ status' = [status EXCEPT ![h] = "suspended"]
  BY TopRuns DEF Await
<1>3. Popped(h)
  BY <1>1, PopFrame DEF Await
<1>4. /\ waiting' \in [Scheduler -> Seq(Handle)]
      /\ \A t \in Scheduler : Len(waiting'[t]) <= MaxTasks[t]
      /\ Enqueued(h, s)
  BY <1>1, InsertEntries DEF Await
<1>5. TypeOK'
  BY <1>1, <1>2, <1>3, <1>4 DEF TypeOK, Popped, Frame
<1>6. ASSUME NEW t \in Scheduler, NEW i \in DOMAIN waiting[t]
      PROVE  /\ waiting[t][i] \in Handle /\ waiting[t][i] # h
             /\ status'[waiting[t][i]] = "suspended"
  BY <1>1, <1>2, <1>6, Members DEF ListsHold, TypeOK
<1>7. ListsHold'
  <2>1. ASSUME NEW t \in Scheduler, NEW i \in DOMAIN waiting'[t]
        PROVE  status'[waiting'[t][i]] = "suspended"
    <3>1. status'[h] = "suspended"
      BY <1>1, <1>2 DEF TypeOK
    <3> QED BY <1>4, <1>6, <2>1, <3>1 DEF Enqueued
  <2>2. ASSUME NEW t \in Scheduler, NEW i \in DOMAIN waiting'[t],
               NEW u \in Scheduler, NEW j \in DOMAIN waiting'[u],
               waiting'[t][i] = waiting'[u][j]
        PROVE  t = u /\ i = j
    <3>1. CASE i \in DOMAIN waiting[t] /\ waiting'[t][i] = waiting[t][i]
      <4>1. j \in DOMAIN waiting[u] /\ waiting'[u][j] = waiting[u][j]
        BY <1>4, <1>6, <2>2, <3>1 DEF Enqueued
      <4>2. waiting[t][i] = waiting[u][j]
        BY <2>2, <3>1, <4>1
      <4> QED BY <1>1, <3>1, <4>1, <4>2, OnlyOnce
    <3>2. CASE t = s /\ i = Len(waiting[s]) + 1 /\ waiting'[t][i] = h
      <4>1. u = s /\ j = Len(waiting[s]) + 1
        BY <1>4, <1>6, <2>2, <3>2 DEF Enqueued
      <4> QED BY <3>2, <4>1
    <3> QED BY <1>4, <3>1, <3>2 DEF Enqueued
  <2> QED BY <2>1, <2>2 DEF ListsHold
<1>8. StackHolds'
  BY <1>1, <1>2, <1>3 DEF StackHolds, Popped, TypeOK
<1> QED BY <1>5, <1>7, <1>8 DEF IInv, OneHolder, ListsHold, StackHolds

(* A coroutine that ends leaves the stack.                                 *)
LEMMA CoReturnInv ==
  ASSUME IInv, NEW h \in Handle, CoReturn(h)
  PROVE  IInv'
<1>1. TypeOK /\ ListsHold /\ StackHolds
  BY Halves
<1>2. status[h] = "running" /\ status' = [status EXCEPT ![h] = "done"] /\ waiting' = waiting
  BY TopRuns DEF CoReturn
<1>3. Popped(h)
  BY <1>1, PopFrame DEF CoReturn
<1>4. TypeOK'
  BY <1>1, <1>2, <1>3 DEF TypeOK, Popped, Frame
<1>5. ListsHold'
  <2>1. ASSUME NEW s \in Scheduler, NEW i \in DOMAIN waiting[s]
        PROVE  status'[waiting[s][i]] = "suspended"
    BY <1>1, <1>2, <2>1, Members DEF ListsHold, TypeOK
  <2> QED BY <1>1, <1>2, <2>1 DEF ListsHold
<1>6. StackHolds'
  BY <1>1, <1>2, <1>3 DEF StackHolds, Popped, TypeOK
<1> QED BY <1>4, <1>5, <1>6 DEF IInv, OneHolder, ListsHold, StackHolds

(* A call of resume() is no coroutine.                                     *)
LEMMA ResumeInv ==
  ASSUME IInv, NEW s \in Scheduler, Resume(s)
  PROVE  IInv'
<1>1. TypeOK /\ ListsHold /\ StackHolds /\ waiting' = waiting /\ status' = status
  BY Halves DEF Resume
<1>2. Pushed(s) /\ s \notin Handle
  BY <1>1, PushFrame, UnorderedAssumption DEF Resume, Frame
<1>3. TypeOK' /\ ListsHold'
  BY <1>1, <1>2 DEF TypeOK, ListsHold, Pushed, Frame
<1>4. StackHolds'
  BY <1>1, <1>2 DEF StackHolds, Pushed
<1> QED BY <1>3, <1>4 DEF IInv, OneHolder, ListsHold, StackHolds

(* Nor is its return.                                                      *)
LEMMA ResumeEndsInv ==
  ASSUME IInv, NEW s \in Scheduler, ResumeEnds(s)
  PROVE  IInv'
<1>1. TypeOK /\ ListsHold /\ StackHolds /\ waiting' = waiting /\ status' = status
  BY Halves DEF ResumeEnds
<1>2. Popped(s)
  BY <1>1, PopFrame DEF ResumeEnds
<1>3. TypeOK' /\ ListsHold'
  BY <1>1, <1>2 DEF TypeOK, ListsHold, Popped, Frame
<1>4. StackHolds'
  BY <1>1, <1>2 DEF StackHolds, Popped
<1> QED BY <1>3, <1>4 DEF IInv, OneHolder, ListsHold, StackHolds

(* resume() moves a coroutine from its list to the stack.                  *)
LEMMA ResumeNextInv ==
  ASSUME IInv, NEW s \in Scheduler, ResumeNext(s)
  PROVE  IInv'
<1> DEFINE h == waiting[s][1]
<1>1. TypeOK /\ ListsHold /\ StackHolds
  BY Halves
<1>2. /\ waiting' \in [Scheduler -> Seq(Handle)]
      /\ \A t \in Scheduler : Len(waiting'[t]) <= MaxTasks[t]
      /\ Dequeued(s) /\ 1 \in DOMAIN waiting[s] /\ Head(waiting[s]) = h /\ h \in Handle
  BY <1>1, PopEntries
<1>3. status' = [status EXCEPT ![h] = "running"] /\ stack' = Append(stack, h)
  BY <1>2 DEF ResumeNext
<1>4. status[h] = "suspended"
  BY <1>1, <1>2 DEF ListsHold
<1>5. ASSUME NEW t \in Scheduler, NEW i \in DOMAIN waiting[t], waiting[t][i] = h
      PROVE  t = s /\ i = 1
  BY <1>1, <1>2, <1>5 DEF ListsHold
<1> HIDE DEF h
<1>6. Pushed(h)
  BY <1>1, <1>2, <1>3, PushFrame DEF Frame
<1>7. TypeOK'
  BY <1>1, <1>2, <1>3, <1>6 DEF TypeOK, Pushed, Frame
<1>8. ASSUME NEW t \in Scheduler, NEW i \in DOMAIN waiting[t], waiting[t][i] # h
      PROVE  status'[waiting[t][i]] = "suspended"
  BY <1>1, <1>3, <1>8, Members DEF ListsHold, TypeOK
<1>9. ListsHold'
  <2>1. ASSUME NEW t \in Scheduler, NEW i \in DOMAIN waiting'[t]
        PROVE  status'[waiting'[t][i]] = "suspended"
    <3>1. CASE t = s
      <4>1. i + 1 \in DOMAIN waiting[s] /\ i + 1 # 1 /\ waiting'[s][i] = waiting[s][i + 1]
        BY <1>2, <2>1, <3>1 DEF Dequeued
      <4> QED BY <1>5, <1>8, <3>1, <4>1
    <3>2. CASE t # s
      BY <1>2, <1>5, <1>8, <2>1, <3>2 DEF Dequeued
    <3> QED BY <3>1, <3>2
  <2>2. ASSUME NEW t \in Scheduler, NEW i \in DOMAIN waiting'[t],
               NEW u \in Scheduler, NEW j \in DOMAIN waiting'[u],
               waiting'[t][i] = waiting'[u][j]
        PROVE  t = u /\ i = j
    <3>1. ASSUME t = s, u = s PROVE i = j
      <4>1. /\ i \in Nat /\ i + 1 \in DOMAIN waiting[s] /\ waiting'[s][i] = waiting[s][i + 1]
            /\ j \in Nat /\ j + 1 \in DOMAIN waiting[s] /\ waiting'[s][j] = waiting[s][j + 1]
        BY <1>2, <2>2, <3>1 DEF Dequeued
      <4>2. waiting[s][i + 1] = waiting[s][j + 1]
        BY <2>2, <3>1, <4>1
      <4>3. i + 1 = j + 1
        BY <1>1, <4>1, <4>2, OnlyOnce
      <4> QED BY <4>1, <4>3
    <3>2. ASSUME t = s, u # s PROVE FALSE
      <4>1. /\ i + 1 \in DOMAIN waiting[s] /\ waiting'[s][i] = waiting[s][i + 1]
            /\ waiting'[u] = waiting[u]
        BY <1>2, <2>2, <3>2 DEF Dequeued
      <4>2. j \in DOMAIN waiting[u] /\ waiting[s][i + 1] = waiting[u][j]
        BY <2>2, <3>2, <4>1
      <4> QED BY <1>1, <3>2, <4>1, <4>2, OnlyOnce
    <3>3. ASSUME t # s, u = s PROVE FALSE
      <4>1. /\ j + 1 \in DOMAIN waiting[s] /\ waiting'[s][j] = waiting[s][j + 1]
            /\ waiting'[t] = waiting[t]
        BY <1>2, <2>2, <3>3 DEF Dequeued
      <4>2. i \in DOMAIN waiting[t] /\ waiting[s][j + 1] = waiting[t][i]
        BY <2>2, <3>3, <4>1
      <4> QED BY <1>1, <3>3, <4>1, <4>2, OnlyOnce
    <3>4. CASE t # s /\ u # s
      <4>1. waiting'[t] = waiting[t] /\ waiting'[u] = waiting[u]
        BY <1>2, <3>4 DEF Dequeued
      <4>2. i \in DOMAIN waiting[t] /\ j \in DOMAIN waiting[u] /\ waiting[t][i] = waiting[u][j]
        BY <2>2, <4>1
      <4> QED BY <1>1, <4>2, OnlyOnce
    <3> QED BY <3>1, <3>2, <3>3, <3>4
  <2> QED BY <2>1, <2>2 DEF ListsHold
<1>10. StackHolds'
  <2>1. PICK m : \A i \in DOMAIN stack' :
                   \/ i \in DOMAIN stack /\ stack'[i] = stack[i]
                   \/ i = m /\ stack'[i] = h
    BY <1>6 DEF Pushed
  <2>2. ASSUME NEW i \in DOMAIN stack', stack'[i] \in Handle
        PROVE  /\ status'[stack'[i]] = "running"
               /\ i \in DOMAIN stack => stack[i] # h
    BY <1>1, <1>2, <1>3, <1>4, <2>1, <2>2 DEF StackHolds, TypeOK
  <2>3. ASSUME NEW i \in DOMAIN stack', NEW j \in DOMAIN stack',
               stack'[i] \in Handle, stack'[i] = stack'[j]
        PROVE  i = j
    BY <1>1, <2>1, <2>2, <2>3 DEF StackHolds
  <2> QED BY <2>2, <2>3 DEF StackHolds
<1> QED BY <1>7, <1>9, <1>10 DEF IInv, OneHolder, ListsHold, StackHolds

(* In the beginning nothing waits and nothing executes.                    *)
LEMMA InitInv == Init => IInv
<1> SUFFICES ASSUME Init PROVE IInv
  OBVIOUS
<1>1. TypeOK
  BY UnorderedAssumption DEF Init, TypeOK
<1>2. ListsHold /\ StackHolds
  BY DEF Init, ListsHold, StackHolds
<1> QED BY <1>1, <1>2, Halves

(* Every step preserves the inductive invariant.                           *)
LEMMA NextInv == IInv /\ [Next]_vars => IInv'
<1> SUFFICES ASSUME IInv, [Next]_vars PROVE IInv'
  OBVIOUS
<1>1. CASE UNCHANGED vars
  BY <1>1 DEF vars, IInv, TypeOK, OneHolder
<1> QED BY <1>1, CallInv, AwaitInv, CoReturnInv, ResumeInv, ResumeNextInv, ResumeEndsInv
        DEF Next, Body, Loop, MainResumes, Exited

(* Whatever schedulers coroutines go to and from, and however resume()     *)
(* loops and bodies nest on the stack, each frame is in one place: no      *)
(* resume() enters a body that executes or a frame that was destroyed.     *)
THEOREM HeldOnce == Safety => [](TypeOK /\ OneHolder)
<1>1. IInv => TypeOK /\ OneHolder
  BY DEF IInv
<1> QED BY <1>1, InitInv, NextInv, PTL DEF Safety

(* A coroutine gets lost only by awaiting a scheduler, and only if it is   *)
(* the list of that one that is full.                                      *)
LEMMA LostStep ==
  ASSUME IInv, [Next]_vars, NEW h \in Handle, ~ Lost(h), Lost(h)'
  PROVE  /\ \E s \in Scheduler : Await(h, s)
         /\ \A s \in Scheduler : Await(h, s) => Len(waiting[s]) = MaxTasks[s]
<1>1. TypeOK
  BY DEF IInv
<1>2. /\ status'[h] = "suspended"
      /\ \A t \in Scheduler : \A i \in DOMAIN waiting'[t] : waiting'[t][i] # h
  BY DEF Lost
<1>3. status[h] = "suspended" =>
        \E t \in Scheduler : \E i \in DOMAIN waiting[t] : waiting[t][i] = h
  BY DEF Lost
<1>4. ASSUME waiting' = waiting PROVE status[h] # "suspended"
  BY <1>2, <1>3, <1>4
<1>5. CASE UNCHANGED vars
  BY <1>2, <1>4, <1>5 DEF vars
<1>6. ASSUME NEW g \in Handle, Call(g) PROVE FALSE
  BY <1>1, <1>2, <1>4, <1>6 DEF Call, TypeOK
<1>7. ASSUME NEW g \in Handle, CoReturn(g) PROVE FALSE
  BY <1>1, <1>2, <1>4, <1>7 DEF CoReturn, TypeOK
<1>8. ASSUME NEW s \in Scheduler, Resume(s) \/ ResumeEnds(s) PROVE FALSE
  BY <1>2, <1>4, <1>8 DEF Resume, ResumeEnds
<1>9. ASSUME NEW s \in Scheduler, ResumeNext(s) PROVE FALSE
  <2>1. /\ Dequeued(s) /\ 1 \in DOMAIN waiting[s]
        /\ Head(waiting[s]) = waiting[s][1] /\ Head(waiting[s]) \in Handle
    BY <1>1, <1>9, PopEntries
  <2>2. status' = [status EXCEPT ![waiting[s][1]] = "running"]
    BY <1>9, <2>1 DEF ResumeNext
  <2>3. waiting[s][1] # h /\ status[h] = "suspended"
    BY <1>1, <1>2, <2>1, <2>2 DEF TypeOK
  <2>4. PICK t \in Scheduler : \E i \in DOMAIN waiting[t] : waiting[t][i] = h
    BY <1>3, <2>3
  <2>5. PICK i \in DOMAIN waiting[t] : waiting[t][i] = h
    BY <2>4
  <2>6. CASE t = s
    <3>1. i - 1 \in DOMAIN waiting'[s] /\ waiting'[s][i - 1] = h
      BY <2>1, <2>3, <2>5, <2>6 DEF Dequeued
    <3> QED BY <1>2, <3>1
  <2>7. CASE t # s
    <3>1. waiting'[t] = waiting[t]
      BY <2>1, <2>7 DEF Dequeued
    <3> QED BY <1>2, <2>5, <3>1
  <2> QED BY <2>6, <2>7
<1>10. ASSUME NEW g \in Handle, NEW s \in Scheduler, Await(g, s)
       PROVE  Await(h, s) /\ Len(waiting[s]) = MaxTasks[s]
  <2>1. /\ Kept
        /\ Len(waiting[s]) = MaxTasks[s] \/
             (\E i \in DOMAIN waiting'[s] : waiting'[s][i] = g)
    BY <1>1, <1>10, InsertEntries DEF Await
  <2>2. status[h] # "suspended"
    BY <1>2, <1>3, <2>1 DEF Kept
  <2>3. h = g
    BY <1>1, <1>2, <1>10, <2>2 DEF Await, TypeOK
  <2> QED BY <1>2, <1>10, <2>1, <2>3
<1>11. \E s \in Scheduler : Await(h, s)
  BY <1>5, <1>6, <1>7, <1>8, <1>9, <1>10 DEF Next, Body, Loop, MainResumes, Exited
<1> QED BY <1>10, <1>11

(* For any schedulers and capacities the only coroutine that can get lost  *)
(* is one that awaits a scheduler whose own list is full, whatever the     *)
(* others hold: one that waits stays in its list until resume() takes it   *)
(* off.                                                                    *)
THEOREM OnlyFullLoses == Safety => LostOnlyWhenFull
<1>1. ASSUME IInv, [Next]_vars
      PROVE  [ \A h \in Handle :
                 ~ Lost(h) /\ Lost(h)' =>
                   /\ \E s \in Scheduler : Await(h, s)
                   /\ \A s \in Scheduler :
                        Await(h, s) => Len(waiting[s]) = MaxTasks[s] ]_vars
  BY <1>1, LostStep
<1> QED BY <1>1, InitInv, NextInv, PTL DEF Safety, LostOnlyWhenFull
=============================================================================
