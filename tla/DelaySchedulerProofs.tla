------------------------ MODULE DelaySchedulerProofs ------------------------
(***************************************************************************)
(* Proofs about the delay scheduler and the loop that drives it, for any   *)
(* clock granularity and any delays: it schedules as the ordered scheduler *)
(* does, it never wakes a coroutine a clock tick or more too early, and it *)
(* wakes those that expire together in the order in which they awaited.    *)
(* They rest on the invariant of the ordered scheduler.                    *)
(***************************************************************************)
EXTENDS DelayScheduler, OrderedSchedulerProofs

(* The types the argument needs, and that main's sample of the clock is    *)
(* never ahead of real time.                                               *)
Clocks ==
  /\ time \in 0 .. MaxTime
  /\ current \in 0 .. MaxTime
  /\ current <= time
  /\ alarm \in 0 .. MaxTime
  /\ due \in [Handle -> 0 .. MaxTime]
  /\ earlier \in [Handle -> SUBSET Handle]
  /\ pc \in {"start", "sample", "resume", "returned", "asleep", "test", "exit"}

(* An expiry lags behind the real time the coroutine asked for by less     *)
(* than one tick of the clock.                                             *)
Stamps ==
  \A i \in 1 .. Len(waiting) :
    due[waiting[i].handle] < waiting[i].cond + Tick

(* The clock has room to get past every expiry within the bound ...        *)
Room == \A i \in 1 .. Len(waiting) : waiting[i].cond + Tick <= MaxTime

(* ... and past the one that resume() told main to sleep until.            *)
Reported ==
  pc = "returned" =>
    /\ ret \in [pending : BOOLEAN, next : Condition \cup {None}]
    /\ ret.next # None => ret.next + Tick <= MaxTime

(* Of two entries with the same expiry, the one in front awaited first.    *)
Ties ==
  \A i, j \in 1 .. Len(waiting) :
    i < j /\ waiting[i].cond = waiting[j].cond =>
      waiting[i].handle \in earlier[waiting[j].handle]

(* The inductive invariant.                                                *)
DInv == IInv /\ Clocks /\ Stamps /\ Room /\ Reported /\ Ties

-----------------------------------------------------------------------------
(* The clock lags behind real time by less than a tick.                    *)
LEMMA ClockLag ==
  ASSUME time \in Nat
  PROVE  now \in Nat /\ now <= time /\ time < now + Tick
<1>1. Tick \in Nat /\ Tick > 0
  BY DelayAssumption
<1>2. time % Tick \in 0 .. Tick - 1 /\ time % Tick <= time
  BY <1>1
<1> QED BY <1>1, <1>2 DEF now

(* Every step is one of the ordered scheduler or leaves it alone.          *)
LEMMA StepsSchedule ==
  ASSUME Clocks, [DelayNext]_delayVars
  PROVE  [Next]_vars
<1>1. time \in Nat /\ current \in Condition
  BY DelayAssumption DEF Clocks
<1>2. ASSUME NEW d \in Delay, AwaitDelay(d) PROVE Next
  <2>1. now \in Nat /\ d \in Nat /\ Tick \in Nat /\ now + d + Tick <= MaxTime
    BY <1>1, <1>2, ClockLag, DelayAssumption DEF AwaitDelay
  <2>2. now + d \in Condition
    BY <2>1, DelayAssumption
  <2> QED BY <1>2, <2>2 DEF AwaitDelay, Next
<1>3. CASE CallResume
  BY <1>1, <1>3 DEF CallResume, Next
<1>4. ASSUME NEW h \in Handle, Start(h) \/ Nest(h) PROVE Next
  BY <1>4 DEF Start, Nest, Next
<1>5. CASE Return
  BY <1>5 DEF Return, Next
<1>6. CASE \/ Advance \/ EnterLoop \/ Sample \/ Returned \/ Awake \/ Loop
           \/ Exited \/ UNCHANGED delayVars
  BY <1>6 DEF Advance, EnterLoop, Sample, Returned, Awake, Loop, Exited,
              delayVars, vars
<1> QED BY <1>2, <1>3, <1>4, <1>5, <1>6 DEF DelayNext, Body, Main

(* In the beginning it is time 0 and nothing waits.                        *)
LEMMA DelayInitInv == DelayInit => DInv
<1> SUFFICES ASSUME DelayInit PROVE DInv
  OBVIOUS
<1>1. IInv
  BY InitInv DEF DelayInit
<1>2. Clocks
  BY DelayAssumption DEF DelayInit, Clocks
<1>3. Stamps /\ Room /\ Ties
  BY DEF DelayInit, Init, Stamps, Room, Ties
<1>4. Reported
  BY DEF DelayInit, Reported
<1> QED BY <1>1, <1>2, <1>3, <1>4 DEF DInv

(* What an await does: the entry it inserts, and the history it records.   *)
LEMMA AwaitDelayFacts ==
  ASSUME DInv, NEW d \in Delay, AwaitDelay(d), NEW h, h = Last(stack),
         NEW L \in Nat, Len(waiting) = L
  PROVE  /\ h \in Handle /\ status[h] = "running"
         /\ d \in Nat /\ now \in Nat /\ time < now + Tick
         /\ now + d + Tick <= MaxTime
         /\ now + d \in Condition
         /\ due' = [due EXCEPT ![h] = time + d]
         /\ earlier' = [earlier EXCEPT ![h] = Suspended]
         /\ \E k \in 1 .. L + 1 : InsertedAt(k, h, now + d, L)
<1>1. TypeOK /\ SoleOwner /\ Clocks
  BY DEF DInv, IInv
<1>2. PICK M \in Nat : Len(stack) = M
  BY <1>1, LenProperties DEF TypeOK
<1>3. M >= 1 /\ h \in Handle /\ h = stack[M]
  BY <1>1, <1>2, FrontEntries DEF AwaitDelay, Await, TypeOK
<1>4. status[h] = "running"
  BY <1>1, <1>2, <1>3 DEF SoleOwner
<1>5. /\ time \in Nat /\ now \in Nat /\ d \in Nat /\ Tick \in Nat
      /\ time < now + Tick
      /\ now + d + Tick <= MaxTime
  BY <1>1, ClockLag, DelayAssumption DEF AwaitDelay, Clocks
<1>6. now + d \in Condition
  BY <1>5, DelayAssumption
<1>7. /\ insert(h, now + d) /\ due' = [due EXCEPT ![h] = time + d]
      /\ earlier' = [earlier EXCEPT ![h] = Suspended]
  BY DEF AwaitDelay, Await
<1>8. \E k \in 1 .. L + 1 : InsertedAt(k, h, now + d, L)
  BY <1>1, <1>3, <1>6, <1>7, InsertEntries
<1> QED BY <1>3, <1>4, <1>5, <1>6, <1>7, <1>8

(* An await stamps its entry with an expiry less than a tick too early,    *)
(* and behind the entries that have the same.                              *)
LEMMA AwaitStamps ==
  ASSUME DInv, NEW d \in Delay, AwaitDelay(d)
  PROVE  /\ Stamps' /\ Room' /\ Ties'
         /\ due' \in [Handle -> 0 .. MaxTime]
         /\ earlier' \in [Handle -> SUBSET Handle]
<1>1. /\ TypeOK /\ WaitingSorted /\ SoleOwner
      /\ Clocks /\ Stamps /\ Room /\ Ties
      /\ MaxTime \in Nat /\ Tick \in Nat
      /\ Condition = 0 .. MaxTime
  BY DelayAssumption DEF DInv, IInv
<1>2. PICK L \in Nat : Len(waiting) = L
  BY <1>1, LenProperties DEF TypeOK
<1>3. PICK h : h = Last(stack)
  OBVIOUS
<1> DEFINE c == now + d
           e == [handle |-> h, cond |-> c]
<1>4. /\ h \in Handle /\ status[h] = "running"
      /\ d \in Nat /\ now \in Nat /\ time < now + Tick
      /\ c + Tick <= MaxTime
      /\ c \in Condition
      /\ due' = [due EXCEPT ![h] = time + d]
      /\ earlier' = [earlier EXCEPT ![h] = Suspended]
      /\ \E k \in 1 .. L + 1 : InsertedAt(k, h, c, L)
  BY <1>2, <1>3, AwaitDelayFacts
<1>5. PICK k \in 1 .. L + 1 : InsertedAt(k, h, c, L)
  BY <1>4
<1>6. time + d < c + Tick /\ time \in Nat
  BY <1>1, <1>4 DEF Clocks
<1> HIDE DEF c
<1>7. c \in Nat
  BY <1>1, <1>4
<1>8. due' \in [Handle -> 0 .. MaxTime] /\ due'[h] = time + d
  <2>1. time + d \in 0 .. MaxTime /\ due \in [Handle -> 0 .. MaxTime]
    BY <1>1, <1>4, <1>6, <1>7 DEF Clocks
  <2> QED BY <1>4, <2>1
<1>9. earlier' \in [Handle -> SUBSET Handle] /\ earlier'[h] = Suspended
  <2>1. Suspended \in SUBSET Handle /\ earlier \in [Handle -> SUBSET Handle]
    BY <1>1 DEF Clocks, Suspended
  <2> QED BY <1>4, <2>1
<1>10. ASSUME NEW i \in 1 .. L
       PROVE  /\ waiting[i].handle \in Suspended
              /\ due'[waiting[i].handle] < waiting[i].cond + Tick
              /\ earlier'[waiting[i].handle] = earlier[waiting[i].handle]
  <2>1. status[waiting[i].handle] = "suspended" /\ waiting[i].handle \in Handle
    BY <1>1, <1>2, EntryFields DEF SoleOwner
  <2>2. /\ due'[waiting[i].handle] = due[waiting[i].handle]
        /\ earlier'[waiting[i].handle] = earlier[waiting[i].handle]
    BY <1>1, <1>4, <2>1 DEF Clocks
  <2> QED BY <1>1, <1>2, <2>1, <2>2 DEF Stamps, Suspended
<1>11. CASE waiting' = waiting
  <2>1. Stamps'
    BY <1>2, <1>10, <1>11 DEF Stamps
  <2>2. Room' /\ Ties'
    BY <1>1, <1>2, <1>10, <1>11 DEF Room, Ties
  <2> QED BY <1>8, <1>9, <2>1, <2>2
<1>12. CASE Inserted(waiting', waiting, k, e, L)
  <2>1. /\ Len(waiting') = L + 1
        /\ \A i \in 1 .. k - 1 : waiting'[i] = waiting[i]
        /\ waiting'[k].handle = h /\ waiting'[k].cond = c
        /\ \A i \in k + 1 .. L + 1 : waiting'[i] = waiting[i - 1]
    BY <1>12 DEF Inserted
  <2>2. ASSUME NEW i \in 1 .. L + 1, i # k
        PROVE  \E m \in 1 .. L : /\ waiting'[i] = waiting[m]
                                /\ m = IF i < k THEN i ELSE i - 1
    <3>1. CASE i < k
      <4>1. i \in 1 .. k - 1 /\ i \in 1 .. L
        BY <3>1
      <4> QED BY <2>1, <3>1, <4>1
    <3>2. CASE i > k
      <4>1. i \in k + 1 .. L + 1 /\ i - 1 \in 1 .. L
        BY <3>2
      <4> QED BY <2>1, <3>2, <4>1
    <3> QED BY <2>2, <3>1, <3>2
  <2>3. ASSUME NEW i \in 1 .. L + 1
        PROVE  /\ due'[waiting'[i].handle] < waiting'[i].cond + Tick
               /\ waiting'[i].cond + Tick <= MaxTime
    <3>1. CASE i = k
      BY <1>4, <1>6, <1>8, <2>1, <3>1
    <3>2. CASE i # k
      <4>1. PICK m \in 1 .. L : waiting'[i] = waiting[m]
        BY <2>2, <3>2
      <4> QED BY <1>1, <1>2, <1>10, <4>1 DEF Room
    <3> QED BY <3>1, <3>2
  <2>4. ASSUME NEW i \in 1 .. L + 1, NEW j \in 1 .. L + 1, i < j,
               waiting'[i].cond = waiting'[j].cond
        PROVE  waiting'[i].handle \in earlier'[waiting'[j].handle]
    <3>1. CASE i # k /\ j # k
      <4>1. PICK m \in 1 .. L : /\ waiting'[i] = waiting[m]
                                /\ m = IF i < k THEN i ELSE i - 1
        BY <2>2, <3>1
      <4>2. PICK n \in 1 .. L : /\ waiting'[j] = waiting[n]
                                /\ n = IF j < k THEN j ELSE j - 1
        BY <2>2, <3>1
      <4>3. m < n
        BY <2>4, <3>1, <4>1, <4>2
      <4>4. waiting[m].handle \in earlier[waiting[n].handle]
        BY <1>1, <1>2, <2>4, <4>1, <4>2, <4>3 DEF Ties
      <4> QED BY <1>10, <4>1, <4>2, <4>4
    <3>2. CASE j = k
      <4>1. i # k
        BY <2>4, <3>2
      <4>2. PICK m \in 1 .. L : waiting'[i] = waiting[m]
        BY <2>2, <4>1
      <4> QED BY <1>9, <1>10, <2>1, <3>2, <4>2
    <3>3. CASE i = k
      <4>1. j # k /\ ~ (j < k)
        BY <2>4, <3>3
      <4>2. PICK n \in 1 .. L : waiting'[j] = waiting[n] /\ n = j - 1
        BY <2>2, <4>1
      <4>3. k \in 1 .. L /\ k <= n
        BY <2>4, <3>3, <4>2
      <4>4. waiting[k].cond \in Condition /\ waiting[n].cond \in Condition
        BY <1>1, <1>2, <4>3, EntryFields
      <4>5. ReadyToWake(c, waiting[k].cond)
        BY <1>2, <1>5, <4>3 DEF InsertedAt, InsertPoint
      <4>6. c < waiting[k].cond
        BY <1>4, <4>4, <4>5, DelayAssumption DEF DelayReady
      <4>7. waiting[k].cond <= waiting[n].cond
        <5>1. CASE k = n
          BY <1>1, <4>4, <5>1
        <5>2. CASE k < n
          <6>1. NotAfter(waiting[k].cond, waiting[n].cond)
            BY <1>1, <1>2, <4>3, <5>2 DEF WaitingSorted
          <6> QED BY <1>1, <4>4, <6>1, DelayAssumption DEF NotAfter, DelayReady
        <5> QED BY <4>3, <5>1, <5>2
      <4>8. waiting[n].cond = c
        BY <2>1, <2>4, <3>3, <4>2
      <4> QED BY <1>1, <1>7, <4>4, <4>6, <4>7, <4>8
    <3> QED BY <3>1, <3>2, <3>3
  <2>5. Stamps' /\ Room'
    BY <2>1, <2>3 DEF Stamps, Room
  <2>6. Ties'
    BY <2>1, <2>4 DEF Ties
  <2> QED BY <1>8, <1>9, <2>5, <2>6
<1> QED BY <1>5, <1>11, <1>12 DEF InsertedAt

(* The condition that resume() returns is empty or that of an entry.       *)
LEMMA ReturnedCondition ==
  ASSUME DInv, CallResume
  PROVE  Reported'
<1>1. TypeOK /\ Room /\ Clocks /\ IInv /\ stack = <<>>
  BY DEF DInv, IInv, CallResume, resume
<1>2. PICK L \in Nat : Len(waiting) = L
  BY <1>1, LenProperties DEF TypeOK
<1>3. current \in Condition
  BY <1>1, DelayAssumption DEF Clocks
<1>4. CASE ResumeIdle(current)
  <2>1. ret' = [pending |-> waiting # <<>>, next |-> priority_condition(waiting)]
    BY <1>4 DEF ResumeIdle
  <2>2. priority_condition(waiting) \in Condition \cup {None}
    BY <1>1, PriorityConditionType DEF TypeOK
  <2>3. ret' \in [pending : BOOLEAN, next : Condition \cup {None}]
    BY <2>1, <2>2, Zenon
  <2>4. \/ priority_condition(waiting) = None
        \/ \E i \in 1 .. L : priority_condition(waiting) = waiting[i].cond
    BY <1>2, PriorityConditionMember
  <2>5. ret'.next = priority_condition(waiting)
    BY <2>1, Zenon
  <2>6. ret'.next # None => ret'.next + Tick <= MaxTime
    BY <1>1, <1>2, <2>4, <2>5 DEF Room
  <2> QED BY <2>3, <2>6 DEF Reported
<1>5. CASE ResumeDue(current)
  <2>1. PICK k \in 1 .. L : ResumedAt(k, current, L)
    BY <1>1, <1>2, <1>5, ResumeEntries
  <2>2. k = 1
    BY <1>1, <1>2, <1>3, <2>1, FirstIsDue DEF ResumedAt
  <2>3. Len(SubSeq(waiting, 1, 0)) = 0
    BY <1>1, <1>2, SubSeqProperties, ElementOfSeq DEF TypeOK
  <2>4. priority_condition(SubSeq(waiting, 1, 0)) = None
    BY <2>3, PriorityConditionEmpty
  <2>5. ret' = [pending |-> TRUE,
                next |-> priority_condition(SubSeq(waiting, 1, 1 - 1))] /\ 1 - 1 = 0
    BY <2>1, <2>2 DEF ResumedAt
  <2>6. ret' = [pending |-> TRUE, next |-> None]
    BY <2>4, <2>5
  <2> QED BY <2>6 DEF Reported
<1> QED BY <1>4, <1>5 DEF CallResume, resume

(* A resume leaves the stamps and the order of the entries that go on      *)
(* waiting.                                                                *)
LEMMA ResumeStamps ==
  ASSUME DInv, CallResume, IInv'
  PROVE  /\ Stamps' /\ Room' /\ Ties'
         /\ earlier' \in [Handle -> SUBSET Handle]
<1>1. TypeOK /\ SoleOwner /\ Clocks /\ Stamps /\ Room /\ Ties /\ TypeOK' /\ SoleOwner'
  BY DEF DInv, IInv
<1>2. PICK L \in Nat : Len(waiting) = L
  BY <1>1, LenProperties DEF TypeOK
<1>3. PICK M \in Nat : Len(waiting') = M
  BY <1>1, LenProperties DEF TypeOK
<1>4. /\ due' = due
      /\ earlier' = [h \in Handle |->
                       IF h \in Suspended' THEN earlier[h] \cap Suspended' ELSE {}]
  BY DEF CallResume
<1>5. earlier' \in [Handle -> SUBSET Handle]
  BY <1>1, <1>4 DEF Clocks, Suspended
<1>6. ASSUME NEW i \in 1 .. M PROVE waiting'[i].handle \in Suspended'
  <2>1. waiting'[i] \in Entry
    BY <1>1, <1>3, ElementOfSeq DEF TypeOK
  <2>2. waiting'[i].handle \in Handle
    BY <2>1 DEF Entry
  <2> QED BY <1>1, <1>3, <2>2 DEF SoleOwner, Suspended
<1>7. \E k \in 1 .. L + 1 :
        \A i \in 1 .. M : \E m \in 1 .. L : /\ waiting'[i] = waiting[m]
                                           /\ m = IF i < k THEN i ELSE i + 1
  <2>1. CASE ResumeIdle(current)
    <3>1. waiting' = waiting /\ M = L
      BY <1>2, <1>3, <2>1 DEF ResumeIdle
    <3>2. L + 1 \in 1 .. L + 1 /\ \A i \in 1 .. L : i < L + 1
      OBVIOUS
    <3> QED BY <3>1, <3>2
  <2>2. CASE ResumeDue(current)
    <3>1. PICK k \in 1 .. L : ResumedAt(k, current, L)
      BY <1>1, <1>2, <2>2, ResumeEntries
    <3>2. Removed(waiting', waiting, k, L)
      BY <3>1 DEF ResumedAt
    <3>3. M = L - 1
      BY <1>3, <3>2 DEF Removed
    <3>4. ASSUME NEW i \in 1 .. M
          PROVE  \E m \in 1 .. L : /\ waiting'[i] = waiting[m]
                                  /\ m = IF i < k THEN i ELSE i + 1
      <4>1. CASE i < k
        <5>1. i \in 1 .. k - 1 /\ i \in 1 .. L
          BY <4>1
        <5> QED BY <3>2, <4>1, <5>1 DEF Removed
      <4>2. CASE ~ (i < k)
        <5>1. i \in k .. L - 1 /\ i + 1 \in 1 .. L
          BY <3>3, <4>2
        <5> QED BY <3>2, <4>2, <5>1 DEF Removed
      <4> QED BY <4>1, <4>2
    <3>5. k \in 1 .. L + 1
      OBVIOUS
    <3> QED BY <3>4, <3>5
  <2> QED BY <2>1, <2>2 DEF CallResume, resume
<1>8. PICK k \in 1 .. L + 1 :
        \A i \in 1 .. M : \E m \in 1 .. L : /\ waiting'[i] = waiting[m]
                                           /\ m = IF i < k THEN i ELSE i + 1
  BY <1>7
<1>9. Stamps' /\ Room'
  <2>1. ASSUME NEW i \in 1 .. M
        PROVE  /\ due'[waiting'[i].handle] < waiting'[i].cond + Tick
               /\ waiting'[i].cond + Tick <= MaxTime
    <3>1. PICK m \in 1 .. L : waiting'[i] = waiting[m]
      BY <1>8
    <3> QED BY <1>1, <1>2, <1>4, <3>1 DEF Stamps, Room
  <2> QED BY <1>3, <2>1 DEF Stamps, Room
<1>10. Ties'
  <2>1. ASSUME NEW i \in 1 .. M, NEW j \in 1 .. M, i < j,
               waiting'[i].cond = waiting'[j].cond
        PROVE  waiting'[i].handle \in earlier'[waiting'[j].handle]
    <3>1. PICK m \in 1 .. L : /\ waiting'[i] = waiting[m]
                              /\ m = IF i < k THEN i ELSE i + 1
      BY <1>8
    <3>2. PICK n \in 1 .. L : /\ waiting'[j] = waiting[n]
                              /\ n = IF j < k THEN j ELSE j + 1
      BY <1>8
    <3>3. m < n
      BY <2>1, <3>1, <3>2
    <3>4. waiting[m].handle \in earlier[waiting[n].handle]
      BY <1>1, <1>2, <2>1, <3>1, <3>2, <3>3 DEF Ties
    <3>5. waiting'[i].handle \in Suspended' /\ waiting'[j].handle \in Suspended'
      BY <1>6
    <3>6. waiting'[j].handle \in Handle
      BY <3>5 DEF Suspended
    <3>7. earlier'[waiting'[j].handle] = earlier[waiting'[j].handle] \cap Suspended'
      BY <1>4, <3>5, <3>6
    <3> QED BY <3>1, <3>2, <3>4, <3>5, <3>7
  <2> QED BY <1>3, <2>1 DEF Ties
<1> QED BY <1>5, <1>9, <1>10

(* main never sleeps past the bound.                                       *)
LEMMA AlarmInBound ==
  ASSUME DInv, Returned
  PROVE  alarm' \in 0 .. MaxTime
<1>1. /\ Clocks /\ Reported /\ pc = "returned"
      /\ MaxTime \in Nat /\ Tick \in Nat /\ Condition = 0 .. MaxTime
  BY DelayAssumption DEF DInv, Returned
<1>2. /\ ret.next \in Condition \cup {None}
      /\ ret.next # None => ret.next + Tick <= MaxTime
  BY <1>1 DEF Reported
<1>3. time \in 0 .. MaxTime /\ now \in Nat /\ now <= time /\ time < now + Tick
  BY <1>1, ClockLag DEF Clocks
<1>4. CASE ret.next = None
  BY <1>1, <1>4 DEF Returned, Clocks
<1>5. CASE ret.next # None
  <2>1. alarm' = time + delay(ret.next)
    BY <1>5 DEF Returned
  <2>2. PICK x \in 0 .. MaxTime : ret.next = x /\ x + Tick <= MaxTime
    BY <1>1, <1>2, <1>5
  <2>3. delay(x) = IF x > now THEN x - now ELSE 0
    BY DEF delay
  <2> QED BY <1>1, <1>3, <2>1, <2>2, <2>3
<1> QED BY <1>4, <1>5

(* Every step preserves the inductive invariant.                           *)
LEMMA DelayNextInv == DInv /\ [DelayNext]_delayVars => DInv'
<1> SUFFICES ASSUME DInv, [DelayNext]_delayVars PROVE DInv'
  OBVIOUS
<1>1. IInv /\ Clocks /\ Stamps /\ Room /\ Reported /\ Ties /\ MaxTime \in Nat
  BY DelayAssumption DEF DInv
<1>2. IInv'
  BY <1>1, StepsSchedule, NextInv
<1> SUFFICES Clocks' /\ Stamps' /\ Room' /\ Reported' /\ Ties'
  BY <1>2 DEF DInv
<1>3. ASSUME NEW d \in Delay, AwaitDelay(d)
      PROVE  Clocks' /\ Stamps' /\ Room' /\ Reported' /\ Ties'
  <2>1. Clocks'
    BY <1>1, <1>3, AwaitStamps DEF AwaitDelay, Clocks
  <2>2. Reported'
    BY <1>1, <1>3 DEF AwaitDelay, Await, Reported
  <2> QED BY <1>3, <2>1, <2>2, AwaitStamps
<1>4. CASE CallResume
  <2>1. Clocks'
    BY <1>1, <1>2, <1>4, ResumeStamps DEF CallResume, Clocks
  <2> QED BY <1>2, <1>4, <2>1, ResumeStamps, ReturnedCondition
<1>5. CASE Sample
  <2>1. now \in Nat /\ now <= time
    BY <1>1, ClockLag DEF Clocks
  <2>2. Clocks'
    BY <1>1, <1>5, <2>1 DEF Sample, Clocks
  <2> QED BY <1>1, <1>5, <2>2 DEF Sample, Stamps, Room, Reported, Ties
<1>6. CASE Advance
  BY <1>1, <1>6 DEF Advance, Clocks, Stamps, Room, Reported, Ties
<1>7. ASSUME NEW h \in Handle, Start(h) \/ Nest(h)
      PROVE  Clocks' /\ Stamps' /\ Room' /\ Reported' /\ Ties'
  BY <1>1, <1>7 DEF Start, Nest, Call, Clocks, Stamps, Room, Reported, Ties
<1>8. CASE Return
  BY <1>1, <1>8 DEF Return, CoReturn, Clocks, Stamps, Room, Reported, Ties
<1>9. CASE Returned
  <2>1. Clocks'
    BY <1>1, <1>9, AlarmInBound DEF Returned, Clocks
  <2> QED BY <1>1, <1>9, <2>1 DEF Returned, Stamps, Room, Reported, Ties
<1>10. CASE EnterLoop \/ Awake \/ Loop \/ Exited \/ UNCHANGED delayVars
  BY <1>1, <1>10 DEF EnterLoop, Awake, Loop, Exited, delayVars,
                     Clocks, Stamps, Room, Reported, Ties
<1> QED BY <1>3, <1>4, <1>5, <1>6, <1>7, <1>8, <1>9, <1>10
        DEF DelayNext, Body, Main

(* Whatever the coroutines await and however time passes, main's clock     *)
(* readings, the expiries and the time it sleeps until stay in range, as   *)
(* do the list and the result of resume().                                 *)
THEOREM DelayTypes == DelaySafety => []DelayTypeOK
<1>1. DInv => DelayTypeOK
  BY DEF DInv, IInv, Clocks, DelayTypeOK
<1> QED BY <1>1, DelayInitInv, DelayNextInv, PTL DEF DelaySafety

(* The loop on scheduler_delay is an ordered scheduler: what is true of    *)
(* every scheduler_ordered is true of it.                                  *)
THEOREM DelayImplementsOrdered == DelaySafety => Spec
<1>1. DelayInit => Init
  BY DEF DelayInit
<1>2. DInv /\ [DelayNext]_delayVars => [Next]_vars
  BY StepsSchedule DEF DInv
<1> QED BY <1>1, <1>2, DelayInitInv, DelayNextInv, PTL DEF DelaySafety, Spec

(* Coroutines with the same expiry are resumed in the order in which they  *)
(* awaited: one that is woken was already suspended when any other of the  *)
(* same expiry awaited, however many inserts and resumes came in between.  *)
THEOREM TiesInOrder == DelaySafety => FifoTies
<1>1. ASSUME DInv, [DelayNext]_delayVars,
             NEW i \in 1 .. Len(waiting), NEW j \in 1 .. Len(waiting),
             i # j, waiting[i].cond = waiting[j].cond, Woken(waiting[i].handle)
      PROVE  waiting[i].handle \in earlier[waiting[j].handle]
  <2>1. IInv /\ Clocks /\ Ties
    BY <1>1 DEF DInv
  <2>2. i = 1
    BY <1>1, <2>1, StepsSchedule, WakesOnlyByResume DEF Woken
  <2>3. i < j
    BY <1>1, <2>2
  <2> QED BY <1>1, <2>1, <2>3 DEF Ties
<1>2. ASSUME DInv, [DelayNext]_delayVars
      PROVE  [ \A i, j \in 1 .. Len(waiting) :
                 /\ i # j
                 /\ waiting[i].cond = waiting[j].cond
                 /\ Woken(waiting[i].handle)
                 => waiting[i].handle \in earlier[waiting[j].handle] ]_delayVars
  BY <1>1, <1>2
<1> QED BY <1>2, DelayInitInv, DelayNextInv, PTL DEF DelaySafety, FifoTies

(* A coroutine is never resumed a clock tick or more before the delay it   *)
(* asked for has passed, whatever the granularity of the clock and however *)
(* main's sample of it lags behind.                                        *)
THEOREM NoEarlyWake == DelaySafety => NeverATickEarly
<1>1. ASSUME DInv, [DelayNext]_delayVars, NEW h \in Handle, Woken(h)
      PROVE  time + Tick > due[h]
  <2>1. /\ TypeOK /\ Clocks /\ Stamps
        /\ status[h] = "suspended" /\ status'[h] = "running"
    BY <1>1 DEF DInv, IInv, Woken
  <2>2. PICK L \in Nat : Len(waiting) = L
    BY <2>1, LenProperties DEF TypeOK
  <2>3. ASSUME CallResume PROVE time + Tick > due[h]
    <3>1. ResumeDue(current)
      BY <2>1, <2>3 DEF CallResume, resume, ResumeIdle
    <3>2. PICK k \in 1 .. L : ResumedAt(k, current, L)
      BY <2>1, <2>2, <3>1, ResumeEntries
    <3>3. /\ status' = [status EXCEPT ![waiting[k].handle] = "running"]
          /\ ReadyToWake(waiting[k].cond, current)
      BY <3>2 DEF ResumedAt, DueFirst
    <3>4. waiting[k].handle = h
      BY <2>1, <3>3 DEF TypeOK
    <3>5. waiting[k].cond \in Condition /\ current \in Condition
      BY <2>1, <2>2, EntryFields, DelayAssumption DEF Clocks
    <3>6. current > waiting[k].cond
      BY <3>3, <3>5, DelayAssumption DEF DelayReady
    <3>7. due[h] < waiting[k].cond + Tick
      BY <2>1, <2>2, <3>4 DEF Stamps
    <3>8. /\ current \in Nat /\ time \in Nat /\ current <= time
          /\ Tick \in Nat /\ waiting[k].cond \in Nat /\ due[h] \in Nat
      BY <2>1, <3>5, DelayAssumption DEF Clocks
    <3> QED BY <3>6, <3>7, <3>8
  <2>4. ASSUME NEW d \in Delay, AwaitDelay(d) PROVE FALSE
    BY <2>1, <2>4 DEF AwaitDelay, Await, TypeOK
  <2>5. ASSUME NEW g \in Handle, Start(g) \/ Nest(g) PROVE FALSE
    BY <2>1, <2>5 DEF Start, Nest, Call, TypeOK
  <2>6. CASE Return
    BY <2>1, <2>6 DEF Return, CoReturn, TypeOK
  <2>7. CASE \/ Advance \/ EnterLoop \/ Sample \/ Returned \/ Awake \/ Loop
             \/ Exited \/ UNCHANGED delayVars
    BY <2>1, <2>7 DEF Advance, EnterLoop, Sample, Returned, Awake, Loop, Exited,
                      delayVars
  <2> QED BY <1>1, <2>3, <2>4, <2>5, <2>6, <2>7 DEF DelayNext, Body, Main
<1>2. ASSUME DInv, [DelayNext]_delayVars
      PROVE  [\A h \in Handle : Woken(h) => time + Tick > due[h]]_delayVars
  BY <1>1, <1>2
<1> QED BY <1>2, DelayInitInv, DelayNextInv, PTL DEF DelaySafety, NeverATickEarly
=============================================================================
