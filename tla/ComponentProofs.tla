-------------------------- MODULE ComponentProofs --------------------------
(***************************************************************************)
(* Proofs about components that do not build on each other: the frames of  *)
(* TaskHeap for any coroutines and sizes, the driver of MachineTimer for   *)
(* halves of any size, the registers of CsrAccess for both widths, and the *)
(* main loop of PriorityScheduler.  They share no constant and no          *)
(* variable, so the assumptions of one say nothing about another.          *)
(***************************************************************************)
EXTENDS TaskHeap, MachineTimer, CsrAccess, PriorityScheduler,
        OrderedSchedulerProofs

(* TaskHeap.                                                               *)

(* All the frames are in the used part of the heap.                        *)
FramesBelow ==
  /\ \A t \in Task : HasFrame(t) => start[t] + FrameSize[t] <= index
  /\ index > 0 => index < HeapSize

(* The inductive invariant.                                                *)
HeapInv == HeapTypeOK /\ FramesBelow /\ FramesApart /\ FailureIsFinal

(* Before the first call there is no frame.                                *)
LEMMA HeapInitInv == HeapInit => HeapInv
BY HeapSizeAssumption, FrameSizeAssumption
   DEF HeapInit, HeapInv, HeapTypeOK, FramesBelow, FramesApart, FailureIsFinal, HasFrame

(* operator new puts the frame behind all others.                          *)
LEMMA AllocateInv ==
  ASSUME HeapInv, NEW t \in Task, state[t] = "absent", Allocate(t)
  PROVE  /\ index' \in 0 .. HeapSize /\ start' \in [Task -> 0 .. HeapSize]
         /\ state' \in [Task -> {"absent", "live", "ended", "failed"}]
         /\ FramesBelow' /\ FramesApart' /\ FailureIsFinal'
<1>1. HeapTypeOK /\ FramesBelow /\ FramesApart /\ FailureIsFinal
  BY DEF HeapInv
<1>2. HeapSize \in Nat /\ \A u \in Task : FrameSize[u] \in Nat /\ FrameSize[u] > 0
  BY HeapSizeAssumption, FrameSizeAssumption
<1>3. /\ index \in Nat /\ index + FrameSize[t] < HeapSize
      /\ index' = index + FrameSize[t] /\ start' = [start EXCEPT ![t] = index]
      /\ state' = [state EXCEPT ![t] = "live"]
      /\ \A u \in Task : start[u] \in Nat
  BY <1>1, <1>2 DEF Allocate, Fits, HeapTypeOK
<1>4. /\ index' \in 0 .. HeapSize /\ start' \in [Task -> 0 .. HeapSize]
      /\ state' \in [Task -> {"absent", "live", "ended", "failed"}]
  BY <1>1, <1>2, <1>3 DEF HeapTypeOK
<1>5. /\ start'[t] = index /\ state'[t] = "live"
      /\ \A u \in Task : u # t => start'[u] = start[u] /\ state'[u] = state[u]
  BY <1>1, <1>3 DEF HeapTypeOK
<1>6. \A u \in Task : HasFrame(u)' /\ u # t => start[u] + FrameSize[u] <= index
  BY <1>1, <1>5 DEF FramesBelow, HasFrame
<1>7. FramesBelow'
  BY <1>2, <1>3, <1>5, <1>6 DEF FramesBelow
<1>8. FramesApart'
  <2> SUFFICES ASSUME NEW u \in Task, HasFrame(u)'
               PROVE  /\ start'[u] + FrameSize[u] < HeapSize
                      /\ \A v \in Task : HasFrame(v)' /\ v # u =>
                           \/ start'[u] + FrameSize[u] <= start'[v]
                           \/ start'[v] + FrameSize[v] <= start'[u]
    BY DEF FramesApart
  <2>1. start'[u] + FrameSize[u] < HeapSize
    BY <1>1, <1>2, <1>3, <1>5 DEF FramesApart, HasFrame
  <2>2. ASSUME NEW v \in Task, HasFrame(v)', v # u
        PROVE  \/ start'[u] + FrameSize[u] <= start'[v]
               \/ start'[v] + FrameSize[v] <= start'[u]
    <3>1. CASE u = t
      BY <1>5, <1>6, <2>2, <3>1
    <3>2. CASE v = t
      BY <1>5, <1>6, <2>2, <3>2
    <3>3. CASE u # t /\ v # t
      BY <1>1, <1>5, <2>2, <3>3 DEF FramesApart, HasFrame
    <3> QED BY <3>1, <3>2, <3>3
  <2> QED BY <2>1, <2>2
<1>9. FailureIsFinal'
  BY <1>1, <1>2, <1>3, <1>5 DEF FailureIsFinal
<1> QED BY <1>4, <1>7, <1>8, <1>9

(* A failed call changes nothing but its own state.                        *)
LEMMA FailureInv ==
  ASSUME HeapInv, NEW t \in Task, state[t] = "absent", AllocationFailure(t)
  PROVE  /\ index' \in 0 .. HeapSize /\ start' \in [Task -> 0 .. HeapSize]
         /\ state' \in [Task -> {"absent", "live", "ended", "failed"}]
         /\ FramesBelow' /\ FramesApart' /\ FailureIsFinal'
<1>1. HeapTypeOK /\ FramesBelow /\ FramesApart /\ FailureIsFinal
  BY DEF HeapInv
<1>2. HeapSize \in Nat /\ FrameSize[t] \in Nat
  BY HeapSizeAssumption, FrameSizeAssumption
<1>3. /\ index' = index /\ start' = start
      /\ state' = [state EXCEPT ![t] = "failed"]
      /\ index + FrameSize[t] >= HeapSize
  BY <1>1, <1>2 DEF AllocationFailure, Fits, HeapTypeOK
<1>4. state'[t] = "failed" /\ \A u \in Task : u # t => state'[u] = state[u]
  BY <1>1, <1>3 DEF HeapTypeOK
<1>5. \A u \in Task : HasFrame(u)' => HasFrame(u)
  BY <1>4 DEF HasFrame
<1>6. FramesBelow' /\ FramesApart'
  BY <1>1, <1>3, <1>5 DEF FramesBelow, FramesApart
<1>7. FailureIsFinal'
  BY <1>1, <1>3, <1>4 DEF FailureIsFinal
<1> QED BY <1>1, <1>3, <1>6, <1>7 DEF HeapTypeOK

(* The end of a coroutine leaves its frame where it is.                    *)
LEMMA EndInv ==
  ASSUME HeapInv, NEW t \in Task, End(t)
  PROVE  HeapInv'
<1>1. HeapTypeOK /\ FramesBelow /\ FramesApart /\ FailureIsFinal
  BY DEF HeapInv
<1>2. /\ index' = index /\ start' = start /\ state[t] = "live"
      /\ state' = [state EXCEPT ![t] = "ended"]
      /\ done' = [done EXCEPT ![t] = TRUE]
      /\ UNCHANGED <<tasks, main>>
  BY DEF End, ReturnVoid, UnhandledException
<1>3. state'[t] = "ended" /\ \A u \in Task : u # t => state'[u] = state[u]
  BY <1>1, <1>2 DEF HeapTypeOK
<1>4. \A u \in Task : /\ HasFrame(u)' => HasFrame(u)
                      /\ state'[u] = "failed" => state[u] = "failed"
  BY <1>2, <1>3 DEF HasFrame
<1>5. FramesBelow' /\ FramesApart' /\ FailureIsFinal'
  BY <1>1, <1>2, <1>4 DEF FramesBelow, FramesApart, FailureIsFinal
<1>6. HeapTypeOK'
  BY <1>1, <1>2 DEF HeapTypeOK
<1> QED BY <1>5, <1>6 DEF HeapInv

(* Every step preserves the invariant.                                     *)
LEMMA HeapNextInv == HeapInv /\ [HeapNext]_heapVars => HeapInv'
<1> SUFFICES ASSUME HeapInv, [HeapNext]_heapVars PROVE HeapInv'
  OBVIOUS
<1>1. ASSUME NEW t \in Task, MainCalls(t) \/ BodyCalls(t) PROVE HeapInv'
  <2>1. /\ state[t] = "absent"
        /\ Allocate(t) \/ AllocationFailure(t)
        /\ done' = done /\ tasks' \in {tasks, tasks \cup {t}} /\ main' = main
    BY <1>1 DEF MainCalls, BodyCalls, Allocate, AllocationFailure
  <2>2. /\ index' \in 0 .. HeapSize /\ start' \in [Task -> 0 .. HeapSize]
        /\ state' \in [Task -> {"absent", "live", "ended", "failed"}]
        /\ FramesBelow' /\ FramesApart' /\ FailureIsFinal'
    BY <2>1, AllocateInv, FailureInv
  <2> QED BY <2>1, <2>2 DEF HeapInv, HeapTypeOK
<1>2. ASSUME NEW t \in Task, End(t) PROVE HeapInv'
  BY <1>2, EndInv
<1>3. CASE Wait \/ Finish \/ UNCHANGED heapVars
  BY <1>3 DEF Wait, Finish, heapVars, HeapInv, HeapTypeOK, FramesBelow, FramesApart,
              FailureIsFinal, HasFrame
<1> QED BY <1>1, <1>2, <1>3 DEF HeapNext

(* For any frame sizes and any order of calls and ends: no two frames that *)
(* operator new of the promise type handed out overlap, and all are in the *)
(* array.                                                                  *)
THEOREM FramesDisjoint == HeapSpec => [](HeapTypeOK /\ FramesApart)
<1>1. HeapInv => HeapTypeOK /\ FramesApart
  BY DEF HeapInv
<1> QED BY <1>1, HeapInitInv, HeapNextInv, PTL DEF HeapSpec

(* Whatever happens after it, a call for which the heap had no room would  *)
(* fail again, as operator delete gives nothing back.                      *)
THEOREM HeapNeverRecovers == HeapSpec => []FailureIsFinal
<1>1. HeapInv => FailureIsFinal
  BY DEF HeapInv
<1> QED BY <1>1, HeapInitInv, HeapNextInv, PTL DEF HeapSpec

-----------------------------------------------------------------------------
(* MachineTimer.                                                           *)

(* While the halves are read: the high half read is not ahead of mtime,    *)
(* and if mtimeh is still the same, what was read is a value of mtime      *)
(* since the call began.                                                   *)
Reading ==
  /\ NotLater(begunh, begunl, hi, lo)
  /\ pc \in {"low", "check"} => begunh <= h /\ h <= hi
  /\ (pc = "check" /\ h = hi) => l <= lo /\ NotLater(begunh, begunl, h, l)

(* While the halves are written the compare point is out of reach;         *)
(* otherwise it is the one that was asked for.                             *)
Writing ==
  /\ pc \in {"setlow", "sethigh"} =>
       cmph = Base - 1 /\ armedh = newh /\ armedl = newl
  /\ pc = "sethigh" => cmpl = newl
  /\ pc \notin {"setlow", "sethigh"} => cmph = armedh /\ cmpl = armedl

(* An overdue expiry is not before time zero.                              *)
Asking ==
  (pc # "idle" /\ arg # NoOffset) => begunh > 0 \/ begunl + arg >= 0

(* The inductive invariant.                                                *)
TimerInv == TimerTypeOK /\ Reading /\ Writing /\ Asking /\ CompareWhereAsked

(* Before the first call.                                                  *)
LEMMA TimerInitInv == TimerInit => TimerInv
<1> SUFFICES ASSUME TimerInit PROVE TimerInv
  OBVIOUS
<1>1. TimerTypeOK
  BY BaseAssumption, MaxHighAssumption DEF TimerInit, TimerTypeOK, Half
<1>2. Reading /\ Writing /\ Asking /\ CompareWhereAsked
  BY DEF TimerInit, Reading, Writing, Asking, CompareWhereAsked, NotLater
<1> QED BY <1>1, <1>2 DEF TimerInv

(* Every step of the counter and of the driver preserves the invariant.    *)
LEMMA TimerNextInv == TimerInv /\ [TimerNext]_timerVars => TimerInv'
<1> SUFFICES ASSUME TimerInv, [TimerNext]_timerVars PROVE TimerInv'
  OBVIOUS
<1>1. TimerTypeOK /\ Reading /\ Writing /\ Asking /\ CompareWhereAsked
  BY DEF TimerInv
<1>2. /\ Base \in Nat /\ Base >= 2 /\ MaxHigh \in Nat /\ MaxHigh < Base - 1
      /\ \A o \in Offset : o \in Int /\ -Base < o /\ o < Base /\ o # NoOffset
  BY BaseAssumption, MaxHighAssumption, OffsetAssumption
<1>3. CASE Count
  <2>1. TimerTypeOK'
    BY <1>1, <1>2, <1>3 DEF Count, TimerTypeOK, Half, history
  <2>2. Reading'
    BY <1>1, <1>2, <1>3 DEF Count, TimerTypeOK, Half, history, Reading, NotLater
  <2>3. Writing' /\ Asking'
    BY <1>1, <1>3 DEF Count, history, Writing, Asking
  <2>4. CompareWhereAsked'
    BY <1>1, <1>2, <1>3 DEF Count, TimerTypeOK, Half, history, CompareWhereAsked, NotLater
  <2> QED BY <2>1, <2>2, <2>3, <2>4 DEF TimerInv
<1>4. ASSUME NEW o \in Offset \cup {NoOffset}, Begin(o) PROVE TimerInv'
  <2>1. TimerTypeOK'
    BY <1>1, <1>4 DEF Begin, TimerTypeOK
  <2>2. Reading' /\ Writing' /\ Asking' /\ CompareWhereAsked'
    BY <1>1, <1>2, <1>4 DEF Begin, TimerTypeOK, Half, Reading, Writing, Asking,
                            CompareWhereAsked, NotLater
  <2> QED BY <2>1, <2>2 DEF TimerInv
<1>5. CASE ReadHigh
  <2>1. TimerTypeOK'
    BY <1>1, <1>5 DEF ReadHigh, TimerTypeOK, history
  <2>2. Reading' /\ Writing' /\ Asking' /\ CompareWhereAsked'
    BY <1>1, <1>2, <1>5 DEF ReadHigh, TimerTypeOK, Half, history, Reading, Writing,
                            Asking, CompareWhereAsked, NotLater
  <2> QED BY <2>1, <2>2 DEF TimerInv
<1>6. CASE ReadLow
  <2>1. TimerTypeOK'
    BY <1>1, <1>6 DEF ReadLow, TimerTypeOK, history
  <2>2. Reading' /\ Writing' /\ Asking' /\ CompareWhereAsked'
    BY <1>1, <1>2, <1>6 DEF ReadLow, TimerTypeOK, Half, history, Reading, Writing,
                            Asking, CompareWhereAsked, NotLater
  <2> QED BY <2>1, <2>2 DEF TimerInv
<1>7. CASE Retry
  <2>1. TimerTypeOK'
    BY <1>1, <1>7 DEF Retry, TimerTypeOK, history
  <2>2. Reading' /\ Writing' /\ Asking' /\ CompareWhereAsked'
    BY <1>1, <1>7 DEF Retry, history, Reading, Writing, Asking, CompareWhereAsked,
                            NotLater
  <2> QED BY <2>1, <2>2 DEF TimerInv
<1>8. CASE ReturnTime
  <2>1. TimerTypeOK'
    BY <1>1, <1>2, <1>8 DEF ReturnTime, TimerTypeOK, Half, ToInt, history
  <2>2. Reading' /\ Writing' /\ Asking' /\ CompareWhereAsked'
    BY <1>1, <1>8 DEF ReturnTime, history, Reading, Writing, Asking, CompareWhereAsked,
                            NotLater
  <2> QED BY <2>1, <2>2 DEF TimerInv
<1>9. CASE Compute
  <2>1. /\ arg \in Int /\ -Base < arg /\ arg < Base
        /\ l \in Nat /\ l < Base /\ h \in Nat /\ h <= MaxHigh
    BY <1>1, <1>2, <1>9 DEF Compute, TimerTypeOK, Half
  <2>2. /\ begunh \in Nat /\ begunl \in Nat /\ hi \in Nat /\ lo \in Nat
        /\ newh' = SumHigh(h, l, arg) /\ newl' = SumLow(l, arg)
    BY <1>1, <1>2, <1>9 DEF Compute, TimerTypeOK, Half
  <2>3. /\ newl' = IF l + arg >= Base THEN l + arg - Base
                   ELSE IF l + arg < 0 THEN l + arg + Base ELSE l + arg
        /\ newl' \in Half
    BY <1>2, <2>1, <2>2 DEF SumLow, Half
  <2>4. NotLater(begunh, begunl, h, l) /\ NotLater(h, l, hi, lo)
    BY <1>1, <1>9 DEF Compute, Consistent, Reading, NotLater
  <2>5. h > 0 \/ l + arg >= 0
    BY <1>1, <1>9, <2>1, <2>2, <2>4 DEF Asking, Compute, NotLater
  <2>6. /\ newh' = IF l + arg >= Base THEN h + 1 ELSE IF l + arg < 0 THEN h - 1 ELSE h
        /\ newh' \in Half
    BY <1>2, <2>1, <2>2, <2>5 DEF SumHigh, Half
  <2>7. TimerTypeOK'
    BY <1>1, <1>9, <2>3, <2>6 DEF Compute, TimerTypeOK, history
  <2>8. Reading' /\ Writing' /\ Asking'
    BY <1>1, <1>9 DEF Compute, history, Reading, Writing, Asking, NotLater
  <2>9. CompareWhereAsked'
    <3>1. arg >= 0 => NotLater(begunh, begunl, newh', newl')
      BY <1>2, <2>1, <2>2, <2>3, <2>4, <2>6 DEF NotLater
    <3>2. arg < 0 => NotLater(newh', newl', hi, lo)
      BY <1>2, <2>1, <2>2, <2>3, <2>4, <2>6 DEF NotLater
    <3> QED BY <1>9, <3>1, <3>2 DEF Compute, history, CompareWhereAsked, NotLater
  <2> QED BY <2>7, <2>8, <2>9 DEF TimerInv
<1>10. CASE Mask
  <2>1. TimerTypeOK'
    BY <1>1, <1>2, <1>10 DEF Mask, TimerTypeOK, Half
  <2>2. Reading' /\ Writing' /\ Asking' /\ CompareWhereAsked'
    BY <1>1, <1>10 DEF Mask, Reading, Writing, Asking, CompareWhereAsked,
                            NotLater
  <2> QED BY <2>1, <2>2 DEF TimerInv
<1>11. CASE SetLow
  <2>1. TimerTypeOK'
    BY <1>1, <1>11 DEF SetLow, TimerTypeOK, history
  <2>2. Reading' /\ Writing' /\ Asking' /\ CompareWhereAsked'
    BY <1>1, <1>11 DEF SetLow, history, Reading, Writing, Asking, CompareWhereAsked,
                            NotLater
  <2> QED BY <2>1, <2>2 DEF TimerInv
<1>12. CASE SetHigh
  <2>1. TimerTypeOK'
    BY <1>1, <1>12 DEF SetHigh, TimerTypeOK, history
  <2>2. Reading' /\ Writing' /\ Asking' /\ CompareWhereAsked'
    BY <1>1, <1>12 DEF SetHigh, history, Reading, Writing, Asking, CompareWhereAsked,
                            NotLater
  <2> QED BY <2>1, <2>2 DEF TimerInv
<1>13. CASE UNCHANGED timerVars
  BY <1>1, <1>13 DEF TimerInv, timerVars, history, TimerTypeOK, Reading, Writing, Asking,
                     CompareWhereAsked, NotLater
<1> QED BY <1>3, <1>4, <1>5, <1>6, <1>7, <1>8, <1>9, <1>10, <1>11, <1>12, <1>13
        DEF TimerNext, Driver

(* For halves of any size and wherever the counter moves between the       *)
(* accesses of the driver: the interrupt is raised when the compare point  *)
(* is reached and not before, and that point is where it was asked for.    *)
THEOREM InterruptOnTime ==
  TimerSpec => [](TimerTypeOK /\ CompareWhereAsked /\ NoSpuriousInterrupt /\ NoMissedInterrupt)
<1>1. ASSUME TimerInv
      PROVE  TimerTypeOK /\ CompareWhereAsked /\ NoSpuriousInterrupt /\ NoMissedInterrupt
  <2>1. TimerTypeOK /\ Writing /\ CompareWhereAsked
    BY <1>1 DEF TimerInv
  <2>2. hi <= MaxHigh /\ MaxHigh < Base - 1 /\ hi \in Nat /\ Base \in Nat /\ MaxHigh \in Nat
    BY <2>1, MaxHighAssumption, BaseAssumption DEF TimerTypeOK
  <2>3. NoSpuriousInterrupt
    BY <2>1, <2>2 DEF NoSpuriousInterrupt, mtip, NotLater, Writing
  <2>4. NoMissedInterrupt
    BY <2>1 DEF NoMissedInterrupt, mtip, NotLater, Writing
  <2> QED BY <2>1, <2>3, <2>4
<1> QED BY <1>1, TimerInitInv, TimerNextInv, PTL DEF TimerSpec

(* The loop of get_raw_time() never returns a value put together from two  *)
(* different moments, for halves of any size.                              *)
THEOREM ReadAtomic == TimerSpec => ReadNotTorn
<1>1. ASSUME TimerInv
      PROVE  [ ReturnTime \/ Compute =>
                 /\ NotLater(begunh, begunl, h, l)
                 /\ NotLater(h, l, hi, lo) ]_timerVars
  BY <1>1 DEF TimerInv, Reading, ReturnTime, Compute, Consistent, NotLater
<1> QED BY <1>1, TimerInitInv, TimerNextInv, PTL DEF TimerSpec, ReadNotTorn

-----------------------------------------------------------------------------
InRange == hi = 0 /\ 2 * lo < Base

(* While mtime fits into an int, the last reading is not ahead of it, nor  *)
(* of the beginning of a call that reads it again.                         *)
Steady ==
  InRange =>
    /\ ticks <= lo
    /\ pc \in {"high", "low", "check"} => ticks <= begunl

(* Time has passed by the end of a call: it is in range before each step   *)
(* that ends in range.                                                     *)
LEMMA RangeBefore ==
  ASSUME TimerInv, [TimerNext]_timerVars, InRange'
  PROVE  InRange /\ lo <= lo' /\ (lo' = lo \/ Count)
<1>1. hi \in Nat /\ lo \in Nat /\ Base \in Nat
  BY BaseAssumption DEF TimerInv, TimerTypeOK, Half
<1>2. CASE Count
  BY <1>1, <1>2 DEF Count, InRange
<1>3. CASE hi' = hi /\ lo' = lo
  BY <1>1, <1>3 DEF InRange
<1> QED BY <1>2, <1>3 DEF TimerNext, Driver, Begin, ReadHigh, ReadLow, Retry,
        ReturnTime, Compute, Mask, SetLow, SetHigh, timerVars

(* A reading in range is mtime at some time of the call.                   *)
LEMMA ReadingInRange ==
  ASSUME TimerInv, ReturnTime, InRange
  PROVE  ticks' = l /\ l <= lo /\ begunl <= l
<1>1. /\ hi \in Nat /\ lo \in Nat /\ h \in Nat /\ l \in Nat /\ Base \in Nat
      /\ begunh \in Nat /\ begunl \in Nat
  BY BaseAssumption DEF TimerInv, TimerTypeOK, Half
<1>2. h = 0 /\ l <= lo /\ NotLater(begunh, begunl, h, l)
  BY DEF TimerInv, Reading, ReturnTime, Consistent, InRange
<1>3. 2 * l < Base
  BY <1>1, <1>2 DEF InRange
<1> QED BY <1>1, <1>2, <1>3 DEF ReturnTime, ToInt, NotLater

(* Every step keeps the clock steady, and the readings in order.           *)
LEMMA StepSteady ==
  ASSUME TimerInv, Steady, [TimerNext]_timerVars
  PROVE  Steady' /\ (InRange' => ticks' >= ticks)
<1> SUFFICES ASSUME InRange'
             PROVE  /\ ticks' <= lo' /\ ticks' >= ticks
                    /\ pc' \in {"high", "low", "check"} => ticks' <= begunl'
  BY DEF Steady
<1>1. InRange /\ lo <= lo' /\ (lo' = lo \/ Count)
  BY RangeBefore
<1>2. ticks <= lo /\ (pc \in {"high", "low", "check"} => ticks <= begunl)
  BY <1>1 DEF Steady
<1>3. ticks \in Int /\ lo \in Nat /\ begunl \in Nat /\ l \in Nat
  BY BaseAssumption DEF TimerInv, TimerTypeOK, Half
<1>4. CASE Count
  BY <1>1, <1>2, <1>3, <1>4 DEF Count, history
<1>5. ASSUME NEW o \in Offset \cup {NoOffset}, Begin(o)
      PROVE  /\ ticks' <= lo' /\ ticks' >= ticks
             /\ pc' \in {"high", "low", "check"} => ticks' <= begunl'
  BY <1>2, <1>3, <1>5 DEF Begin
<1>6. CASE ReturnTime
  BY <1>1, <1>2, <1>3, <1>6, ReadingInRange DEF ReturnTime
<1>7. CASE ReadHigh \/ ReadLow \/ Retry
  BY <1>2, <1>3, <1>7 DEF ReadHigh, ReadLow, Retry, history
<1>8. CASE Compute \/ Mask \/ SetLow \/ SetHigh
  BY <1>2, <1>3, <1>8 DEF Compute, Mask, SetLow, SetHigh, history
<1>9. CASE UNCHANGED timerVars
  BY <1>2, <1>3, <1>9 DEF timerVars, history
<1> QED BY <1>4, <1>5, <1>6, <1>7, <1>8, <1>9 DEF TimerNext, Driver

(* mtimer_clock never goes back as long as mtime fits into an int, however *)
(* wide a half is and however often get_raw_time() reads again.            *)
THEOREM ClockSteady == TimerSpec => SteadyWithinRange
<1>1. TimerInit => Steady
  BY DEF TimerInit, Steady, InRange
<1>2. TimerInv /\ Steady /\ [TimerNext]_timerVars => Steady'
  BY StepSteady
<1>3. TimerInv /\ Steady /\ [TimerNext]_timerVars =>
        [hi' = 0 /\ 2 * lo' < Base => ticks' >= ticks]_timerVars
  BY StepSteady DEF InRange
<1> QED BY <1>1, <1>2, <1>3, TimerInitInv, TimerNextInv, PTL DEF TimerSpec, SteadyWithinRange

-----------------------------------------------------------------------------
(* CsrAccess.                                                              *)

(* The registers: every one that has methods which write is one that the   *)
(* hart lets be written, and the mask of a field lies within its extent    *)
(* and within the register.                                                *)
Privileges == {"URW", "SRW", "HRW", "MRW", "DRW"}

Types == {uint_xlen_t, uint_csr32_t, uint_csr64_t}

WellPlaced(f, datatype) ==
  /\ f.offset \in Nat /\ f.width \in Nat
  /\ f.mask \subseteq Extent(f)
  /\ f.mask \subseteq datatype

WellFormed(r) ==
  /\ r.writable => r.ops.writes /\ r.ops.priv \in Privileges
  /\ r.fields # {} => r.writable
  /\ r.ops.datatype \subseteq uint_xlen_t
  /\ uint_csr32_t \subseteq r.ops.datatype
  /\ \A f \in r.fields : WellPlaced(f, r.ops.datatype)

(* A register of 32 bits is no wider than one of XLEN bits.                *)
LEMMA TypesNested ==
  \A d \in Types : uint_csr32_t \subseteq d /\ d \subseteq uint_xlen_t
<1>1. XLEN \in Nat /\ XLEN >= 32
  BY XlenAssumption
<1>2. 0 .. 31 \subseteq 0 .. XLEN - 1
  BY <1>1
<1> QED BY <1>2 DEF Types, uint_csr32_t, uint_xlen_t, uint_csr64_t

(* A field with a mask of its own.                                         *)
LEMMA PlainField ==
  ASSUME NEW offset \in Nat, NEW width \in Nat, NEW mask, NEW d,
         mask \subseteq offset .. offset + width - 1, mask \subseteq d
  PROVE  WellPlaced(Field(offset, width, mask), d)
BY DEF WellPlaced, Field, Extent

(* A mask that is computed is the last bit of the field, or no bit when    *)
(* that is not in the register.                                            *)
LEMMA ComputedField ==
  ASSUME NEW offset \in Nat, NEW width \in Nat, width > 0
  PROVE  WellPlaced(Computed(offset, width), uint_xlen_t)
<1>1. Shl({0}, width - 1) \subseteq {width - 1}
  BY DEF Shl, uint_xlen_t
<1>2. Shl(Shl({0}, width - 1), offset) \subseteq {offset + width - 1}
  BY <1>1 DEF Shl, uint_xlen_t
<1>3. Shl(Shl({0}, width - 1), offset) \subseteq uint_xlen_t
  BY DEF Shl
<1>4. Shl(Shl({0}, width - 1), offset) \subseteq offset .. offset + width - 1
  BY <1>2
<1> QED BY <1>3, <1>4, PlainField DEF Computed

(* A register with fields.                                                 *)
LEMMA FieldsReg ==
  ASSUME NEW p \in Privileges, NEW d \in Types, NEW data,
         \A f \in DOMAIN data : WellPlaced(data[f], d)
  PROVE  WellFormed(fields_reg(AllOps(p, d), data))
BY TypesNested DEF WellFormed, fields_reg, AllOps

(* The registers with fields.                                              *)
LEMMA RegistersWithFields ==
  /\ WellFormed(fields_reg(mstatus_ops, mstatus_data))
  /\ WellFormed(fields_reg(mtvec_ops, mtvec_data))
  /\ WellFormed(fields_reg(mip_ops, mip_data))
  /\ WellFormed(fields_reg(mie_ops, mie_data))
  /\ WellFormed(fields_reg(mcountinhibit_ops, mcountinhibit_data))
  /\ WellFormed(fields_reg(mcounteren_ops, mcounteren_data))
  /\ WellFormed(fields_reg(mcause_ops, mcause_data))
  /\ WellFormed(fields_reg(scause_ops, scause_data))
  /\ WellFormed(fields_reg(sstatus_ops, sstatus_data))
  /\ WellFormed(fields_reg(stvec_ops, stvec_data))
  /\ WellFormed(fields_reg(sip_ops, sip_data))
  /\ WellFormed(fields_reg(sie_ops, sie_data))
  /\ WellFormed(fields_reg(ustatus_ops, ustatus_data))
  /\ WellFormed(fields_reg(uip_ops, uip_data))
  /\ WellFormed(fields_reg(uie_ops, uie_data))
  /\ WellFormed(fields_reg(ucause_ops, ucause_data))
  /\ WellFormed(fields_reg(utvec_ops, utvec_data))
<1>1. XLEN \in Nat /\ XLEN >= 32
  BY XlenAssumption
<1>2. /\ uint_xlen_t = 0 .. XLEN - 1 /\ uint_csr32_t = 0 .. 31
      /\ uint_xlen_t \in Types /\ uint_csr32_t \in Types
      /\ "MRW" \in Privileges /\ "SRW" \in Privileges /\ "URW" \in Privileges
  BY DEF uint_xlen_t, uint_csr32_t, Types, Privileges
<1>3. /\ WellPlaced(Computed(2, XLEN - 2), uint_xlen_t)
      /\ WellPlaced(Computed(16, XLEN - 15), uint_xlen_t)
      /\ WellPlaced(Computed(0, XLEN - 1), uint_xlen_t)
  BY <1>1, ComputedField
<1>4. WellPlaced(Field(XLEN - 1, 1, Shl({0}, XLEN - 1)), uint_xlen_t)
  <2>1. Shl({0}, XLEN - 1) \subseteq {XLEN - 1}
    BY <1>1 DEF Shl, uint_xlen_t
  <2>2. Shl({0}, XLEN - 1) \subseteq XLEN - 1 .. XLEN - 1 + 1 - 1
    BY <1>1, <2>1
  <2>3. Shl({0}, XLEN - 1) \subseteq uint_xlen_t
    BY DEF Shl
  <2> QED BY <1>1, <2>2, <2>3, PlainField
<1>5. \A b \in 0 .. 31 : WellPlaced(Field(b, 1, {b}), uint_xlen_t)
                         /\ WellPlaced(Field(b, 1, {b}), uint_csr32_t)
  BY <1>1, <1>2 DEF WellPlaced, Field, Extent
<1>6. /\ WellPlaced(Field(11, 2, {11, 12}), uint_xlen_t)
      /\ WellPlaced(Field(0, 2, {0, 1}), uint_xlen_t)
      /\ WellPlaced(Field(3, 29, 3 .. 31), uint_csr32_t)
  BY <1>1, <1>2 DEF WellPlaced, Field, Extent
<1>7. WellFormed(fields_reg(mstatus_ops, mstatus_data))
  <2>1. \A f \in DOMAIN mstatus_data : WellPlaced(mstatus_data[f], uint_xlen_t)
    BY <1>3, <1>4, <1>5, <1>6 DEF mstatus_data
  <2> QED BY <1>2, <2>1, FieldsReg DEF mstatus_ops
<1>8. WellFormed(fields_reg(mtvec_ops, mtvec_data))
  <2>1. \A f \in DOMAIN mtvec_data : WellPlaced(mtvec_data[f], uint_xlen_t)
    BY <1>3, <1>4, <1>5, <1>6 DEF mtvec_data
  <2> QED BY <1>2, <2>1, FieldsReg DEF mtvec_ops
<1>9. WellFormed(fields_reg(mip_ops, mip_data))
  <2>1. \A f \in DOMAIN mip_data : WellPlaced(mip_data[f], uint_xlen_t)
    BY <1>3, <1>4, <1>5, <1>6 DEF mip_data
  <2> QED BY <1>2, <2>1, FieldsReg DEF mip_ops
<1>10. WellFormed(fields_reg(mie_ops, mie_data))
  <2>1. \A f \in DOMAIN mie_data : WellPlaced(mie_data[f], uint_xlen_t)
    BY <1>3, <1>4, <1>5, <1>6 DEF mie_data
  <2> QED BY <1>2, <2>1, FieldsReg DEF mie_ops
<1>11. WellFormed(fields_reg(mcountinhibit_ops, mcountinhibit_data))
  <2>1. \A f \in DOMAIN mcountinhibit_data : WellPlaced(mcountinhibit_data[f], uint_csr32_t)
    BY <1>3, <1>4, <1>5, <1>6 DEF mcountinhibit_data
  <2> QED BY <1>2, <2>1, FieldsReg DEF mcountinhibit_ops
<1>12. WellFormed(fields_reg(mcounteren_ops, mcounteren_data))
  <2>1. \A f \in DOMAIN mcounteren_data : WellPlaced(mcounteren_data[f], uint_csr32_t)
    BY <1>3, <1>4, <1>5, <1>6 DEF mcounteren_data
  <2> QED BY <1>2, <2>1, FieldsReg DEF mcounteren_ops
<1>13. WellFormed(fields_reg(mcause_ops, mcause_data))
  <2>1. \A f \in DOMAIN mcause_data : WellPlaced(mcause_data[f], uint_xlen_t)
    BY <1>3, <1>4, <1>5, <1>6 DEF mcause_data
  <2> QED BY <1>2, <2>1, FieldsReg DEF mcause_ops
<1>14. WellFormed(fields_reg(scause_ops, scause_data))
  <2>1. \A f \in DOMAIN scause_data : WellPlaced(scause_data[f], uint_xlen_t)
    BY <1>3, <1>4, <1>5, <1>6 DEF scause_data
  <2> QED BY <1>2, <2>1, FieldsReg DEF scause_ops
<1>15. WellFormed(fields_reg(sstatus_ops, sstatus_data))
  <2>1. \A f \in DOMAIN sstatus_data : WellPlaced(sstatus_data[f], uint_xlen_t)
    BY <1>3, <1>4, <1>5, <1>6 DEF sstatus_data
  <2> QED BY <1>2, <2>1, FieldsReg DEF sstatus_ops
<1>16. WellFormed(fields_reg(stvec_ops, stvec_data))
  <2>1. \A f \in DOMAIN stvec_data : WellPlaced(stvec_data[f], uint_xlen_t)
    BY <1>3, <1>4, <1>5, <1>6 DEF stvec_data
  <2> QED BY <1>2, <2>1, FieldsReg DEF stvec_ops
<1>17. WellFormed(fields_reg(sip_ops, sip_data))
  <2>1. \A f \in DOMAIN sip_data : WellPlaced(sip_data[f], uint_xlen_t)
    BY <1>3, <1>4, <1>5, <1>6 DEF sip_data
  <2> QED BY <1>2, <2>1, FieldsReg DEF sip_ops
<1>18. WellFormed(fields_reg(sie_ops, sie_data))
  <2>1. \A f \in DOMAIN sie_data : WellPlaced(sie_data[f], uint_xlen_t)
    BY <1>3, <1>4, <1>5, <1>6 DEF sie_data
  <2> QED BY <1>2, <2>1, FieldsReg DEF sie_ops
<1>19. WellFormed(fields_reg(ustatus_ops, ustatus_data))
  <2>1. \A f \in DOMAIN ustatus_data : WellPlaced(ustatus_data[f], uint_xlen_t)
    BY <1>3, <1>4, <1>5, <1>6 DEF ustatus_data
  <2> QED BY <1>2, <2>1, FieldsReg DEF ustatus_ops
<1>20. WellFormed(fields_reg(uip_ops, uip_data))
  <2>1. \A f \in DOMAIN uip_data : WellPlaced(uip_data[f], uint_xlen_t)
    BY <1>3, <1>4, <1>5, <1>6 DEF uip_data
  <2> QED BY <1>2, <2>1, FieldsReg DEF uip_ops
<1>21. WellFormed(fields_reg(uie_ops, uie_data))
  <2>1. \A f \in DOMAIN uie_data : WellPlaced(uie_data[f], uint_xlen_t)
    BY <1>3, <1>4, <1>5, <1>6 DEF uie_data
  <2> QED BY <1>2, <2>1, FieldsReg DEF uie_ops
<1>22. WellFormed(fields_reg(ucause_ops, ucause_data))
  <2>1. \A f \in DOMAIN ucause_data : WellPlaced(ucause_data[f], uint_xlen_t)
    BY <1>3, <1>4, <1>5, <1>6 DEF ucause_data
  <2> QED BY <1>2, <2>1, FieldsReg DEF ucause_ops
<1>23. WellFormed(fields_reg(utvec_ops, utvec_data))
  <2>1. \A f \in DOMAIN utvec_data : WellPlaced(utvec_data[f], uint_xlen_t)
    BY <1>3, <1>4, <1>5, <1>6 DEF utvec_data
  <2> QED BY <1>2, <2>1, FieldsReg DEF utvec_ops
<1> QED BY <1>7, <1>8, <1>9, <1>10, <1>11, <1>12, <1>13, <1>14, <1>15, <1>16,
           <1>17, <1>18, <1>19, <1>20, <1>21, <1>22, <1>23

(* What riscv::csrs offers: no register of the other kinds is a member.    *)
LEMMA Registers ==
  ASSUME NEW c \in DOMAIN csrs
  PROVE  \/ \E p \in Privileges : \E d \in Types :
              csrs[c] = read_write_reg(AllOps(p, d))
         \/ \E p : \E d \in Types : csrs[c] = read_only_reg(ReadOps(p, d))
         \/ csrs[c] \in
              {fields_reg(mstatus_ops, mstatus_data),
               fields_reg(mtvec_ops, mtvec_data),
               fields_reg(mip_ops, mip_data), fields_reg(mie_ops, mie_data),
               fields_reg(mcountinhibit_ops, mcountinhibit_data),
               fields_reg(mcounteren_ops, mcounteren_data),
               fields_reg(mcause_ops, mcause_data),
               fields_reg(scause_ops, scause_data),
               fields_reg(sstatus_ops, sstatus_data),
               fields_reg(stvec_ops, stvec_data),
               fields_reg(sip_ops, sip_data), fields_reg(sie_ops, sie_data),
               fields_reg(ustatus_ops, ustatus_data),
               fields_reg(uip_ops, uip_data), fields_reg(uie_ops, uie_data),
               fields_reg(ucause_ops, ucause_data),
               fields_reg(utvec_ops, utvec_data)}
BY SMTT(60)
   DEF csrs, Privileges, Types,
       misa_ops, mstatush_ops, medeleg_ops, mideleg_ops, mcycle_ops,
       minstret_ops, mhpmcounter3_ops, mhpmevent3_ops, scounteren_ops,
       mscratch_ops, mepc_ops, mtval_ops, sscratch_ops, sepc_ops, sideleg_ops,
       sedeleg_ops, uscratch_ops, uepc_ops, utval_ops, fflags_ops, frm_ops,
       fcsr_ops, stval_ops, satp_ops, hstatus_ops, hedeleg_ops, hideleg_ops,
       hcounteren_ops, hgatp_ops, htimedelta_ops, htimedeltah_ops,
       vsstatus_ops, vsie_ops, vstvec_ops, vsscratch_ops, vsepc_ops,
       vscause_ops, vstval_ops, vsip_ops, vsatp_ops, mbase_ops, mbound_ops,
       mibase_ops, mibound_ops, mdbase_ops, mdbound_ops, pmpcfg0_ops,
       pmpcfg1_ops, pmpcfg2_ops, pmpcfg3_ops, pmpaddr0_ops, pmpaddr1_ops,
       pmpaddr15_ops, mhpmcounter4_ops, mhpmcounter31_ops, mcycleh_ops,
       minstreth_ops, mhpmcounter3h_ops, mhpmcounter4h_ops,
       mhpmcounter31h_ops, mhpmevent4_ops, mhpmevent31_ops, tselect_ops,
       tdata1_ops, tdata2_ops, tdata3_ops, dcsr_ops, dpc_ops, dscratch0_ops,
       dscratch1_ops, hie_ops, hgeie_ops, htval_ops, hip_ops, htinst_ops,
       mtinst_ops, mtval2_ops, mvendorid_ops, marchid_ops, mimpid_ops,
       mhartid_ops, cycle_ops, time_ops, instret_ops, hpmcounter3_ops,
       hpmcounter4_ops, hpmcounter31_ops, cycleh_ops, timeh_ops, instreth_ops,
       hpmcounter3h_ops, hpmcounter4h_ops, hpmcounter31h_ops, hgeip_ops

(* Every register is well formed.                                          *)
LEMMA RegistersWellFormed == \A c \in DOMAIN csrs : WellFormed(csrs[c])
<1> SUFFICES ASSUME NEW c \in DOMAIN csrs PROVE WellFormed(csrs[c])
  OBVIOUS
<1>1. ASSUME NEW p \in Privileges, NEW d \in Types
      PROVE  WellFormed(read_write_reg(AllOps(p, d)))
  BY TypesNested DEF WellFormed, read_write_reg, AllOps
<1>2. ASSUME NEW p, NEW d \in Types
      PROVE  WellFormed(read_only_reg(ReadOps(p, d)))
  BY TypesNested DEF WellFormed, read_only_reg, ReadOps
<1> QED BY <1>1, <1>2, Registers, RegistersWithFields

(* A write of a field that no interrupt came into stores on top of what it *)
(* has read.                                                               *)
Untouched == (writing # Idle /\ irqs = 0) => value = writing.org_value

(* The inductive invariant.                                                *)
CsrInv == CsrTypeOK /\ Untouched

(* A short immediate holds the operand it is chosen for.                   *)
LEMMA ConstExecutes ==
  ASSUME NEW insn, NEW old, NEW m
  PROVE  Const(insn, old, m) = Execute(insn, old, m)
BY DEF Const, ExecuteImm

(* set() and clr() of a field stay within the field and the register.      *)
LEMMA SetAndClr ==
  ASSUME NEW d, NEW f, WellPlaced(f, d), NEW old, old \subseteq d,
         NEW new \in {set(old, f), clr(old, f)}
  PROVE  new \subseteq d /\ Changed(old, new) \subseteq Extent(f)
<1>1. set(old, f) = old \cup f.mask /\ clr(old, f) = old \ f.mask
  BY ConstExecutes DEF set, clr, Execute
<1> QED BY <1>1 DEF WellPlaced, Changed

(* So does what write() of a field stores, compared with what it has read. *)
LEMMA NewValue ==
  ASSUME NEW d, NEW f, WellPlaced(f, d), NEW old, old \subseteq d, NEW v
  PROVE  /\ new_value(old, f, v) \subseteq d
         /\ Changed(old, new_value(old, f, v)) \subseteq Extent(f)
BY DEF WellPlaced, new_value, Changed

(* What one instruction leaves fits into the register.                     *)
LEMMA ExecuteFits ==
  ASSUME NEW d, NEW insn \in Insn, NEW m, m \subseteq d, NEW old, old \subseteq d
  PROVE  Execute(insn, old, m) \subseteq d
BY DEF Execute, Insn

(* The register looked at, as the accesses need it.                        *)
LEMMA RegWellFormed ==
  ASSUME csr \in Csr
  PROVE  WellFormed(Reg)
BY RegistersWellFormed, CsrAccessAssumption DEF Reg

(* Before the first access.                                                *)
LEMMA CsrInitInv == CsrInit => CsrInv
BY CsrAccessAssumption DEF CsrInit, CsrInv, CsrTypeOK, Untouched

(* Every access, and every interrupt between the two instructions of one,  *)
(* preserves the invariant.                                                *)
LEMMA CsrNextInv == CsrInv /\ [CsrNext]_csrVars => CsrInv'
<1> SUFFICES ASSUME CsrInv, [CsrNext]_csrVars PROVE CsrInv'
  OBVIOUS
<1>1. CsrTypeOK /\ Untouched /\ MaxIrq \in Nat
  BY CsrAccessAssumption DEF CsrInv
<1>2. \A f \in Reg.fields : WellPlaced(f, Reg.ops.datatype)
  BY <1>1, RegWellFormed DEF CsrTypeOK, WellFormed
<1>3. ASSUME NEW insn \in Insn, NEW m \in Operand, Modify(insn, m) \/ ModifyConst(insn, m)
      PROVE  CsrInv'
  <2>1. /\ value' = Execute(insn, value, m) /\ UNCHANGED <<csr, writing, irqs>>
        /\ writing = Idle /\ m \subseteq Reg.ops.datatype
    BY <1>3, ConstExecutes DEF Modify, ModifyConst
  <2>2. value' \subseteq Reg.ops.datatype
    BY <1>1, <2>1, ExecuteFits DEF CsrTypeOK
  <2> QED BY <1>1, <2>1, <2>2 DEF CsrInv, CsrTypeOK, Untouched, Reg
<1>4. ASSUME NEW f \in Reg.fields, SetField(f) \/ ClrField(f) PROVE CsrInv'
  <2>1. value' \subseteq Reg.ops.datatype
    BY <1>1, <1>2, <1>4, SetAndClr DEF SetField, ClrField, CsrTypeOK
  <2> QED BY <1>1, <1>4, <2>1 DEF SetField, ClrField, CsrInv, CsrTypeOK, Untouched, Reg
<1>5. ASSUME NEW f \in Reg.fields, Interrupt(f) PROVE CsrInv'
  <2>1. value' \subseteq Reg.ops.datatype
    BY <1>1, <1>2, <1>5, SetAndClr DEF Interrupt, CsrTypeOK
  <2>2. irqs' \in 0 .. MaxIrq /\ irqs' # 0
    BY <1>1, <1>5 DEF Interrupt, CsrTypeOK
  <2> QED BY <1>1, <1>5, <2>1, <2>2 DEF Interrupt, CsrInv, CsrTypeOK, Untouched, Reg
<1>6. ASSUME NEW f \in Reg.fields, NEW v \in FieldValue,
             v \subseteq 0 .. f.width - 1, WriteReads(f, v)
      PROVE  CsrInv'
  BY <1>1, <1>6 DEF WriteReads, CsrInv, CsrTypeOK, Untouched, Reg
<1>7. CASE WriteStores
  <2>1. value' \subseteq Reg.ops.datatype
    BY <1>1, <1>2, <1>7, NewValue DEF WriteStores, CsrTypeOK
  <2> QED BY <1>1, <1>7, <2>1 DEF WriteStores, CsrInv, CsrTypeOK, Untouched, Reg
<1>8. CASE Read \/ UNCHANGED csrVars
  BY <1>1, <1>8 DEF Read, csrVars, CsrInv, CsrTypeOK, Untouched, Reg
<1> QED BY <1>3, <1>4, <1>5, <1>6, <1>7, <1>8 DEF CsrNext

(* For 32 and 64 bit harts, whichever register is accessed and with        *)
(* whichever operands of its type: what is stored fits into the register.  *)
THEOREM RegisterTypes == CsrSpec => []CsrTypeOK
<1>1. CsrInv => CsrTypeOK
  BY DEF CsrInv
<1> QED BY <1>1, CsrInitInv, CsrNextInv, PTL DEF CsrSpec

(* No method of any register of riscv::csrs writes one that is read only.  *)
THEOREM NoWriteTraps == CsrSpec => ReadOnlyKept
<1>1. ASSUME CsrInv, [CsrNext]_csrVars
      PROVE  [ value' # value => Reg.ops.writes /\ Reg.ops.priv \in Privileges ]_csrVars
  <2>1. WellFormed(Reg)
    BY <1>1, RegWellFormed DEF CsrInv, CsrTypeOK
  <2>2. SUFFICES ASSUME value' # value PROVE Reg.writable
    BY <2>1 DEF WellFormed
  <2>3. Reg.writable \/ \E f : f \in Reg.fields
    BY <1>1, <2>2 DEF CsrNext, Modify, ModifyConst, SetField, ClrField, Interrupt,
                      WriteReads, WriteStores, Read, csrVars, CsrInv, CsrTypeOK
  <2> QED BY <2>1, <2>3 DEF WellFormed
<1> QED BY <1>1, CsrInitInv, CsrNextInv, PTL DEF CsrSpec, ReadOnlyKept, Privileges

(* No access to a field of any register changes a bit of another field,    *)
(* but for what write() takes back of an interrupt handler's changes.      *)
THEOREM FieldsIndependent == CsrSpec => OthersKept
<1> DEFINE A ==
      /\ \A f \in Reg.fields :
           SetField(f) \/ ClrField(f) => Changed(value, value') \subseteq Extent(f)
      /\ WriteStores =>
           /\ Changed(writing.org_value, value') \subseteq Extent(writing.field)
           /\ irqs = 0 => Changed(value, value') \subseteq Extent(writing.field)
<1>1. ASSUME CsrInv PROVE A
  <2>1. \A f \in Reg.fields : WellPlaced(f, Reg.ops.datatype)
    BY <1>1, RegWellFormed DEF CsrInv, CsrTypeOK, WellFormed
  <2>2. value \subseteq Reg.ops.datatype
    BY <1>1 DEF CsrInv, CsrTypeOK
  <2>3. ASSUME NEW f \in Reg.fields, SetField(f) \/ ClrField(f)
        PROVE  Changed(value, value') \subseteq Extent(f)
    BY <2>1, <2>2, <2>3, SetAndClr DEF SetField, ClrField
  <2>4. ASSUME WriteStores
        PROVE  Changed(writing.org_value, value') \subseteq Extent(writing.field)
    BY <1>1, <2>1, <2>4, NewValue DEF WriteStores, CsrInv, CsrTypeOK
  <2>5. WriteStores /\ irqs = 0 => value = writing.org_value
    BY <1>1 DEF WriteStores, CsrInv, Untouched
  <2> QED BY <2>3, <2>4, <2>5
<1>2. CsrInv => [A]_csrVars
  BY <1>1
<1> QED BY <1>2, CsrInitInv, CsrNextInv, PTL DEF CsrSpec, OthersKept

(* write_const, set_const, clr_const and their reading variants do what    *)
(* the methods for a value that is not constant do, for every operand of   *)
(* the register's type.                                                    *)
THEOREM ConstantsExact == CsrSpec => ConstAsRegister
<1> DEFINE A ==
      \A insn \in Insn, m \in Operand :
        ModifyConst(insn, m) => value' = Execute(insn, value, m)
<1>1. [A]_csrVars
  BY ConstExecutes DEF ModifyConst
<1> QED BY <1>1, PTL DEF ConstAsRegister

(* Where the mask of a field covers the whole of it, a field holds what    *)
(* was written to it: only the computed masks, of which FieldReadsBack has *)
(* an example, stand against that.                                         *)
THEOREM WholeFieldsReadBack ==
  CsrSpec => [][ WriteStores /\ writing.field.mask = Extent(writing.field) =>
                   read(value', writing.field) = writing.v ]_csrVars
<1> DEFINE A ==
      WriteStores /\ writing.field.mask = Extent(writing.field) =>
        read(value', writing.field) = writing.v
<1>1. ASSUME CsrInv, WriteStores, writing.field.mask = Extent(writing.field)
      PROVE  read(value', writing.field) = writing.v
  <2> DEFINE f == writing.field
             v == writing.v
             org == writing.org_value
  <2>1. WellPlaced(f, Reg.ops.datatype) /\ Reg.ops.datatype \subseteq uint_xlen_t
    BY <1>1, RegWellFormed DEF CsrInv, CsrTypeOK, WriteStores, WellFormed
  <2>2. v \subseteq 0 .. f.width - 1
    BY <1>1 DEF CsrInv, CsrTypeOK, WriteStores
  <2>3. /\ f.offset \in Nat /\ f.width \in Nat
        /\ f.mask = f.offset .. f.offset + f.width - 1
        /\ f.mask \subseteq 0 .. XLEN - 1
    BY <1>1, <2>1 DEF WellPlaced, Extent, uint_xlen_t
  <2>4. value' = (org \ f.mask) \cup (Shl(v, f.offset) \cap f.mask)
    BY <1>1 DEF WriteStores, new_value
  <2> HIDE DEF f, v, org
  <2>5. value' \cap f.mask = Shl(v, f.offset) \cap f.mask
    BY <2>4
  <2>6. XLEN \in Nat
    BY XlenAssumption
  <2>7. ASSUME NEW b PROVE b \in read(value', f) <=> b \in v
    <3>1. b \in read(value', f) <=>
            /\ b \in 0 .. XLEN - 1 /\ b + f.offset \in f.mask
            /\ b + f.offset \in 0 .. XLEN - 1 /\ b + f.offset - f.offset \in v
      <4>1. b \in read(value', f) <=>
              b \in 0 .. XLEN - 1 /\ b + f.offset \in Shl(v, f.offset) \cap f.mask
        BY <2>5 DEF read, Shr, uint_xlen_t
      <4> QED BY <2>3, <2>6, <4>1 DEF Shl, uint_xlen_t
    <3>2. b \in v => b \in 0 .. XLEN - 1 /\ b + f.offset \in f.mask
                     /\ b + f.offset - f.offset = b /\ b + f.offset \in 0 .. XLEN - 1
      BY <2>2, <2>3, <2>6
    <3>3. b \in 0 .. XLEN - 1 => b + f.offset - f.offset = b
      BY <2>3, <2>6
    <3> QED BY <3>1, <3>2, <3>3
  <2>8. read(value', f) = v
    BY <2>7
  <2> QED BY <2>8 DEF f, v
<1>2. CsrInv => [A]_csrVars
  BY <1>1
<1> QED BY <1>2, CsrInitInv, CsrNextInv, PTL DEF CsrSpec

-----------------------------------------------------------------------------
(* PriorityScheduler.                                                      *)

(* The loop on scheduler_priority uses an ordered scheduler: what is true  *)
(* of every scheduler_ordered is true of it.                               *)
THEOREM PriorityImplementsOrdered == PrioritySpec => Spec
<1>1. PriorityInit => Init
  BY DEF PriorityInit
<1>2. ASSUME [PriorityNext]_priorityVars PROVE [Next]_vars
  <2>1. ASSUME NEW t \in Handle, Start(t) \/ Nest(t) PROVE Next
    BY <2>1 DEF Start, Nest, Next
  <2>2. ASSUME NEW p \in Condition, AwaitPriority(p) PROVE Next
    BY <2>2 DEF AwaitPriority, Next
  <2>3. ASSUME NEW t \in Handle, Return(t) PROVE Next
    BY <2>3 DEF Return, Next
  <2>4. CASE Round
    BY <2>4, PriorityAssumption DEF Round, Next
  <2>5. CASE Exited \/ UNCHANGED priorityVars
    BY <2>5 DEF Exited, priorityVars, vars
  <2> QED BY <1>2, <2>1, <2>2, <2>3, <2>4, <2>5 DEF PriorityNext, Body
<1> QED BY <1>1, <1>2, PTL DEF PrioritySpec, Spec

(* So, whatever priorities its coroutines await with: its list is sorted   *)
(* and holds each frame once, a coroutine gets lost only by awaiting while *)
(* the list is full, and none is resumed before a more urgent one.         *)
THEOREM PriorityKeepsOrder ==
  PrioritySpec => /\ [](WaitingSorted /\ SoleOwner)
                  /\ LostOnlyWhenFull /\ ResumesMostUrgent /\ RunGivesNoNextWake
BY PriorityImplementsOrdered, SchedulerInvariant, OnlyFullLoses, MostUrgentFirst,
   NoNextWakeAfterRun, PTL

(* No round of main's loop is idle while a coroutine waits: it resumes one *)
(* of the highest priority of all.                                         *)
THEOREM RoundRunsHighest ==
  PrioritySpec =>
    [][ Round /\ waiting # <<>> =>
          \E k \in 1 .. Len(waiting) :
            /\ status'[waiting[k].handle] = "running"
            /\ \A j \in 1 .. Len(waiting) : waiting[k].cond >= waiting[j].cond
      ]_priorityVars
<1> DEFINE A ==
      Round /\ waiting # <<>> =>
        \E k \in 1 .. Len(waiting) :
          /\ status'[waiting[k].handle] = "running"
          /\ \A j \in 1 .. Len(waiting) : waiting[k].cond >= waiting[j].cond
<1>1. ASSUME IInv PROVE A
  <2> SUFFICES ASSUME Round, waiting # <<>>
               PROVE  \E k \in 1 .. Len(waiting) :
                        /\ status'[waiting[k].handle] = "running"
                        /\ \A j \in 1 .. Len(waiting) : waiting[k].cond >= waiting[j].cond
    OBVIOUS
  <2>1. TypeOK /\ WaitingSorted
    BY <1>1 DEF IInv
  <2>2. PICK L \in Nat : Len(waiting) = L
    BY <2>1, LenProperties DEF TypeOK
  <2>3. L >= 1
    BY <2>1, <2>2, EmptySeq DEF TypeOK
  <2>4. \A j \in 1 .. L : /\ waiting[j].cond \in Condition /\ waiting[j].cond \in Int
                          /\ waiting[j].handle \in Handle
    BY <2>1, <2>2, EntryFields, PriorityAssumption
  <2>5. ReadyToWake(waiting[1].cond, Level) /\ Level \in Condition
    BY <2>3, <2>4, PriorityAssumption DEF PriorityReady
  <2>6. ResumeDue(Level)
    BY <2>2, <2>3, <2>5 DEF Round, resume, ResumeIdle, NoneDue
  <2>7. PICK k \in 1 .. L : ResumedAt(k, Level, L)
    BY <2>1, <2>2, <2>6, ResumeEntries
  <2>8. k = 1
    BY <1>1, <2>2, <2>5, <2>7, FirstIsDue DEF ResumedAt
  <2>9. status'[waiting[1].handle] = "running"
    BY <2>1, <2>3, <2>4, <2>7, <2>8 DEF ResumedAt, TypeOK
  <2>10. ASSUME NEW j \in 1 .. L PROVE waiting[1].cond >= waiting[j].cond
    <3>1. CASE j = 1
      BY <2>4, <3>1
    <3>2. CASE j # 1
      <4>1. NotAfter(waiting[1].cond, waiting[j].cond)
        BY <2>1, <2>2, <2>3, <3>2 DEF WaitingSorted
      <4> QED BY <2>3, <2>4, <4>1, PriorityAssumption DEF NotAfter, PriorityReady
    <3> QED BY <3>1, <3>2
  <2> QED BY <2>2, <2>3, <2>9, <2>10
<1>2. IInv => [A]_priorityVars
  BY <1>1
<1>3. Spec => []IInv
  BY InitInv, NextInv, PTL DEF Spec
<1> QED BY <1>2, <1>3, PriorityImplementsOrdered, PTL
=============================================================================
