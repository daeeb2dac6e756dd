------------------------- MODULE PriorityScheduler -------------------------
(***************************************************************************)
(* scheduler_priority, the ordered scheduler keyed by priority, with the   *)
(* priority awaitable and the main loop of test/test_priority_coro.cpp:    *)
(*                                                                         *)
(*   do { (void)coro_scheduler.resume(schedule_by_priority{ 0 });          *)
(*   } while (!task.done());                                               *)
(***************************************************************************)
EXTENDS OrderedScheduler, WakeCondition

CONSTANT Level  (* the priority main resumes with                          *)

ASSUME PriorityAssumption ==
  /\ Level \in Condition
  /\ Condition \subseteq Int
  /\ \A c \in Condition : c >= Level
  /\ \A a, b \in Condition : ReadyToWake(a, b) <=> PriorityReady(a, b)

VARIABLE looping  (* main is in its loop                                   *)

priorityVars == <<waiting, status, stack, ret, looping>>

PriorityInit == Init /\ looping = FALSE

AllDone == \A h \in Handle : status[h] \in {"absent", "done"}

(* main calls the coroutines before its loop ...                           *)
Start(h) ==
  /\ ~ looping
  /\ stack = <<>>
  /\ Call(h)
  /\ UNCHANGED looping

(* ... and a body may call others.                                         *)
Nest(h) ==
  /\ stack # <<>>
  /\ Call(h)
  /\ UNCHANGED looping

(* co_await scheduled_priority{ scheduler, p } always suspends.            *)
AwaitPriority(p) ==
  /\ Await(p)
  /\ UNCHANGED looping

Return(h) ==
  /\ stack # <<>>
  /\ Last(stack) = h
  /\ CoReturn
  /\ UNCHANGED looping

(* A slip: main resumes with a priority above the lowest in use.           *)
RoundTooHigh ==
  /\ ~ (looping /\ AllDone)
  /\ \E q \in Condition : q > Level /\ resume(q)
  /\ looping' = TRUE

(* One round of main's loop, which it begins with.                         *)
Round ==
  /\ ~ (looping /\ AllDone)
  /\ resume(Level)
  /\ looping' = TRUE

(* main has returned.                                                      *)
Exited ==
  /\ looping
  /\ stack = <<>>
  /\ AllDone
  /\ UNCHANGED priorityVars

Body == (\E p \in Condition : AwaitPriority(p)) \/ \E h \in Handle : Return(h)

PriorityNext ==
  \/ \E h \in Handle : Start(h) \/ Nest(h)
  \/ Body
  \/ Round
  \/ Exited

(* main goes round its loop, and a body awaits or returns at last.         *)
PrioritySpec ==
  /\ PriorityInit
  /\ [][PriorityNext]_priorityVars
  /\ WF_priorityVars(Body)
  /\ WF_priorityVars(Round)

(* In addition every coroutine comes to an end if it is resumed for ever,  *)
(* like the loop over run_count of test/test_priority_coro.cpp.            *)
EndingSpec == PrioritySpec /\ \A h \in Handle : SF_priorityVars(Return(h))

-----------------------------------------------------------------------------
(* If every coroutine that is resumed again and again comes to an end, all *)
(* of them do, but for those that a full list has dropped: no order of     *)
(* priorities makes one wait for ever.  So main's loop ends if it dropped  *)
(* none.                                                                   *)
EndsWithAllDone ==
  <>[](looping /\ \A h \in Handle : status[h] \in {"absent", "done"} \/ Lost(h))
=============================================================================
