--------------------------- MODULE DelayScheduler ---------------------------
(***************************************************************************)
(* scheduler_delay<CLOCK_T>, the ordered scheduler keyed by expiry time,   *)
(* with the clock, the timer awaitable and a main program that drives it:  *)
(* the loop of test/test_timer_coro.cpp,                                   *)
(*                                                                         *)
(*   do { schedule_by_delay<test_clock> now;                               *)
(*        auto [pending, next_wake] = coro_scheduler.resume(now);          *)
(*        if (next_wake) { sleep_for(next_wake->delay()); }                *)
(*   } while (!all tasks done);                                            *)
(*                                                                         *)
(* time is real time, in units finer than the clock's: CLOCK_T::now()      *)
(* moves in steps of Tick (mtimer_clock converts whole mtime ticks to      *)
(* nanoseconds).  Time passes between any two steps of the program.        *)
(***************************************************************************)
EXTENDS OrderedScheduler, WakeCondition

CONSTANTS
  Tick,     (* real time between two values of CLOCK_T::now()              *)
  Delay,    (* the delays coroutines await; await_ready() skips zero       *)
  MaxTime   (* bound: the real time the model runs to                      *)

ASSUME DelayAssumption ==
  /\ Tick \in Nat \ {0}
  /\ Delay \subseteq Nat \ {0}
  /\ MaxTime \in Nat
  /\ Condition = 0 .. MaxTime
  /\ \A a, b \in Condition : ReadyToWake(a, b) <=> DelayReady(a, b)

VARIABLES
  time,     (* real time                                                   *)
  pc,       (* where main is                                               *)
  current,  (* main's schedule_by_delay object now                         *)
  alarm,    (* the real time at which sleep_for() ends                     *)
  due,      (* history: the real time each coroutine last asked to wake at *)
  earlier   (* history: for each coroutine that is suspended, those that   *)
            (* were suspended when it awaited and have been since          *)

delayVars == <<waiting, status, stack, ret, time, pc, current, alarm, due, earlier>>

DelayInit ==
  /\ Init
  /\ time = 0
  /\ pc = "start"
  /\ current = 0
  /\ alarm = 0
  /\ due = [h \in Handle |-> 0]
  /\ earlier = [h \in Handle |-> {}]

-----------------------------------------------------------------------------
(* CLOCK_T::now().                                                         *)
now == time - (time % Tick)

(* A slip: the point in time is taken for the time that is left.           *)
delayAbsolute(expires) == expires

(* next_wake->delay(): what is left of the time until it expires.          *)
delay(expires) == IF expires > now THEN expires - now ELSE 0

(* The coroutines that wait, and the lost ones.                            *)
Suspended == {h \in Handle : status[h] = "suspended"}

(* Real time passes.                                                       *)
Advance ==
  /\ time < MaxTime
  /\ time' = time + 1
  /\ UNCHANGED <<waiting, status, stack, ret, pc, current, alarm, due, earlier>>

(* main calls the coroutines, before its loop ...                          *)
Start(h) ==
  /\ pc = "start"
  /\ stack = <<>>
  /\ Call(h)
  /\ UNCHANGED <<time, pc, current, alarm, due, earlier>>

(* ... and a body may call others.                                         *)
Nest(h) ==
  /\ stack # <<>>
  /\ Call(h)
  /\ UNCHANGED <<time, pc, current, alarm, due, earlier>>

(* A slip: the expiry is the delay alone, not an absolute time.            *)
AwaitDelayRelative(d) ==
  /\ now + d + Tick <= MaxTime
  /\ Await(d)
  /\ due' = [due EXCEPT ![Last(stack)] = time + d]
  /\ earlier' = [earlier EXCEPT ![Last(stack)] = Suspended]
  /\ UNCHANGED <<time, pc, current, alarm>>

(* A body awaits the delay d: make_condition() adds it to now().  The      *)
(* bound leaves the clock room to get past the expiry.                     *)
AwaitDelay(d) ==
  /\ now + d + Tick <= MaxTime
  /\ Await(now + d)
  /\ due' = [due EXCEPT ![Last(stack)] = time + d]
  /\ earlier' = [earlier EXCEPT ![Last(stack)] = Suspended]
  /\ UNCHANGED <<time, pc, current, alarm>>

Return ==
  /\ CoReturn
  /\ UNCHANGED <<time, pc, current, alarm, due, earlier>>

EnterLoop ==
  /\ pc = "start"
  /\ stack = <<>>
  /\ pc' = "sample"
  /\ UNCHANGED <<waiting, status, stack, ret, time, current, alarm, due, earlier>>

(* schedule_by_delay<test_clock> now;                                      *)
Sample ==
  /\ pc = "sample"
  /\ current' = now
  /\ pc' = "resume"
  /\ UNCHANGED <<waiting, status, stack, ret, time, alarm, due, earlier>>

(* coro_scheduler.resume(now), up to the handle's body, which runs next.   *)
CallResume ==
  /\ pc = "resume"
  /\ resume(current)
  /\ pc' = "returned"
  /\ earlier' = [h \in Handle |->
                  IF h \in Suspended' THEN earlier[h] \cap Suspended' ELSE {}]
  /\ UNCHANGED <<time, current, alarm, due>>

(* resume() has returned: sleep_for(next_wake->delay()) if there is one.   *)
Returned ==
  /\ pc = "returned"
  /\ stack = <<>>
  /\ IF ret.next = None
     THEN pc' = "test" /\ UNCHANGED alarm
     ELSE pc' = "asleep" /\ alarm' = time + delay(ret.next)
  /\ UNCHANGED <<waiting, status, stack, ret, time, current, due, earlier>>

Awake ==
  /\ pc = "asleep"
  /\ time >= alarm
  /\ pc' = "test"
  /\ UNCHANGED <<waiting, status, stack, ret, time, current, alarm, due, earlier>>

AllDone == \A h \in Handle : status[h] \in {"absent", "done"}

(* A slip: the time is sampled once, before the loop.                      *)
LoopStale ==
  /\ pc = "test"
  /\ pc' = IF AllDone THEN "exit" ELSE "resume"
  /\ UNCHANGED <<waiting, status, stack, ret, time, current, alarm, due, earlier>>

(* A slip: the loop leaves when the scheduler had nothing to wait for.     *)
LoopLeaves ==
  /\ pc = "test"
  /\ pc' = IF AllDone \/ ret.next = None THEN "exit" ELSE "sample"
  /\ UNCHANGED <<waiting, status, stack, ret, time, current, alarm, due, earlier>>

(* while (!(task1.done() && ...))                                          *)
Loop ==
  /\ pc = "test"
  /\ pc' = IF AllDone THEN "exit" ELSE "sample"
  /\ UNCHANGED <<waiting, status, stack, ret, time, current, alarm, due, earlier>>

(* main has returned.                                                      *)
Exited ==
  /\ pc = "exit"
  /\ UNCHANGED delayVars

Body == (\E d \in Delay : AwaitDelay(d)) \/ Return

Main == EnterLoop \/ Sample \/ CallResume \/ Returned \/ Awake \/ Loop

DelayNext ==
  \/ Advance
  \/ \E h \in Handle : Start(h) \/ Nest(h)
  \/ Body
  \/ Main
  \/ Exited

(* One thread runs main and the bodies, and nothing else can stop it: main *)
(* goes on while it is not asleep.  A body does not compute for ever: it   *)
(* awaits or returns at last.  The clock does not stop.                    *)
Fairness ==
  /\ WF_delayVars(Advance)
  /\ WF_delayVars(Body)
  /\ WF_delayVars(Main)

DelaySafety == DelayInit /\ [][DelayNext]_delayVars

DelaySpec == DelaySafety /\ Fairness

-----------------------------------------------------------------------------
DelayTypeOK ==
  /\ TypeOK
  /\ time \in 0 .. MaxTime
  /\ pc \in {"start", "sample", "resume", "returned", "asleep", "test", "exit"}
  /\ current \in 0 .. MaxTime
  /\ alarm \in 0 .. MaxTime
  /\ due \in [Handle -> 0 .. MaxTime]
  /\ earlier \in [Handle -> SUBSET Handle]

Woken(h) == status[h] = "suspended" /\ status'[h] = "running"

(* A coroutine is never resumed a clock tick or more before the delay it   *)
(* awaited is over, although expiry and wake up are both judged by a clock *)
(* that lags behind, and against a time sampled earlier.                   *)
NeverATickEarly ==
  [][ \A h \in Handle : Woken(h) => time + Tick > due[h] ]_delayVars

(* Coroutines that expire at the same time are resumed in the order in     *)
(* which they awaited, whatever else was inserted and resumed in between.  *)
FifoTies ==
  [][ \A i, j \in 1 .. Len(waiting) :
        /\ i # j
        /\ waiting[i].cond = waiting[j].cond
        /\ Woken(waiting[i].handle)
        => waiting[i].handle \in earlier[waiting[j].handle] ]_delayVars

(* Every coroutine that awaits a delay is resumed some time.               *)
EveryoneWakes ==
  \A h \in Handle : status[h] = "suspended" ~> status[h] = "running"

(* When all coroutines come to an end, so does the main loop, having left  *)
(* none of them suspended.                                                 *)
MainExits == <>(pc = "exit" /\ AllDone)

(* "Keep track of the soonest scheduled co-routine." (scheduler.hpp): the  *)
(* condition resume() returns beside pending is the first to expire.       *)
NextWakeIsSoonest ==
  (ret # None /\ ret.next # None /\ stack = <<>>) =>
    \A i \in 1 .. Len(waiting) : ret.next <= waiting[i].cond
=============================================================================
