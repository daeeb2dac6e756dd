---------------------------- MODULE MCTimerLoop ----------------------------
(* TLC instances of TimerLoop: two nanoseconds to the tick, and two        *)
(* coroutines whose periods are an odd and an even number of them.         *)
EXTENDS TimerLoop

Times == 0 .. MaxTime * Tick

Periods == [h \in Handle |-> IF h = "t0" THEN 3 ELSE 4]
=============================================================================
