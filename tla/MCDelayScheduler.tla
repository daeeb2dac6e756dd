-------------------------- MODULE MCDelayScheduler --------------------------
(* TLC instances of DelayScheduler: a clock that moves every two or three  *)
(* units of time, and delays shorter and longer than that.                 *)
EXTENDS DelayScheduler

Times == 0 .. MaxTime
=============================================================================
