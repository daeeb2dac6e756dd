------------------------ MODULE MCUnorderedScheduler ------------------------
(* TLC instances of UnorderedScheduler: two schedulers, one of them with   *)
(* less room than there are coroutines.                                    *)
EXTENDS UnorderedScheduler

Room == [s \in Scheduler |-> IF s = "a" THEN 2 ELSE 3]
=============================================================================
