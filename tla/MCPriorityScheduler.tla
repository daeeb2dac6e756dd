------------------------ MODULE MCPriorityScheduler ------------------------
(* TLC instances of PriorityScheduler.                                     *)
EXTENDS PriorityScheduler
=============================================================================
