---------------------------- MODULE MCIrqExample ----------------------------
(* The TLC instance of IrqExample: the program as it is.                   *)
EXTENDS IrqExample

Schedulers == Contexts \cup {"main_thread"}

Room == [s \in Schedulers |-> IF s = "main_thread" THEN 3 ELSE 1]
=============================================================================
