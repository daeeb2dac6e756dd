--------------------------- MODULE MCMachineTimer ---------------------------
(* TLC instances of MachineTimer: halves of a few values, so that the low  *)
(* half overflows within each step of the driver.                          *)
EXTENDS MachineTimer

(* An overdue expiry, one that is due now, and one that is still to come.  *)
Offsets == {-2, 0, 1}
=============================================================================
