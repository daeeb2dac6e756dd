--------------------------- MODULE WakeCondition ---------------------------
(***************************************************************************)
(* The two WAKE_CONDITION_T classes of include/coro/scheduler.hpp.  Both   *)
(* are one number: expires_ of schedule_by_delay (a point in time) and     *)
(* priority_ of schedule_by_priority.  A scheduler only ever calls their   *)
(* ready_to_wake: "is this (waiting) condition ready in the current one".  *)
(***************************************************************************)
EXTENDS Integers

(* schedule_by_delay::ready_to_wake: the current time is past expires_.    *)
DelayReady(expires, current) == current > expires

(* schedule_by_priority::ready_to_wake: at least the current priority.     *)
PriorityReady(priority, current) == priority >= current
=============================================================================
