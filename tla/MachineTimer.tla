---------------------------- MODULE MachineTimer ----------------------------
(***************************************************************************)
(* driver::timer of include/riscv/timer.hpp on a 32 bit hart, where mtime  *)
(* and mtimecmp are accessed one half at a time while the counter runs,    *)
(* and the clock mtimer_clock that is built on it.                         *)
(*                                                                         *)
(* A 64 bit value is a pair of halves, each below Base (2^32 in the code). *)
(* int has as many values as a half.                                       *)
(***************************************************************************)
EXTENDS Integers

CONSTANTS
  Base,     (* the number of values of a half                              *)
  MaxHigh,  (* bound: the counter stops before its high half exceeds this  *)
  Offset,   (* the offsets that set_time_cmp is called with, in ticks      *)
  NoOffset  (* the argument of a call that only reads the time             *)

ASSUME BaseAssumption == Base \in Nat /\ Base >= 2

(* "The time range of the 64 bit timer is large enough not to consider a   *)
(* wrap around of mtime": its high half never gets to the largest value.   *)
ASSUME MaxHighAssumption == MaxHigh \in Nat /\ MaxHigh < Base - 1

(* An offset is an int.                                                    *)
ASSUME OffsetAssumption ==
  /\ Offset \subseteq Int
  /\ \A o \in Offset : -Base <= 2 * o /\ 2 * o < Base
  /\ NoOffset \notin Offset

VARIABLES
  hi, lo,      (* mtime                                                    *)
  cmph, cmpl,  (* mtimecmp                                                 *)
  pc,          (* where the driver is                                      *)
  arg,         (* clock_offset of the call, or NoOffset                    *)
  h, l,        (* mtimeh_val and mtimel_val                                *)
  newh, newl,  (* new_mtimecmp                                             *)
  ticks,       (* the count of the last get_ticks_time()                   *)
  begunh, begunl,   (* history: mtime when the call began                  *)
  armedh, armedl    (* history: the compare point that was asked for       *)

history == <<begunh, begunl, armedh, armedl>>
timerVars == <<hi, lo, cmph, cmpl, pc, arg, h, l, newh, newl, ticks, history>>

Half == 0 .. Base - 1

(* The order of 64 bit values.                                             *)
NotLater(ah, al, bh, bl) == ah < bh \/ (ah = bh /\ al <= bl)

(* A slip: the offset is added to the low half alone.                      *)
SumHighNoCarry(ah, al, o) == ah

(* The high half of a 64 bit value after adding o to it: an int becomes an *)
(* uint64_t by extending its sign, so that a negative one borrows.         *)
SumHigh(ah, al, o) ==
  CASE al + o >= Base -> IF ah = Base - 1 THEN 0 ELSE ah + 1
    [] al + o < 0 -> IF ah = 0 THEN Base - 1 ELSE ah - 1
    [] OTHER -> ah

(* Its low half.                                                           *)
SumLow(al, o) ==
  CASE al + o >= Base -> al + o - Base
    [] al + o < 0 -> al + o + Base
    [] OTHER -> al + o

(* The hardware raises the timer interrupt while mtime >= mtimecmp.        *)
mtip == NotLater(cmph, cmpl, hi, lo)

(* A slip: the representation has half as many values.                     *)
ToIntShort(low) == IF 4 * low < Base THEN low ELSE low - Base \div 2

(* The conversion of a 64 bit count to int keeps the low half, signed.     *)
ToInt(low) == IF 2 * low < Base THEN low ELSE low - Base

(* The counter starts at zero; mtimecmp holds anything.                    *)
TimerInit ==
  /\ hi = 0 /\ lo = 0
  /\ cmph \in Half /\ cmpl \in Half
  /\ pc = "idle"
  /\ arg = NoOffset
  /\ h = 0 /\ l = 0
  /\ newh = 0 /\ newl = 0
  /\ ticks = 0
  /\ begunh = 0 /\ begunl = 0
  /\ armedh = cmph /\ armedl = cmpl

-----------------------------------------------------------------------------
(* mtime counts on, whatever the hart does.                                *)
Count ==
  /\ hi < MaxHigh \/ lo < Base - 1
  /\ IF lo = Base - 1
     THEN hi' = hi + 1 /\ lo' = 0
     ELSE hi' = hi /\ lo' = lo + 1
  /\ UNCHANGED <<cmph, cmpl, pc, arg, h, l, newh, newl, ticks, history>>

(* get_ticks_time() or set_ticks_time_cmp(o) is called: both begin with    *)
(* get_raw_time().  A negative offset is the delay of an expiry that went  *)
(* by before the call; the expiry itself is not before time zero.          *)
Begin(o) ==
  /\ pc = "idle"
  /\ o # NoOffset => hi > 0 \/ lo + o >= 0
  /\ pc' = "high"
  /\ arg' = o
  /\ begunh' = hi /\ begunl' = lo
  /\ UNCHANGED <<hi, lo, cmph, cmpl, h, l, newh, newl, ticks, armedh, armedl>>

(* mtimeh_val = *mtimeh                                                    *)
ReadHigh ==
  /\ pc = "high"
  /\ h' = hi
  /\ pc' = "low"
  /\ UNCHANGED <<hi, lo, cmph, cmpl, arg, l, newh, newl, ticks, history>>

(* mtimel_val = *mtimel                                                    *)
ReadLow ==
  /\ pc = "low"
  /\ l' = lo
  /\ pc' = "check"
  /\ UNCHANGED <<hi, lo, cmph, cmpl, arg, h, newh, newl, ticks, history>>

(* A slip: the value read is taken without a second look at mtimeh.        *)
ConsistentUnchecked == TRUE

(* while (mtimeh_val != *mtimeh)                                           *)
Consistent == h = hi

Retry ==
  /\ pc = "check"
  /\ ~ Consistent
  /\ pc' = "high"
  /\ UNCHANGED <<hi, lo, cmph, cmpl, arg, h, l, newh, newl, ticks, history>>

(* get_ticks_time() returns the value as a timer_ticks.                    *)
ReturnTime ==
  /\ pc = "check"
  /\ Consistent
  /\ arg = NoOffset
  /\ pc' = "idle"
  /\ ticks' = ToInt(l)
  /\ UNCHANGED <<hi, lo, cmph, cmpl, arg, h, l, newh, newl, history>>

(* new_mtimecmp = get_raw_time() + clock_offset                            *)
Compute ==
  /\ pc = "check"
  /\ Consistent
  /\ arg # NoOffset
  /\ newh' = SumHigh(h, l, arg)
  /\ newl' = SumLow(l, arg)
  /\ pc' = "mask"
  /\ UNCHANGED <<hi, lo, cmph, cmpl, arg, h, l, ticks, history>>

(* A slip: the high half is not put out of reach before the low half.      *)
MaskSkipped ==
  /\ pc = "mask"
  /\ armedh' = newh /\ armedl' = newl
  /\ pc' = "setlow"
  /\ UNCHANGED <<hi, lo, cmph, cmpl, arg, h, l, newh, newl, ticks, begunh, begunl>>

(* *mtimecmph = 0xFFFFFFFF: from here on the old compare point is gone.    *)
Mask ==
  /\ pc = "mask"
  /\ cmph' = Base - 1
  /\ armedh' = newh /\ armedl' = newl
  /\ pc' = "setlow"
  /\ UNCHANGED <<hi, lo, cmpl, arg, h, l, newh, newl, ticks, begunh, begunl>>

(* *mtimecmpl = new_mtimecmp & 0xFFFFFFFF                                  *)
SetLow ==
  /\ pc = "setlow"
  /\ cmpl' = newl
  /\ pc' = "sethigh"
  /\ UNCHANGED <<hi, lo, cmph, arg, h, l, newh, newl, ticks, history>>

(* A slip: the high half is left out of reach.                             *)
SetHighSkipped ==
  /\ pc = "sethigh"
  /\ pc' = "idle"
  /\ UNCHANGED <<hi, lo, cmph, cmpl, arg, h, l, newh, newl, ticks, history>>

(* *mtimecmph = new_mtimecmp >> 32                                         *)
SetHigh ==
  /\ pc = "sethigh"
  /\ cmph' = newh
  /\ pc' = "idle"
  /\ UNCHANGED <<hi, lo, cmpl, arg, h, l, newh, newl, ticks, history>>

Driver ==
  \/ ReadHigh
  \/ ReadLow
  \/ Retry
  \/ ReturnTime
  \/ Compute
  \/ Mask
  \/ SetLow
  \/ SetHigh

TimerNext ==
  \/ Count
  \/ \E o \in Offset \cup {NoOffset} : Begin(o)
  \/ Driver

TimerSpec == TimerInit /\ [][TimerNext]_timerVars

-----------------------------------------------------------------------------
TimerTypeOK ==
  /\ hi \in 0 .. MaxHigh /\ lo \in Half
  /\ cmph \in Half /\ cmpl \in Half
  /\ pc \in {"idle", "high", "low", "check", "mask", "setlow", "sethigh"}
  /\ arg \in Offset \cup {NoOffset}
  /\ h \in 0 .. MaxHigh /\ l \in Half
  /\ newh \in Half /\ newl \in Half
  /\ ticks \in Int
  /\ begunh \in 0 .. MaxHigh /\ begunl \in Half
  /\ armedh \in Half /\ armedl \in Half

(* The 64 bit value that get_raw_time() puts together from its halves is   *)
(* not torn: it lies between the values of mtime when the call began and   *)
(* when it ends.                                                           *)
ReadNotTorn ==
  [][ ReturnTime \/ Compute =>
        /\ NotLater(begunh, begunl, h, l)
        /\ NotLater(h, l, hi, lo) ]_timerVars

(* A compare point in the future is never before the time at which         *)
(* set_time_cmp() was called, and one that was overdue is not after the    *)
(* time it is set: no carry and no borrow between the halves is lost.      *)
CompareWhereAsked ==
  pc \in {"mask", "setlow", "sethigh"} =>
    /\ arg >= 0 => NotLater(begunh, begunl, newh, newl)
    /\ arg < 0 => NotLater(newh, newl, hi, lo)

(* The interrupt is never raised before the compare point that was asked   *)
(* for, not even between the stores that set it.                           *)
NoSpuriousInterrupt == mtip => NotLater(armedh, armedl, hi, lo)

(* Once set_time_cmp() is done, the interrupt is raised as soon as the     *)
(* compare point is reached, also when that happened during the call.      *)
NoMissedInterrupt ==
  (pc = "idle" /\ NotLater(armedh, armedl, hi, lo)) => mtip

(* "is_steady = true" (scheduler-timer-mtimer.hpp) holds as long as mtime  *)
(* fits into an int: up to then no reading is before an earlier one,       *)
(* however often the halves are read again.  Beyond, the count the clock   *)
(* is made of goes back by the range of int.                               *)
SteadyWithinRange == [][hi' = 0 /\ 2 * lo' < Base => ticks' >= ticks]_timerVars
=============================================================================
