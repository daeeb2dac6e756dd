----------------------------- MODULE TimerLoop -----------------------------
(***************************************************************************)
(* example_simple() and example_timer() of src/: an event loop that sleeps *)
(* in wfi until the machine timer's interrupt, and resumes the coroutines  *)
(* of a scheduler_delay<mtimer_clock> from there.                          *)
(*                                                                         *)
(*   do { schedule_by_delay<mtimer_clock> now;                             *)
(*        auto [pending, next_wake] = scheduler.resume(now);               *)
(*        if (pending) {                                                   *)
(*            mtimer.set_time_cmp(next_wake->delay());                     *)
(*            riscv::csrs.mstatus.mie.clr();                               *)
(*            riscv::csrs.mie.mti.set();                                   *)
(*            core.wfi();                                                  *)
(*            riscv::csrs.mstatus.mie.set();                               *)
(*        }                                                                *)
(*   } while (true);                                                       *)
(*                                                                         *)
(* The handler disables the timer interrupt and does nothing else.         *)
(* example_timer() has the interrupts enabled when it enters the loop.     *)
(***************************************************************************)
EXTENDS OrderedScheduler, WakeCondition, Hart

CONSTANTS
  Tick,     (* nanoseconds of mtimer_clock per count of mtime              *)
  Period,   (* the delay each coroutine awaits, in nanoseconds             *)
  Garbage,  (* what next_wake->delay() may give if next_wake is empty      *)
  MaxAwait, (* bound: the count up to which coroutines await               *)
  MaxTime   (* bound: the count mtime never gets beyond                    *)

ASSUME TimerLoopAssumption ==
  /\ Tick \in Nat \ {0}
  /\ Period \in [Handle -> Nat \ {0}]
  /\ Garbage \subseteq Nat
  /\ Garbage # {}
  /\ MaxAwait \in Nat
  /\ MaxTime \in Nat
  /\ MaxAwait <= MaxTime
  /\ Condition = 0 .. MaxTime * Tick
  /\ \A a, b \in Condition : ReadyToWake(a, b) <=> DelayReady(a, b)

VARIABLES
  pc,        (* the statement main executes next                           *)
  hpc,       (* the statement the handler executes next                    *)
  eager,     (* the program is example_timer()                             *)
  mtime,     (* the counter of the machine timer                           *)
  mtimecmp,  (* its compare point                                          *)
  current,   (* main's schedule_by_delay object now                        *)
  hits,      (* history: interrupts since main last enabled mie.mti        *)
  offset,    (* the argument of set_time_cmp(), until it is called         *)
  lag        (* history: counts of mtime from computing it to the call     *)

sleepVars == <<offset, lag>>

loopVars == <<waiting, status, stack, ret, mstatus, mie, mcause, installed,
              inHandler, pc, hpc, eager, mtime, mtimecmp, current, hits, sleepVars>>

(* The timer's line is the only one that matters: mie has no other bit.    *)
mip == IF mtime >= mtimecmp THEN {mti} ELSE {}

(* mtimer_clock::now(), and what is left until an expiry.                  *)
now == mtime * Tick

delay(expires) == IF expires > now THEN expires - now ELSE 0

LoopInit ==
  /\ Init
  /\ HartInit
  /\ pc = "mstatus.mie.clr"
  /\ hpc = "out"
  /\ eager \in BOOLEAN
  /\ mtime = 0
  /\ mtimecmp \in 0 .. MaxAwait
  /\ current = 0
  /\ hits = 0
  /\ offset = 0
  /\ lag = 0

-----------------------------------------------------------------------------
(* main executes the statement p, and goes on at q.                        *)
Main(p, q) ==
  /\ pc = p
  /\ pc' = q
  /\ MainRuns(mip)
  /\ stack = <<>>
  /\ UNCHANGED <<hpc, eager, mtime>>

unchangedCoro == UNCHANGED <<waiting, status, stack, ret>>

MainDisables(p, q) ==
  /\ Main(p, q)
  /\ GlobalDisable
  /\ unchangedCoro /\ UNCHANGED <<mtimecmp, current, hits, sleepVars>>

MainEnables(p, q) ==
  /\ Main(p, q)
  /\ GlobalEnable
  /\ unchangedCoro /\ UNCHANGED <<mtimecmp, current, hits, sleepVars>>

MainEnablesTimer(p, q) ==
  /\ Main(p, q)
  /\ TimerEnable
  /\ hits' = 0
  /\ unchangedCoro /\ UNCHANGED <<mtimecmp, current, sleepVars>>

(* mtimer.set_time_cmp(mtimer_clock::duration::zero())                     *)
MainSetsNow ==
  /\ Main("set_time_cmp", "call")
  /\ mtimecmp' = mtime
  /\ unchangedCoro /\ UNCHANGED <<hartVars, current, hits, sleepVars>>

(* The coroutines are called.                                              *)
MainCalls(h) ==
  /\ Main("call", "call")
  /\ Call(h)
  /\ UNCHANGED <<hartVars, mtimecmp, current, hits, sleepVars>>

(* riscv::irq::handler irq_handler(handler)                                *)
MainInstalls(p, q) ==
  /\ Main(p, q)
  /\ Install(p)
  /\ unchangedCoro /\ UNCHANGED <<mtimecmp, current, hits, sleepVars>>

(* The end of the calls.                                                   *)
MainCalled ==
  /\ Main("call", "_execute_handler")
  /\ unchangedCoro /\ UNCHANGED <<hartVars, mtimecmp, current, hits, sleepVars>>

Prologue ==
  \/ MainDisables("mstatus.mie.clr", "set_time_cmp")
  \/ MainSetsNow
  \/ (\E h \in Handle : MainCalls(h))
  \/ MainCalled
  \/ MainInstalls("_execute_handler", "mscratch")
  \/ MainInstalls("mscratch", "mtvec")
  \/ MainInstalls("mtvec", IF eager THEN "mie.mti.set" ELSE "now")
  \/ MainEnablesTimer("mie.mti.set", "mstatus.mie.set")
  \/ MainEnables("mstatus.mie.set", "now")

-----------------------------------------------------------------------------
(* schedule_by_delay<mtimer_clock> now;                                    *)
MainSamples ==
  /\ Main("now", "resume")
  /\ current' = now
  /\ unchangedCoro /\ UNCHANGED <<hartVars, mtimecmp, hits, sleepVars>>

(* scheduler.resume(now), up to the body it runs.                          *)
MainResumes ==
  /\ Main("resume", "pending")
  /\ resume(current)
  /\ UNCHANGED <<hartVars, mtimecmp, current, hits, sleepVars>>

(* if (pending)                                                            *)
MainTests ==
  /\ Main("pending", IF ret.pending THEN "loop:delay" ELSE "now")
  /\ unchangedCoro /\ UNCHANGED <<hartVars, mtimecmp, current, hits, sleepVars>>

(* A slip: the expiry itself is taken for the delay.                       *)
MainDelaysAbsolute ==
  /\ Main("loop:delay", "loop:set_time_cmp")
  /\ offset' \in IF ret.next = None THEN Garbage ELSE {ret.next}
  /\ lag' = 0
  /\ unchangedCoro /\ UNCHANGED <<hartVars, mtimecmp, current, hits>>

(* next_wake->delay() reads the clock.  An empty next_wake is dereferenced *)
(* all the same.                                                           *)
MainDelays ==
  /\ Main("loop:delay", "loop:set_time_cmp")
  /\ offset' \in IF ret.next = None THEN Garbage ELSE {delay(ret.next)}
  /\ lag' = 0
  /\ unchangedCoro /\ UNCHANGED <<hartVars, mtimecmp, current, hits>>

(* mtimer.set_time_cmp(...) reads it again and adds the delay: the cast to *)
(* ticks rounds down.                                                      *)
MainSetsTimer ==
  /\ Main("loop:set_time_cmp", "loop:mstatus.mie.clr")
  /\ mtimecmp' = mtime + offset \div Tick
  /\ offset' = 0
  /\ unchangedCoro /\ UNCHANGED <<hartVars, current, hits, lag>>

MainWaits ==
  /\ Main("loop:wfi", "loop:mstatus.mie.set")
  /\ wfi(mip)
  /\ lag' = 0
  /\ unchangedCoro /\ UNCHANGED <<mtimecmp, current, hits, offset>>

(* A slip: interrupts stay enabled while main prepares to sleep.           *)
EventLoopEnabled ==
  \/ MainSamples \/ MainResumes \/ MainTests \/ MainDelays \/ MainSetsTimer
  \/ MainEnables("loop:mstatus.mie.clr", "loop:mie.mti.set")
  \/ MainEnablesTimer("loop:mie.mti.set", "loop:wfi")
  \/ MainWaits
  \/ MainEnables("loop:mstatus.mie.set", "now")

EventLoop ==
  \/ MainSamples \/ MainResumes \/ MainTests \/ MainDelays \/ MainSetsTimer
  \/ MainDisables("loop:mstatus.mie.clr", "loop:mie.mti.set")
  \/ MainEnablesTimer("loop:mie.mti.set", "loop:wfi")
  \/ MainWaits
  \/ MainEnables("loop:mstatus.mie.set", "now")

-----------------------------------------------------------------------------
(* A body awaits its period, or ends.  The bound leaves the clock room to  *)
(* get past the expiry.                                                    *)
BodyAwaits ==
  /\ MainRuns(mip)
  /\ stack # <<>>
  /\ now + Period[Last(stack)] + Tick <= MaxAwait * Tick
  /\ Await(now + Period[Last(stack)])
  /\ UNCHANGED <<hartVars, pc, hpc, eager, mtime, mtimecmp, current, hits, sleepVars>>

BodyEnds ==
  /\ MainRuns(mip)
  /\ CoReturn
  /\ UNCHANGED <<hartVars, pc, hpc, eager, mtime, mtimecmp, current, hits, sleepVars>>

-----------------------------------------------------------------------------
(* The handler: the bound on hits keeps a storm of interrupts finite.      *)
HandlerEntry ==
  /\ hits < 2
  /\ Trap(mip)
  /\ hpc' = "mcause"
  /\ hits' = hits + 1
  /\ unchangedCoro /\ UNCHANGED <<pc, eager, mtime, mtimecmp, current, sleepVars>>

(* A slip: the handler leaves the timer interrupt enabled.                 *)
HandlerKeepsTimer ==
  /\ inHandler
  /\ hpc = "mcause"
  /\ hpc' = "mret"
  /\ UNCHANGED hartVars
  /\ unchangedCoro /\ UNCHANGED <<pc, eager, mtime, mtimecmp, current, hits, sleepVars>>

(* case mti: riscv::csrs.mie.mti.clr(), unless it is something else.       *)
HandlerDisablesTimer ==
  /\ inHandler
  /\ hpc = "mcause"
  /\ hpc' = "mret"
  /\ IF mcause.interrupt /\ mcause.code = mti THEN TimerDisable ELSE UNCHANGED hartVars
  /\ unchangedCoro /\ UNCHANGED <<pc, eager, mtime, mtimecmp, current, hits, sleepVars>>

HandlerReturns ==
  /\ inHandler
  /\ hpc = "mret"
  /\ hpc' = "out"
  /\ Mret
  /\ unchangedCoro /\ UNCHANGED <<pc, eager, mtime, mtimecmp, current, hits, sleepVars>>

CpuNext ==
  \/ Prologue \/ EventLoop \/ BodyAwaits \/ BodyEnds
  \/ HandlerEntry \/ HandlerDisablesTimer \/ HandlerReturns

(* The counter counts, beyond the awaits too as long as the timer is to    *)
(* fire.                                                                   *)
Count ==
  /\ mtime < MaxTime
  /\ mtime < MaxAwait \/ mtime < mtimecmp
  /\ mtime' = mtime + 1
  /\ lag' = IF pc = "loop:set_time_cmp" THEN lag + 1 ELSE lag
  /\ unchangedCoro
  /\ UNCHANGED <<hartVars, pc, hpc, eager, mtimecmp, current, hits, offset>>

LoopNext == CpuNext \/ Count

LoopSafety == LoopInit /\ [][LoopNext]_loopVars

(* An instruction that is sure to end: wfi is when an interrupt that is    *)
(* enabled in mie is pending.  Its return without one may come or not.     *)
Executes == (pc = "loop:wfi" /\ ~inHandler => mip \cap mie # {}) /\ CpuNext

(* The hart executes its next instruction unless it waits in wfi, and the  *)
(* counter does not stop.                                                  *)
LoopSpec == LoopSafety /\ WF_loopVars(Executes) /\ WF_loopVars(Count)

-----------------------------------------------------------------------------
(* "WFI Should be called while interrupts are disabled to ensure interrupt *)
(* enable and WFI is atomic" (example_simple.cpp): from the moment main    *)
(* enables the timer interrupt until wfi is over the handler does not run, *)
(* so the interrupt that is to end wfi cannot be consumed before.          *)
AtomicSleep ==
  pc \in {"loop:mie.mti.set", "loop:wfi", "loop:mstatus.mie.set"} =>
    /\ ~ inHandler
    /\ ~ Enabled(mstatus, mstatus_data.mie)
    /\ pc # "loop:mie.mti.set" => Enabled(mie, mie_data.mti)

(* The handler runs at most once for each time main enables the timer      *)
(* interrupt, although the interrupt stays pending, and never before it is *)
(* installed.                                                              *)
OncePerArm == hits <= 1 /\ (inHandler => installed = Vector)

(* Whenever resume() gave main a condition to wait for, the interrupt that *)
(* ends its sleep comes no later than the last expiry of those waiting,    *)
(* but for the time that passes between the reading of the clock for the   *)
(* delay and the one that the delay is added to.                           *)
SleepBounded ==
  /\ pc \in {"loop:mstatus.mie.clr", "loop:mie.mti.set", "loop:wfi"}
  /\ ret.next # None
  /\ mtime < mtimecmp
  => \E i \in 1 .. Len(waiting) : (mtimecmp - lag) * Tick <= waiting[i].cond

(* Every coroutine that awaits its period is resumed some time, whatever   *)
(* (finite) delay an empty next_wake gives, although nothing but the       *)
(* timer's interrupt is sure to end main's sleep.                          *)
EveryoneWakes ==
  \A h \in Handle : status[h] = "suspended" ~> status[h] = "running"

(* "@retval (more routines are pending, next delay to wait)"               *)
(* (scheduler.hpp): when resume() returned true the loop has a delay to    *)
(* set the timer with.                                                     *)
NextDelayKnown == pc = "loop:delay" => ret.next # None
=============================================================================
