----------------------------- MODULE IrqExample -----------------------------
(***************************************************************************)
(* example_irq() of src/example_irq.cpp: coroutines that go to and fro     *)
(* between an interrupt handler and main, over four scheduler_unordered    *)
(* objects that both contexts use, on the hart of Hart.                    *)
(*                                                                         *)
(* main executes one statement per step and may be interrupted between any *)
(* two steps, and between any two rounds of the loop in resume().  The     *)
(* stack is shared: the handler's calls lie on top of main's.              *)
(*                                                                         *)
(* The timer's interrupt is pending after set_time_cmp(0), not pending     *)
(* after set_time_cmp(100us) and pending again some time later, which is   *)
(* what ComponentProofs shows of the driver.  The lines of the other       *)
(* interrupts go up and down at any time.                                  *)
(***************************************************************************)
EXTENDS UnorderedScheduler, Hart

VARIABLES
  pc,    (* the statement main executes next                               *)
  hpc,   (* the statement the handler executes next                        *)
  base,  (* how many frames were on the stack when the handler began       *)
  mip,   (* the interrupts that are pending                                *)
  at     (* where each body is: behind which of its co_await statements    *)

irqVars == <<waiting, status, stack, mstatus, mie, mcause, installed,
             inHandler, pc, hpc, base, mip, at>>

unchangedCoro == UNCHANGED <<waiting, status, stack, at>>

Line == {msi, mti, mei}

Contexts == {"isr_context", "isr_mti_context", "isr_mei_context"}

(* What the program declares: the schedulers with their MAX_TASKS, and the *)
(* three coroutines.                                                       *)
ASSUME IrqAssumption ==
  /\ Scheduler = Contexts \cup {"main_thread"}
  /\ MaxTasks = [s \in Scheduler |-> IF s = "main_thread" THEN 3 ELSE 1]
  /\ Handle = {"t3", "t4", "t5"}

(* A slip: the coroutines share the scheduler of all interrupts.           *)
isr_schedulerShared(h) == "isr_context"

(* The first argument of resuming_on_isr_and_main().                       *)
isr_scheduler(h) ==
  CASE h = "t3" -> "isr_context"
    [] h = "t4" -> "isr_mti_context"
    [] h = "t5" -> "isr_mei_context"

-----------------------------------------------------------------------------
(* The statements of example_irq() in their order; the last is the loop's. *)
Then(p) ==
  CASE p = "mstatus.mie.clr" -> "set_time_cmp" [] p = "set_time_cmp" -> "t3"
    [] p = "t3" -> "t4" [] p = "t4" -> "t5" [] p = "t5" -> "_execute_handler"
    [] p = "_execute_handler" -> "mscratch" [] p = "mscratch" -> "mtvec"
    [] p = "mtvec" -> "mie.mti.set" [] p = "mie.mti.set" -> "mstatus.mie.set"
    [] p = "mstatus.mie.set" -> "loop:resume"
    [] p = "loop:resume" -> "loop:set_time_cmp"
    [] p = "loop:set_time_cmp" -> "loop:mstatus.mie.clr"
    [] p = "loop:mstatus.mie.clr" -> "loop:mie.mti.set"
    [] p = "loop:mie.mti.set" -> "loop:wfi"
    [] p = "loop:wfi" -> "loop:mstatus.mie.set"
    [] p = "loop:mstatus.mie.set" -> "loop:resume"

IrqInit ==
  /\ Init
  /\ HartInit
  /\ pc = "mstatus.mie.clr"
  /\ hpc = "out"
  /\ base = 0
  /\ mip \in SUBSET Line
  /\ at = [h \in Handle |-> "begin"]

(* main executes the statement p of the set ps.                            *)
Main(ps) ==
  /\ pc \in ps
  /\ MainRuns(mip)
  /\ stack = <<>>
  /\ pc' = Then(pc)
  /\ UNCHANGED <<hpc, base>>

(* A slip: the loop does not disable interrupts before wfi.                *)
MainDisablesOnce ==
  /\ Main({"mstatus.mie.clr", "loop:mstatus.mie.clr"})
  /\ IF pc = "mstatus.mie.clr" THEN GlobalDisable ELSE UNCHANGED hartVars
  /\ unchangedCoro /\ UNCHANGED mip

MainDisables ==
  /\ Main({"mstatus.mie.clr", "loop:mstatus.mie.clr"})
  /\ GlobalDisable
  /\ unchangedCoro /\ UNCHANGED mip

MainEnables ==
  /\ Main({"mstatus.mie.set", "loop:mstatus.mie.set"})
  /\ GlobalEnable
  /\ unchangedCoro /\ UNCHANGED mip

MainEnablesTimer ==
  /\ Main({"mie.mti.set", "loop:mie.mti.set"})
  /\ TimerEnable
  /\ unchangedCoro /\ UNCHANGED mip

(* mtimer.set_time_cmp(): zero fires at once, 100us later.                 *)
MainSetsTimer ==
  /\ Main({"set_time_cmp", "loop:set_time_cmp"})
  /\ mip' = IF pc = "set_time_cmp" THEN mip \cup {mti} ELSE mip \ {mti}
  /\ unchangedCoro /\ UNCHANGED hartVars

(* auto t3 = resuming_on_isr_and_main(isr_context, main_thread, ...), and  *)
(* the other two.                                                          *)
MainCalls(h) ==
  /\ pc = h
  /\ Main(Handle)
  /\ Call(h)
  /\ UNCHANGED <<hartVars, mip, at>>

(* riscv::irq::handler irq_handler(handler): its three writes.             *)
MainInstalls ==
  /\ Main(Vector)
  /\ Install(pc)
  /\ unchangedCoro /\ UNCHANGED mip

MainResumesThread ==
  /\ Main({"loop:resume"})
  /\ Resume("main_thread")
  /\ UNCHANGED <<hartVars, mip, at>>

MainWaits ==
  /\ Main({"loop:wfi"})
  /\ wfi(mip)
  /\ unchangedCoro /\ UNCHANGED mip

MainNext ==
  \/ MainDisables \/ MainEnables \/ MainEnablesTimer \/ MainSetsTimer
  \/ (\E h \in Handle : MainCalls(h))
  \/ MainInstalls \/ MainResumesThread \/ MainWaits

-----------------------------------------------------------------------------
(* The frame on top of the stack is the handler's, or main may go on.      *)
FrameRuns == IF inHandler THEN Len(stack) > base ELSE MainRuns(mip)

(* The loop in resume() of a scheduler.                                    *)
LoopStep ==
  /\ FrameRuns
  /\ \E s \in Scheduler : ResumeNext(s) \/ ResumeEnds(s)
  /\ UNCHANGED <<hartVars, pc, hpc, base, mip, at>>

(* while (true) { co_await isr_scheduler; ... co_await main_scheduler; }   *)
BodyStep(h) ==
  /\ FrameRuns
  /\ IF at[h] = "isr"
     THEN Await(h, "main_thread") /\ at' = [at EXCEPT ![h] = "main"]
     ELSE Await(h, isr_scheduler(h)) /\ at' = [at EXCEPT ![h] = "isr"]
  /\ UNCHANGED <<hartVars, pc, hpc, base, mip>>

-----------------------------------------------------------------------------
(* The handler: the statements of the lambda function.                     *)
Handler(p) ==
  /\ inHandler
  /\ hpc = p
  /\ Len(stack) = base
  /\ UNCHANGED <<pc, base, mip, at>>

HandlerEntry ==
  /\ Trap(mip)
  /\ hpc' = "isr_context.resume"
  /\ base' = Len(stack)
  /\ unchangedCoro /\ UNCHANGED <<pc, mip>>

HandlerAll ==
  /\ Handler("isr_context.resume")
  /\ Resume("isr_context")
  /\ hpc' = "mcause"
  /\ UNCHANGED hartVars

(* A slip: the case of the timer interrupt is missing.                     *)
DispatchNoTimer ==
  IF mcause.interrupt /\ mcause.code = mei THEN "isr_mei_context" ELSE "mret"

(* The switch over the cause.                                              *)
Dispatch ==
  CASE ~ mcause.interrupt -> "mret"
    [] mcause.interrupt /\ mcause.code = mei -> "isr_mei_context"
    [] mcause.interrupt /\ mcause.code = mti -> "mie.mti.clr"
    [] OTHER -> "mret"

HandlerCause ==
  /\ Handler("mcause")
  /\ hpc' = Dispatch
  /\ UNCHANGED <<waiting, status, stack, hartVars>>

HandlerDisablesTimer ==
  /\ Handler("mie.mti.clr")
  /\ TimerDisable
  /\ hpc' = "isr_mti_context"
  /\ UNCHANGED <<waiting, status, stack>>

(* A slip: the handler resumes the coroutines of main.                     *)
HandlerResumesMain ==
  /\ hpc \in Contexts
  /\ Handler(hpc)
  /\ Resume("main_thread")
  /\ hpc' = "mret"
  /\ UNCHANGED hartVars

(* isr_mti_context.resume() or isr_mei_context.resume()                    *)
HandlerResumes ==
  /\ hpc \in Contexts
  /\ Handler(hpc)
  /\ Resume(hpc)
  /\ hpc' = "mret"
  /\ UNCHANGED hartVars

HandlerReturns ==
  /\ Handler("mret")
  /\ Mret
  /\ hpc' = "out"
  /\ UNCHANGED <<waiting, status, stack>>

HandlerNext ==
  \/ HandlerEntry \/ HandlerAll \/ HandlerCause \/ HandlerDisablesTimer
  \/ HandlerResumes \/ HandlerReturns

-----------------------------------------------------------------------------
(* The time compare point is reached.                                      *)
TimerFires ==
  /\ mti \notin mip
  /\ mip' = mip \cup {mti}
  /\ unchangedCoro /\ UNCHANGED <<hartVars, pc, hpc, base>>

(* Another interrupt becomes, or ceases to be, pending.                    *)
LineChanges(i) ==
  /\ mip' = (mip \ {i}) \cup ({i} \ mip)
  /\ unchangedCoro /\ UNCHANGED <<hartVars, pc, hpc, base>>

CpuNext ==
  \/ MainNext
  \/ LoopStep
  \/ \E h \in Handle : BodyStep(h)
  \/ HandlerNext

IrqNext == CpuNext \/ TimerFires \/ \E i \in {msi, mei} : LineChanges(i)

IrqSafety == IrqInit /\ [][IrqNext]_irqVars

(* An instruction that is sure to end: wfi is when an interrupt that is    *)
(* enabled in mie is pending.                                              *)
Executes == (pc = "loop:wfi" /\ ~inHandler => mip \cap mie # {}) /\ CpuNext

(* The hart executes its next instruction unless it waits in wfi, and time *)
(* does not stop.                                                          *)
IrqSpec == IrqSafety /\ WF_irqVars(Executes) /\ WF_irqVars(TimerFires)

-----------------------------------------------------------------------------
(* The handler, which changes the lists that main changes too, never       *)
(* interrupts main in one of its resume() loops or coroutines, although    *)
(* main runs them with interrupts enabled: it runs at the head of the loop *)
(* only, and not before it is installed.                                   *)
HandlerAtLoopHead ==
  inHandler => base = 0 /\ pc = "loop:resume" /\ installed = Vector

(* What follows co_await isr_scheduler in a coroutine is executed by the   *)
(* handler, and what follows co_await main_scheduler by main.              *)
RunsWhereAwaited ==
  \A h \in Handle : Executing(h) => (at[h] = "isr" <=> inHandler)

(* Between the handler and main no coroutine is dropped by a full list,    *)
(* resumed twice or held in two places.                                    *)
NoneDropped == OneHolder /\ \A h \in Handle : ~ Lost(h)

(* t3 and t4 are resumed again and again, in the handler and in main.      *)
Alternates ==
  \A h \in {"t3", "t4"} :
    /\ []<>(Executing(h) /\ inHandler)
    /\ []<>(Executing(h) /\ ~ inHandler)
=============================================================================
