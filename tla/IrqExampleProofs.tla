-------------------------- MODULE IrqExampleProofs --------------------------
(***************************************************************************)
(* Proofs about example_irq(), for a hart whose wfi returns only when an   *)
(* interrupt is pending.  Its schedulers behave as UnorderedScheduler says *)
(* although the handler and main share them, the handler never runs while  *)
(* main is in one of them, and no coroutine is dropped or executed in the  *)
(* wrong context.                                                          *)
(***************************************************************************)
EXTENDS IrqExample, UnorderedSchedulerProofs

(* Where main is: setting up, with the timer interrupt disabled; in the    *)
(* loop with it disabled by the handler; and where it prepares to sleep    *)
(* and sleeps.                                                             *)
Setup ==
  {"set_time_cmp", "t3", "t4", "t5", "_execute_handler", "mscratch", "mtvec",
   "mie.mti.set"}
Quiet == {"loop:set_time_cmp", "loop:mstatus.mie.clr"}
Sleep == {"loop:mie.mti.set", "loop:wfi", "loop:mstatus.mie.set"}

(* The handler's statements before it has disabled the timer interrupt.    *)
Early == {"isr_context.resume", "mcause", "mie.mti.clr"}

Places ==
  /\ pc \in {"mstatus.mie.clr", "mstatus.mie.set", "loop:resume"}
              \cup Setup \cup Quiet \cup Sleep
  /\ hpc \in {"out", "isr_mti_context", "mret"} \cup Early
  /\ inHandler = (hpc # "out")
  /\ inHandler => pc = "loop:resume" /\ base = 0

(* Which interrupts are enabled where.                                     *)
Gates ==
  /\ mie = {} \/ mie = {mti}
  /\ pc \in {"mstatus.mie.clr", "loop:mie.mti.set"} \cup Setup \cup Quiet => mie = {}
  /\ pc \in {"mstatus.mie.set", "loop:wfi", "loop:mstatus.mie.set"} => mie = {mti}
  /\ pc \in {"mstatus.mie.set"} \cup Setup \cup Sleep => 3 \notin mstatus
  /\ hpc \in {"isr_mti_context", "mret"} => mie = {}
  /\ hpc \in Early => mcause.interrupt /\ mcause.code = mti

(* Before main enables interrupts the timer's is pending: at the head of   *)
(* the loop it is taken at once, when nothing lies on the stack.           *)
Armed ==
  /\ pc \in {"mstatus.mie.set", "loop:mstatus.mie.set"} \cup (Setup \ {"set_time_cmp"})
       => mti \in mip
  /\ pc = "loop:resume" /\ ~ inHandler /\ mie = {mti}
       => mti \in mip /\ 3 \in mstatus /\ stack = <<>>

(* The constructor of irq::handler has made its writes in order.           *)
Installing ==
  /\ pc \in {"mstatus.mie.clr", "set_time_cmp", "t3", "t4", "t5", "_execute_handler"}
       => installed = {}
  /\ pc = "mscratch" => installed = {"_execute_handler"}
  /\ pc = "mtvec" => installed = {"_execute_handler", "mscratch"}
  /\ pc \in {"mie.mti.set", "mstatus.mie.set", "loop:resume"} \cup Quiet \cup Sleep
       => installed = Vector

HartInv == Places /\ Gates /\ Armed /\ Installing

(* The co_await that a coroutine of the scheduler s is behind.             *)
Behind(s) == IF s = "main_thread" THEN "main" ELSE "isr"

(* What is on the stack: nothing, a coroutine that main has just called,   *)
(* or a resume(), of main_thread in main and of another scheduler in the   *)
(* handler, below a coroutine that awaited that scheduler.                 *)
Frames ==
  \/ stack = <<>>
  \/ \E h \in Handle : stack = <<h>> /\ at[h] = "begin" /\ ~ inHandler
  \/ \E s \in Scheduler :
       /\ s = "main_thread" <=> ~ inHandler
       /\ \/ stack = <<s>>
          \/ \E h \in Handle : stack = <<s, h>> /\ at[h] = Behind(s)

(* What is in the lists: coroutines that awaited that scheduler, and each  *)
(* of the handler's lists is used by one coroutine.                        *)
Homes ==
  /\ at \in [Handle -> {"begin", "isr", "main"}]
  /\ \A h \in Handle : status[h] = "absent" => at[h] = "begin"
  /\ \A s \in Scheduler : \A i \in DOMAIN waiting[s] :
       /\ at[waiting[s][i]] = Behind(s)
       /\ s # "main_thread" => s = isr_scheduler(waiting[s][i])

(* The coroutines never end, and main resumes none before it called one.   *)
Alive ==
  /\ \A h \in Handle : status[h] # "done" /\ ~ Lost(h)
  /\ pc \notin {"mstatus.mie.clr", "set_time_cmp", "t3"} => status["t3"] # "absent"

(* The inductive invariant.                                                *)
IrqInv == HartInv /\ IInv /\ Frames /\ Homes /\ Alive

-----------------------------------------------------------------------------
(* The interrupt enables.                                                  *)

(* A constant operand has the effect of the same operand in a register,    *)
(* whichever instruction write_const(), set_const() or clr_const() choose. *)
LEMMA ConstExecutes ==
  ASSUME NEW insn, NEW old, NEW m
  PROVE  Const(insn, old, m) = Execute(insn, old, m)
BY DEF Const, ExecuteImm

(* What set() and clr() of the fields do to the bits.                      *)
LEMMA FieldBits ==
  ASSUME NEW old
  PROVE  /\ set(old, mstatus_data.mie) = old \cup {3}
         /\ clr(old, mstatus_data.mie) = old \ {3}
         /\ set(old, mstatus_data.mpie) = old \cup {7}
         /\ set(old, mie_data.mti) = old \cup {7}
         /\ clr(old, mie_data.mti) = old \ {7}
         /\ Enabled(old, mstatus_data.mie) <=> 3 \in old
<1>1. /\ mstatus_data.mie.mask = {3} /\ mstatus_data.mpie.mask = {7}
      /\ mie_data.mti.mask = {7}
  BY DEF mstatus_data, mie_data, Field
<1>2. ASSUME NEW m PROVE /\ Const("csrrs", old, m) = old \cup m
                         /\ Const("csrrc", old, m) = old \ m
  BY ConstExecutes DEF Execute
<1> QED BY <1>1, <1>2 DEF set, clr, Enabled

(* Before main() nothing is enabled in mie.                                *)
LEMMA HartInitInv == IrqInit => HartInv
BY DEF IrqInit, HartInit, HartInv, Places, Gates, Armed, Installing, Setup,
       Quiet, Sleep, Early, mti

(* main gives up its turn where an interrupt can be taken.                 *)
LEMMA TakenAtLoopHead ==
  ASSUME HartInv, Interruptible(mip), ~ inHandler
  PROVE  /\ mie = {mti} /\ pc = "loop:resume" /\ stack = <<>>
         /\ Taken(mip) = mti
<1>1. mie = {mti} /\ mip \cap mie # {}
  BY DEF HartInv, Gates, Interruptible
<1>2. 3 \in mstatus
  BY FieldBits DEF Interruptible
<1>3. pc = "loop:resume"
  BY <1>1, <1>2 DEF HartInv, Places, Gates, mti
<1>4. stack = <<>>
  BY <1>1, <1>3 DEF HartInv, Armed
<1>5. Taken(mip) = mti
  BY <1>1 DEF Taken, mti, mei, msi
<1> QED BY <1>1, <1>3, <1>4, <1>5

(* And only there: when it goes on at the head of the loop, the handler    *)
(* has disabled the timer interrupt.                                       *)
LEMMA RunsWhenDisabled ==
  ASSUME HartInv, pc = "loop:resume", MainRuns(mip)
  PROVE  mie = {}
<1>1. mie = {} \/ mie = {mti}
  BY DEF HartInv, Gates
<1>2. ASSUME mie = {mti} PROVE FALSE
  <2>1. mti \in mip /\ 3 \in mstatus
    BY <1>2 DEF HartInv, Armed, MainRuns
  <2> QED BY <1>2, <2>1, FieldBits DEF MainRuns, Interruptible
<1> QED BY <1>1, <1>2

(* Every statement of main preserves the invariant of the hart.            *)
LEMMA MainHart ==
  ASSUME HartInv, MainNext, Spurious = FALSE
  PROVE  HartInv'
<1>1. Places /\ Gates /\ Armed /\ Installing
  BY DEF HartInv
<1> USE DEF Setup, Quiet, Sleep, Early
<1>2. ASSUME NEW ps, Main(ps)
      PROVE  /\ pc \in ps /\ ~ inHandler /\ stack = <<>> /\ hpc = "out"
             /\ pc' = Then(pc) /\ hpc' = hpc /\ base' = base
             /\ pc = "loop:resume" => mie = {}
  BY <1>1, <1>2, RunsWhenDisabled DEF Main, MainRuns, Places
<1>3. CASE MainDisables
  <2>1. /\ pc \in {"mstatus.mie.clr", "loop:mstatus.mie.clr"}
        /\ mstatus' = mstatus \ {3} /\ UNCHANGED <<mie, mcause, installed, inHandler, mip>>
    BY <1>3, FieldBits DEF MainDisables, Main, GlobalDisable
  <2>2. /\ ~ inHandler /\ hpc = "out" /\ hpc' = hpc
        /\ pc' = IF pc = "mstatus.mie.clr" THEN "set_time_cmp" ELSE "loop:mie.mti.set"
    BY <1>2, <1>3, <2>1 DEF MainDisables, Then
  <2> QED BY <1>1, <2>1, <2>2 DEF HartInv, Places, Gates, Armed, Installing
<1>4. CASE MainEnables
  <2>1. /\ pc \in {"mstatus.mie.set", "loop:mstatus.mie.set"}
        /\ mstatus' = mstatus \cup {3} /\ UNCHANGED <<mie, mcause, installed, inHandler, mip, stack>>
    BY <1>4, FieldBits DEF MainEnables, Main, GlobalEnable, unchangedCoro
  <2>2. ~ inHandler /\ hpc = "out" /\ hpc' = hpc /\ pc' = "loop:resume" /\ stack = <<>>
    BY <1>2, <1>4, <2>1 DEF MainEnables, Then
  <2> QED BY <1>1, <2>1, <2>2 DEF HartInv, Places, Gates, Armed, Installing
<1>5. CASE MainEnablesTimer
  <2>1. /\ pc \in {"mie.mti.set", "loop:mie.mti.set"}
        /\ mie' = mie \cup {7} /\ UNCHANGED <<mstatus, mcause, installed, inHandler, mip>>
    BY <1>5, FieldBits DEF MainEnablesTimer, Main, TimerEnable
  <2>2. /\ ~ inHandler /\ hpc = "out" /\ hpc' = hpc
        /\ pc' = IF pc = "mie.mti.set" THEN "mstatus.mie.set" ELSE "loop:wfi"
    BY <1>2, <1>5, <2>1 DEF MainEnablesTimer, Then
  <2> QED BY <1>1, <2>1, <2>2 DEF HartInv, Places, Gates, Armed, Installing, mti
<1>6. CASE MainSetsTimer
  <2>1. /\ pc \in {"set_time_cmp", "loop:set_time_cmp"} /\ UNCHANGED hartVars
        /\ mip' = IF pc = "set_time_cmp" THEN mip \cup {mti} ELSE mip \ {mti}
    BY <1>6 DEF MainSetsTimer, Main
  <2>2. /\ ~ inHandler /\ hpc = "out" /\ hpc' = hpc
        /\ pc' = IF pc = "set_time_cmp" THEN "t3" ELSE "loop:mstatus.mie.clr"
    BY <1>2, <1>6, <2>1 DEF MainSetsTimer, Then
  <2> QED BY <1>1, <2>1, <2>2 DEF HartInv, Places, Gates, Armed, Installing, hartVars
<1>7. ASSUME NEW h \in Handle, MainCalls(h) PROVE HartInv'
  <2>1. pc = h /\ h \in {"t3", "t4", "t5"} /\ UNCHANGED <<hartVars, mip>>
    BY <1>7, IrqAssumption DEF MainCalls
  <2>2. /\ ~ inHandler /\ hpc = "out" /\ hpc' = hpc
        /\ pc' \in {"t4", "t5", "_execute_handler"}
    BY <1>2, <1>7, <2>1 DEF MainCalls, Then
  <2> QED BY <1>1, <2>1, <2>2 DEF HartInv, Places, Gates, Armed, Installing, hartVars
<1>8. CASE MainInstalls
  <2>1. /\ pc \in Vector /\ installed' = installed \cup {pc}
        /\ UNCHANGED <<mstatus, mie, mcause, inHandler, mip>>
    BY <1>8 DEF MainInstalls, Main, Install
  <2>2. /\ ~ inHandler /\ hpc = "out" /\ hpc' = hpc
        /\ pc = "_execute_handler" => pc' = "mscratch"
        /\ pc = "mscratch" => pc' = "mtvec"
        /\ pc = "mtvec" => pc' = "mie.mti.set"
    BY <1>2, <1>8, <2>1 DEF MainInstalls, Then
  <2>3. Places' /\ Gates' /\ Armed'
    BY <1>1, <2>1, <2>2 DEF Places, Gates, Armed, Vector
  <2>4. Installing'
    BY <1>1, <2>1, <2>2 DEF Installing, Vector
  <2> QED BY <2>3, <2>4 DEF HartInv
<1>9. CASE MainResumesThread
  <2>1. pc = "loop:resume" /\ UNCHANGED <<hartVars, mip>>
    BY <1>9 DEF MainResumesThread, Main
  <2>2. ~ inHandler /\ hpc = "out" /\ hpc' = hpc /\ pc' = "loop:set_time_cmp" /\ mie = {}
    BY <1>2, <1>9, <2>1 DEF MainResumesThread, Then
  <2> QED BY <1>1, <2>1, <2>2 DEF HartInv, Places, Gates, Armed, Installing, hartVars
<1>10. CASE MainWaits
  <2>1. pc = "loop:wfi" /\ UNCHANGED <<hartVars, mip>> /\ mip \cap mie # {}
    BY <1>10 DEF MainWaits, Main, wfi
  <2>2. ~ inHandler /\ hpc = "out" /\ hpc' = hpc /\ pc' = "loop:mstatus.mie.set"
    BY <1>2, <1>10, <2>1 DEF MainWaits, Then
  <2>3. mti \in mip
    BY <1>1, <2>1 DEF Gates
  <2> QED BY <1>1, <2>1, <2>2, <2>3 DEF HartInv, Places, Gates, Armed, Installing, hartVars
<1> QED BY <1>3, <1>4, <1>5, <1>6, <1>7, <1>8, <1>9, <1>10 DEF MainNext

(* So do the loops of resume() and the bodies ...                          *)
LEMMA FrameHart ==
  ASSUME HartInv, FrameRuns, UNCHANGED <<hartVars, pc, hpc, base, mip>>
  PROVE  HartInv'
<1>1. Places /\ Gates /\ Armed /\ Installing
  BY DEF HartInv
<1>2. Places' /\ Gates' /\ Installing'
  BY <1>1 DEF Places, Gates, Installing, hartVars
<1>3. Armed'
  <2>1. ASSUME pc = "loop:resume", ~ inHandler PROVE mie = {}
    BY <2>1, RunsWhenDisabled DEF FrameRuns
  <2>2. ~ ({} = {mti})
    OBVIOUS
  <2> QED BY <1>1, <2>1, <2>2 DEF Armed, hartVars
<1> QED BY <1>2, <1>3 DEF HartInv

(* ... the handler ...                                                     *)
LEMMA HandlerHart ==
  ASSUME HartInv, HandlerNext, stack \in Seq(Frame)
  PROVE  HartInv'
<1>1. Places /\ Gates /\ Armed /\ Installing
  BY DEF HartInv
<1> USE DEF Setup, Quiet, Sleep, Early
<1>2. CASE HandlerEntry
  <2>1. /\ ~ inHandler /\ inHandler' = TRUE /\ Interruptible(mip)
        /\ mstatus' = (mstatus \cup {7}) \ {3}
        /\ mcause' = [interrupt |-> TRUE, code |-> Taken(mip)]
        /\ UNCHANGED <<mie, installed, pc, mip>>
        /\ hpc' = "isr_context.resume" /\ base' = Len(stack)
    BY <1>2, FieldBits DEF HandlerEntry, Trap
  <2>2. mie = {mti} /\ pc = "loop:resume" /\ stack = <<>> /\ Taken(mip) = mti
    BY <2>1, TakenAtLoopHead
  <2>3. base' = 0 /\ mcause'.interrupt = TRUE /\ mcause'.code = mti
    BY <2>1, <2>2
  <2> QED BY <1>1, <2>1, <2>2, <2>3 DEF HartInv, Places, Gates, Armed, Installing
<1>3. CASE HandlerAll
  <2>1. /\ inHandler /\ hpc = "isr_context.resume" /\ hpc' = "mcause"
        /\ UNCHANGED <<hartVars, pc, base, mip>>
    BY <1>3 DEF HandlerAll, Handler
  <2> QED BY <1>1, <2>1 DEF HartInv, Places, Gates, Armed, Installing, hartVars
<1>4. CASE HandlerCause
  <2>1. /\ inHandler /\ hpc = "mcause" /\ hpc' = Dispatch
        /\ UNCHANGED <<hartVars, pc, base, mip>>
    BY <1>4 DEF HandlerCause, Handler
  <2>2. mcause.interrupt /\ mcause.code = mti
    BY <1>1, <2>1 DEF Gates
  <2>3. hpc' = "mie.mti.clr"
    BY <2>1, <2>2 DEF Dispatch, mti, mei
  <2> QED BY <1>1, <2>1, <2>3 DEF HartInv, Places, Gates, Armed, Installing, hartVars
<1>5. CASE HandlerDisablesTimer
  <2>1. /\ inHandler /\ hpc = "mie.mti.clr" /\ hpc' = "isr_mti_context"
        /\ mie' = mie \ {7}
        /\ UNCHANGED <<mstatus, mcause, installed, inHandler, pc, base, mip>>
    BY <1>5, FieldBits DEF HandlerDisablesTimer, Handler, TimerDisable
  <2>2. mie' = {}
    BY <1>1, <2>1 DEF Gates, mti
  <2> QED BY <1>1, <2>1, <2>2 DEF HartInv, Places, Gates, Armed, Installing
<1>6. CASE HandlerResumes
  <2>1. /\ inHandler /\ hpc \in Contexts /\ hpc' = "mret"
        /\ UNCHANGED <<hartVars, pc, base, mip>>
    BY <1>6 DEF HandlerResumes, Handler
  <2>2. hpc = "isr_mti_context"
    BY <1>1, <2>1 DEF Places, Contexts
  <2> QED BY <1>1, <2>1, <2>2 DEF HartInv, Places, Gates, Armed, Installing, hartVars
<1>7. CASE HandlerReturns
  <2>1. /\ inHandler /\ hpc = "mret" /\ hpc' = "out" /\ inHandler' = FALSE
        /\ UNCHANGED <<mie, mcause, installed, pc, base, mip>>
    BY <1>7 DEF HandlerReturns, Handler, Mret
  <2>2. mie = {} /\ pc = "loop:resume"
    BY <1>1, <2>1 DEF Gates, Places
  <2> QED BY <1>1, <2>1, <2>2 DEF HartInv, Places, Gates, Armed, Installing
<1> QED BY <1>2, <1>3, <1>4, <1>5, <1>6, <1>7 DEF HandlerNext

(* ... and the lines that go up and down.                                  *)
LEMMA LineHart ==
  ASSUME HartInv, TimerFires \/ \E i \in {msi, mei} : LineChanges(i)
  PROVE  HartInv'
<1>1. mti \in mip => mti \in mip'
  BY DEF TimerFires, LineChanges, msi, mti, mei
<1>2. UNCHANGED <<hartVars, pc, hpc, base, stack>>
  BY DEF TimerFires, LineChanges, unchangedCoro
<1> QED BY <1>1, <1>2 DEF HartInv, Places, Gates, Armed, Installing, hartVars

-----------------------------------------------------------------------------
(* The stack.                                                              *)

(* The scheduler whose loop executes is alone on the stack.                *)
LEMMA LoopFrame ==
  ASSUME Frames, NEW s \in Scheduler, Executing(s)
  PROVE  stack = <<s>> /\ (s = "main_thread" <=> ~ inHandler)
<1>1. stack # <<>> /\ Last(stack) = s /\ s \notin Handle
  BY UnorderedAssumption DEF Executing
<1>2. ASSUME NEW h \in Handle, stack = <<h>> PROVE FALSE
  BY <1>1, <1>2, ShortSequences
<1>3. ASSUME NEW t, NEW h \in Handle, stack = <<t, h>> PROVE FALSE
  BY <1>1, <1>3, ShortSequences
<1>4. ASSUME NEW t, stack = <<t>> PROVE t = s
  BY <1>1, <1>4, ShortSequences
<1> QED BY <1>1, <1>2, <1>3, <1>4 DEF Frames

(* The coroutine that executes was just called, or lies on the resume() of *)
(* the scheduler it awaited.                                               *)
LEMMA BodyFrame ==
  ASSUME Frames, NEW h \in Handle, Executing(h)
  PROVE  \/ stack = <<h>> /\ at[h] = "begin" /\ ~ inHandler
         \/ \E s \in Scheduler : /\ stack = <<s, h>> /\ at[h] = Behind(s)
                                 /\ s = "main_thread" <=> ~ inHandler
<1>1. stack # <<>> /\ Last(stack) = h /\ h \notin Scheduler
  BY UnorderedAssumption DEF Executing
<1>2. ASSUME NEW g, stack = <<g>> PROVE g = h
  BY <1>1, <1>2, ShortSequences
<1>3. ASSUME NEW t, NEW g, stack = <<t, g>> PROVE g = h
  BY <1>1, <1>3, ShortSequences
<1> QED BY <1>1, <1>2, <1>3 DEF Frames

(* The scheduler that a coroutine awaits next.                             *)
Target(h) == IF at[h] = "isr" THEN "main_thread" ELSE isr_scheduler(h)

(* What a body does: it awaits the next scheduler in turn.                 *)
LEMMA BodyAwaits ==
  ASSUME Homes, NEW h \in Handle, BodyStep(h)
  PROVE  /\ Target(h) \in Scheduler /\ Await(h, Target(h)) /\ Executing(h)
         /\ at' = [at EXCEPT ![h] = Behind(Target(h))]
         /\ Target(h) # "main_thread" => Target(h) = isr_scheduler(h)
<1>1. isr_scheduler(h) \in Contexts
  BY IrqAssumption DEF isr_scheduler, Contexts
<1>2. "main_thread" \notin Contexts
  BY DEF Contexts
<1> QED BY <1>1, <1>2, IrqAssumption DEF BodyStep, Target, Behind, Await

(* Its list has room.  The list of an interrupt is that of one coroutine;  *)
(* that of main has an entry for each of the three.                        *)
LEMMA RoomToAwait ==
  ASSUME IInv, Homes, NEW h \in Handle, Executing(h), Target(h) \in Scheduler
  PROVE  Len(waiting[Target(h)]) # MaxTasks[Target(h)]
<1> DEFINE s == Target(h)
           q == waiting[s]
<1>1. TypeOK /\ ListsHold /\ StackHolds /\ status[h] = "running"
  BY Halves, TopRuns
<1>2. q \in Seq(Handle)
  BY <1>1 DEF TypeOK
<1>3. ASSUME NEW i \in DOMAIN q
      PROVE  q[i] \in {"t3", "t4", "t5"} /\ q[i] # h
  BY <1>1, <1>3, Members, IrqAssumption DEF ListsHold
<1>4. CASE s = "main_thread"
  <2> SUFFICES ASSUME Len(q) = 3 PROVE FALSE
    BY <1>4, IrqAssumption
  <2>1. 1 \in DOMAIN q /\ 2 \in DOMAIN q /\ 3 \in DOMAIN q
    BY <1>2, LenProperties
  <2>2. q[1] # q[2] /\ q[1] # q[3] /\ q[2] # q[3]
    BY <1>1, <2>1, OnlyOnce
  <2>3. h \in {"t3", "t4", "t5"}
    BY IrqAssumption
  <2> HIDE DEF q
  <2> QED BY <1>3, <2>1, <2>2, <2>3
<1>5. CASE s # "main_thread"
  <2> SUFFICES ASSUME Len(q) = 1 PROVE FALSE
    BY <1>5, IrqAssumption
  <2>1. 1 \in DOMAIN q
    BY <1>2, LenProperties
  <2>2. s = isr_scheduler(q[1]) /\ s = isr_scheduler(h)
    BY <1>5, <2>1 DEF Homes, Target
  <2>3. h \in {"t3", "t4", "t5"} /\ q[1] \in {"t3", "t4", "t5"} /\ q[1] # h
    BY <1>3, <2>1, IrqAssumption
  <2> HIDE DEF q, s
  <2> QED BY <2>2, <2>3 DEF isr_scheduler
<1> QED BY <1>4, <1>5

-----------------------------------------------------------------------------
(* The schedulers.                                                         *)

(* Main or the handler calls resume() with nothing on the stack.           *)
ResumeCalled(s) ==
  /\ stack = <<>>
  /\ Resume(s)
  /\ s = "main_thread" <=> ~ inHandler
  /\ UNCHANGED <<inHandler, at>>

(* Every step is a call of a coroutine or of resume(), a round of the loop *)
(* in resume(), an await, or none of the schedulers' business.             *)
LEMMA Kinds ==
  ASSUME IrqInv, [IrqNext]_irqVars
  PROVE  \/ \E h \in Handle : MainCalls(h)
         \/ \E s \in Scheduler : ResumeCalled(s) /\ pc = "loop:resume"
         \/ LoopStep
         \/ \E h \in Handle : BodyStep(h)
         \/ UNCHANGED <<waiting, status, stack, at>> /\ (inHandler' # inHandler => stack = <<>>)
<1>1. HartInv /\ Places /\ stack \in Seq(Frame)
  BY DEF IrqInv, HartInv, IInv, TypeOK, Frame
<1>2. "main_thread" \in Scheduler /\ Contexts \subseteq Scheduler
      /\ "main_thread" \notin Contexts
  BY IrqAssumption DEF Contexts
<1>3. ASSUME NEW p, Handler(p) PROVE stack = <<>> /\ pc = "loop:resume" /\ at' = at
  <2>1. inHandler /\ Len(stack) = base /\ at' = at
    BY <1>3 DEF Handler
  <2>2. base = 0 /\ pc = "loop:resume"
    BY <1>1, <2>1 DEF Places
  <2> QED BY <1>1, <2>1, <2>2, EmptySeq
<1>4. CASE MainResumesThread
  <2>1. ResumeCalled("main_thread") /\ pc = "loop:resume"
    BY <1>4 DEF MainResumesThread, Main, MainRuns, ResumeCalled, hartVars
  <2> QED BY <1>2, <2>1
<1>5. CASE HandlerAll
  <2>1. "isr_context" \in Contexts /\ inHandler
    BY <1>5 DEF Contexts, HandlerAll, Handler
  <2>2. ResumeCalled("isr_context") /\ pc = "loop:resume"
    BY <1>2, <1>3, <1>5, <2>1 DEF HandlerAll, ResumeCalled, hartVars
  <2> QED BY <1>2, <2>1, <2>2
<1>6. CASE HandlerResumes
  <2>1. hpc \in Contexts /\ inHandler
    BY <1>6 DEF HandlerResumes, Handler
  <2>2. ResumeCalled(hpc) /\ pc = "loop:resume"
    BY <1>2, <1>3, <1>6, <2>1 DEF HandlerResumes, ResumeCalled, hartVars
  <2> QED BY <1>2, <2>1, <2>2
<1>7. CASE HandlerEntry
  <2>1. stack = <<>>
    BY <1>1, <1>7, TakenAtLoopHead DEF HandlerEntry, Trap
  <2> QED BY <1>7, <2>1 DEF HandlerEntry, unchangedCoro
<1>8. CASE HandlerCause \/ HandlerDisablesTimer \/ HandlerReturns
  BY <1>3, <1>8 DEF HandlerCause, HandlerDisablesTimer, HandlerReturns
<1>9. CASE MainDisables \/ MainEnables \/ MainEnablesTimer \/ MainSetsTimer
           \/ MainInstalls \/ MainWaits
  BY <1>9 DEF MainDisables, MainEnables, MainEnablesTimer, MainSetsTimer,
              MainInstalls, MainWaits, unchangedCoro, Main
<1>10. CASE TimerFires \/ \E i \in {msi, mei} : LineChanges(i)
  BY <1>10 DEF TimerFires, LineChanges, unchangedCoro, hartVars
<1>11. CASE UNCHANGED irqVars
  BY <1>11 DEF irqVars
<1> QED BY <1>4, <1>5, <1>6, <1>7, <1>8, <1>9, <1>10, <1>11
        DEF IrqNext, CpuNext, MainNext, HandlerNext

(* Every step is one of UnorderedScheduler or leaves it alone: the handler *)
(* calls resume() as the loops of the tests do, from an empty stack.       *)
LEMMA StepsSchedule ==
  ASSUME IrqInv, [IrqNext]_irqVars
  PROVE  [Next]_vars
<1>1. ASSUME NEW h \in Handle, MainCalls(h) PROVE Next
  BY <1>1 DEF MainCalls, Next
<1>2. ASSUME NEW s \in Scheduler, ResumeCalled(s), pc = "loop:resume" PROVE Next
  <2>1. "t3" \in Handle /\ status["t3"] # "absent" /\ status["t3"] # "done"
    BY <1>2, IrqAssumption DEF IrqInv, Alive
  <2>2. MainResumes(s)
    BY <1>2, <2>1 DEF MainResumes, AllDone, ResumeCalled
  <2> QED BY <2>2 DEF Next
<1>3. CASE LoopStep
  BY <1>3 DEF LoopStep, Next, Loop
<1>4. ASSUME NEW h \in Handle, BodyStep(h) PROVE Next
  BY <1>4, BodyAwaits DEF IrqInv, Next, Body
<1>5. CASE UNCHANGED <<waiting, status, stack>>
  BY <1>5 DEF vars
<1> QED BY <1>1, <1>2, <1>3, <1>4, <1>5, Kinds

(* The stack keeps its shape.                                              *)
LEMMA FramesKept ==
  ASSUME IrqInv, [IrqNext]_irqVars
  PROVE  Frames'
<1>1. Frames /\ Homes /\ TypeOK
  BY DEF IrqInv, IInv
<1>2. ASSUME NEW h \in Handle, MainCalls(h) PROVE Frames'
  <2>1. /\ stack' = <<h>> /\ at' = at /\ at[h] = "begin"
        /\ ~ inHandler /\ inHandler' = inHandler
    BY <1>1, <1>2, ShortSequences
       DEF MainCalls, Main, MainRuns, Call, Homes, hartVars
  <2> QED BY <2>1 DEF Frames
<1>3. ASSUME NEW s \in Scheduler, ResumeCalled(s) PROVE Frames'
  <2>1. stack' = <<s>>
    BY <1>3, ShortSequences DEF ResumeCalled, Resume
  <2> QED BY <1>3, <2>1 DEF ResumeCalled, Frames
<1>4. CASE LoopStep
  <2>1. at' = at /\ inHandler' = inHandler
    BY <1>4 DEF LoopStep, hartVars
  <2>2. ASSUME NEW s \in Scheduler, ResumeNext(s) PROVE Frames'
    <3>1. stack = <<s>> /\ (s = "main_thread" <=> ~ inHandler)
      BY <1>1, <2>2, LoopFrame DEF ResumeNext
    <3>2. PICK h \in Handle : h = waiting[s][1] /\ Head(waiting[s]) = h
                              /\ 1 \in DOMAIN waiting[s]
      BY <1>1, <2>2, PopEntries
    <3>3. stack' = <<s, h>> /\ at[h] = Behind(s)
      BY <1>1, <2>2, <3>1, <3>2, ShortSequences DEF ResumeNext, Homes
    <3> QED BY <2>1, <3>1, <3>3 DEF Frames, Behind
  <2>3. ASSUME NEW s \in Scheduler, ResumeEnds(s) PROVE Frames'
    BY <1>1, <2>3, LoopFrame, ShortSequences DEF ResumeEnds, Frames
  <2> QED BY <1>4, <2>2, <2>3 DEF LoopStep
<1>5. ASSUME NEW h \in Handle, BodyStep(h) PROVE Frames'
  <2>1. Executing(h) /\ stack' = Front(stack) /\ inHandler' = inHandler
    BY <1>1, <1>5, BodyAwaits DEF Await, BodyStep, hartVars
  <2>2. CASE stack = <<h>>
    BY <2>1, <2>2, ShortSequences DEF Frames
  <2>3. ASSUME NEW s \in Scheduler, stack = <<s, h>>, s = "main_thread" <=> ~ inHandler
        PROVE  Frames'
    <3>1. stack' = <<s>>
      BY <2>1, <2>3, ShortSequences
    <3> QED BY <2>1, <2>3, <3>1 DEF Frames
  <2> QED BY <1>1, <2>1, <2>2, <2>3, BodyFrame
<1>6. CASE UNCHANGED <<waiting, status, stack, at>> /\ (inHandler' # inHandler => stack = <<>>)
  BY <1>1, <1>6 DEF Frames, Behind
<1> QED BY <1>2, <1>3, <1>4, <1>5, <1>6, Kinds

(* The coroutines are where they awaited to be.                            *)
LEMMA HomesKept ==
  ASSUME IrqInv, [IrqNext]_irqVars
  PROVE  Homes'
<1>1. /\ Homes /\ TypeOK /\ ListsHold
      /\ status \in [Handle -> {"absent", "running", "suspended", "done"}]
  BY Halves DEF IrqInv, TypeOK
<1>2. ASSUME UNCHANGED <<waiting, at>>,
             \A h \in Handle : status'[h] = "absent" => status[h] = "absent"
      PROVE  Homes'
  BY <1>1, <1>2 DEF Homes
<1>3. ASSUME NEW h \in Handle, MainCalls(h) PROVE Homes'
  <2>1. UNCHANGED <<waiting, at>> /\ status' = [status EXCEPT ![h] = "running"]
    BY <1>3 DEF MainCalls, Call
  <2> QED BY <1>1, <1>2, <2>1
<1>4. ASSUME NEW s \in Scheduler, ResumeCalled(s) PROVE Homes'
  BY <1>2, <1>4 DEF ResumeCalled, Resume
<1>5. CASE LoopStep
  <2>1. at' = at
    BY <1>5 DEF LoopStep
  <2>2. ASSUME NEW s \in Scheduler, ResumeNext(s) PROVE Homes'
    <3>1. Dequeued(s) /\ Head(waiting[s]) \in Handle
      BY <1>1, <2>2, PopEntries
    <3>2. ASSUME NEW t \in Scheduler, NEW i \in DOMAIN waiting'[t]
          PROVE  \E j \in DOMAIN waiting[t] : waiting'[t][i] = waiting[t][j]
      BY <3>1, <3>2 DEF Dequeued
    <3>3. \A h \in Handle : status'[h] = "absent" => status[h] = "absent"
      BY <1>1, <2>2, <3>1 DEF ResumeNext
    <3> QED BY <1>1, <2>1, <3>2, <3>3 DEF Homes
  <2>3. ASSUME NEW s \in Scheduler, ResumeEnds(s) PROVE Homes'
    BY <1>2, <2>1, <2>3 DEF ResumeEnds
  <2> QED BY <1>5, <2>2, <2>3 DEF LoopStep
<1>6. ASSUME NEW h \in Handle, BodyStep(h) PROVE Homes'
  <2>1. PICK s \in Scheduler :
          /\ Await(h, s) /\ at' = [at EXCEPT ![h] = Behind(s)]
          /\ s # "main_thread" => s = isr_scheduler(h)
    BY <1>1, <1>6, BodyAwaits
  <2>2. Enqueued(h, s) /\ status[h] = "running"
    BY <1>1, <2>1, InsertEntries, TopRuns DEF Await, IrqInv
  <2>3. at' \in [Handle -> {"begin", "isr", "main"}] /\ at'[h] = Behind(s)
    BY <1>1, <2>1 DEF Homes, Behind
  <2>4. \A g \in Handle : status'[g] = "absent" => at'[g] = "begin"
    BY <1>1, <2>1 DEF Homes, Await
  <2>5. ASSUME NEW t \in Scheduler, NEW i \in DOMAIN waiting'[t]
        PROVE  /\ at'[waiting'[t][i]] = Behind(t)
               /\ t # "main_thread" => t = isr_scheduler(waiting'[t][i])
    <3>1. CASE i \in DOMAIN waiting[t] /\ waiting'[t][i] = waiting[t][i]
      <4>1. waiting[t][i] \in Handle /\ waiting[t][i] # h
        BY <1>1, <2>2, <3>1, Members DEF ListsHold
      <4>2. at'[waiting[t][i]] = at[waiting[t][i]]
        BY <1>1, <2>1, <4>1 DEF Homes
      <4> QED BY <1>1, <3>1, <4>2 DEF Homes
    <3>2. CASE t = s /\ waiting'[t][i] = h
      BY <2>1, <2>3, <3>2
    <3> QED BY <2>2, <3>1, <3>2 DEF Enqueued
  <2> QED BY <2>3, <2>4, <2>5 DEF Homes, Behind, isr_scheduler
<1>7. CASE UNCHANGED <<waiting, status, stack, at>>
  BY <1>2, <1>7
<1> QED BY <1>3, <1>4, <1>5, <1>6, <1>7, Kinds

(* No step loses a coroutine.                                              *)
LEMMA NoneLostHere ==
  ASSUME IrqInv, [IrqNext]_irqVars, NEW g \in Handle
  PROVE  ~ Lost(g)'
<1> SUFFICES ASSUME Lost(g)' PROVE FALSE
  OBVIOUS
<1>1. IInv /\ Homes /\ TypeOK /\ ~ Lost(g)
  BY DEF IrqInv, IInv, Alive
<1>2. status[g] = "running" /\ status'[g] = "suspended"
  <2>1. PICK s \in Scheduler : Await(g, s)
    BY <1>1, StepsSchedule, LostStep
  <2> QED BY <1>1, <2>1, TopRuns DEF Lost, Await
<1>3. ASSUME NEW h \in Handle, MainCalls(h) PROVE FALSE
  BY <1>1, <1>2, <1>3 DEF MainCalls, Call, TypeOK
<1>4. ASSUME NEW s \in Scheduler, ResumeCalled(s) PROVE FALSE
  BY <1>2, <1>4 DEF ResumeCalled, Resume
<1>5. CASE LoopStep
  BY <1>1, <1>2, <1>5 DEF LoopStep, ResumeNext, ResumeEnds, TypeOK
<1>6. ASSUME NEW h \in Handle, BodyStep(h) PROVE FALSE
  <2>1. PICK s \in Scheduler : /\ s = Target(h) /\ Await(h, s) /\ Executing(h)
    BY <1>1, <1>6, BodyAwaits
  <2>2. Len(waiting[s]) # MaxTasks[s]
    BY <1>1, <2>1, RoomToAwait
  <2>3. \E i \in DOMAIN waiting'[s] : waiting'[s][i] = h
    BY <1>1, <2>1, <2>2, InsertEntries DEF Await
  <2>4. g = h
    BY <1>1, <1>2, <2>1 DEF Await, TypeOK
  <2> QED BY <2>3, <2>4 DEF Lost
<1> QED BY <1>2, <1>3, <1>4, <1>5, <1>6, Kinds

(* The coroutines go on.                                                   *)
LEMMA AliveKept ==
  ASSUME IrqInv, [IrqNext]_irqVars
  PROVE  Alive'
<1> DEFINE Before == {"mstatus.mie.clr", "set_time_cmp", "t3"}
<1>1. Alive /\ Homes /\ TypeOK /\ Places /\ "t3" \in Handle
  BY IrqAssumption DEF IrqInv, IInv, HartInv
<1>2. ASSUME NEW h \in Handle
      PROVE  /\ status'[h] # "done"
             /\ status[h] # "absent" => status'[h] # "absent"
             /\ MainCalls(h) => status'[h] # "absent"
  <2>1. status[h] # "done" /\ status \in [Handle -> {"absent", "running", "suspended", "done"}]
    BY <1>1 DEF Alive, TypeOK
  <2>2. ASSUME NEW g \in Handle, MainCalls(g)
        PROVE  /\ status'[h] # "done"
               /\ status[h] # "absent" => status'[h] # "absent"
               /\ g = h => status'[h] # "absent"
    BY <2>1, <2>2 DEF MainCalls, Call
  <2>3. ASSUME NEW s \in Scheduler, ResumeCalled(s) PROVE status' = status
    BY <2>3 DEF ResumeCalled, Resume
  <2>4. ASSUME LoopStep
        PROVE  status'[h] # "done" /\ (status[h] # "absent" => status'[h] # "absent")
    BY <2>1, <2>4 DEF LoopStep, ResumeNext, ResumeEnds
  <2>5. ASSUME NEW g \in Handle, BodyStep(g)
        PROVE  status'[h] # "done" /\ (status[h] # "absent" => status'[h] # "absent")
    BY <1>1, <2>1, <2>5, BodyAwaits DEF Await
  <2> QED BY <2>1, <2>2, <2>3, <2>4, <2>5, Kinds
<1>3. ASSUME pc' \notin Before, status["t3"] = "absent" PROVE MainCalls("t3")
  <2>1. pc \in Before
    BY <1>1, <1>3 DEF Alive
  <2>2. pc' # pc
    BY <1>3, <2>1
  <2>3. MainNext
    BY <2>2 DEF IrqNext, CpuNext, LoopStep, BodyStep, HandlerNext, HandlerEntry, HandlerAll,
                HandlerCause, HandlerDisablesTimer, HandlerResumes, HandlerReturns,
                Handler, TimerFires, LineChanges, irqVars
  <2>4. pc' = Then(pc)
    BY <2>3 DEF MainNext, MainDisables, MainEnables, MainEnablesTimer, MainSetsTimer,
                MainCalls, MainInstalls, MainResumesThread, MainWaits, Main
  <2>5. pc = "t3"
    BY <1>3, <2>1, <2>4 DEF Then
  <2> QED BY <2>3, <2>5 DEF MainNext, MainDisables, MainEnables, MainEnablesTimer,
             MainSetsTimer, MainCalls, MainInstalls, MainResumesThread, MainWaits, Main, Vector
<1>4. pc' \notin Before => status'["t3"] # "absent"
  BY <1>1, <1>2, <1>3
<1> QED BY <1>2, <1>4, NoneLostHere DEF Alive

-----------------------------------------------------------------------------
(* The inductive invariant holds when main() begins.                       *)
LEMMA IrqInitInv == IrqInit => IrqInv
<1> SUFFICES ASSUME IrqInit PROVE IrqInv
  OBVIOUS
<1>1. HartInv /\ IInv
  BY HartInitInv, InitInv DEF IrqInit
<1>2. Frames /\ Homes /\ Alive
  BY DEF IrqInit, Init, Frames, Homes, Alive, Lost
<1> QED BY <1>1, <1>2 DEF IrqInv

(* Every step preserves it.                                                *)
LEMMA IrqNextInv ==
  ASSUME Spurious = FALSE
  PROVE  IrqInv /\ [IrqNext]_irqVars => IrqInv'
<1> SUFFICES ASSUME IrqInv, [IrqNext]_irqVars PROVE IrqInv'
  OBVIOUS
<1>1. HartInv /\ stack \in Seq(Frame)
  BY DEF IrqInv, IInv, TypeOK, Frame
<1>2. HartInv'
  <2>1. CASE LoopStep \/ \E h \in Handle : BodyStep(h)
    BY <1>1, <2>1, FrameHart DEF LoopStep, BodyStep
  <2>2. CASE UNCHANGED irqVars
    BY <1>1, <2>2 DEF HartInv, Places, Gates, Armed, Installing, irqVars
  <2> QED BY <1>1, <2>1, <2>2, MainHart, HandlerHart, LineHart DEF IrqNext, CpuNext
<1>3. IInv'
  BY StepsSchedule, NextInv DEF IrqInv
<1> QED BY <1>2, <1>3, FramesKept, HomesKept, AliveKept DEF IrqInv

(* Wherever the interrupt comes, the handler runs at the head of main's    *)
(* loop, where main is in none of the resume() loops and coroutines that   *)
(* share the lists with the handler, and it is installed then.             *)
THEOREM HandlerOnlyAtLoopHead ==
  ASSUME Spurious = FALSE
  PROVE  IrqSafety => []HandlerAtLoopHead
<1>1. IrqInv => HandlerAtLoopHead
  BY DEF IrqInv, HartInv, Places, Installing, HandlerAtLoopHead, Quiet, Sleep
<1> QED BY <1>1, IrqInitInv, IrqNextInv, PTL DEF IrqSafety

(* A coroutine executes in the handler between its co_await isr_scheduler  *)
(* and its co_await main_scheduler, and in main otherwise, for every       *)
(* timing of the interrupts.                                               *)
THEOREM ExecutesWhereAwaited ==
  ASSUME Spurious = FALSE
  PROVE  IrqSafety => []RunsWhereAwaited
<1>1. IrqInv => RunsWhereAwaited
  <2> SUFFICES ASSUME IrqInv, NEW h \in Handle, Executing(h)
               PROVE  at[h] = "isr" <=> inHandler
    BY DEF RunsWhereAwaited
  <2> QED BY BodyFrame DEF IrqInv, Behind
<1> QED BY <1>1, IrqInitInv, IrqNextInv, PTL DEF IrqSafety

(* The lists of one entry for the handler and of three for main are long   *)
(* enough: no coroutine is dropped on its way between the two, and each is *)
(* held in one place.                                                      *)
THEOREM NothingDropped ==
  ASSUME Spurious = FALSE
  PROVE  IrqSafety => []NoneDropped
<1>1. IrqInv => NoneDropped
  BY DEF IrqInv, IInv, Alive, NoneDropped
<1> QED BY <1>1, IrqInitInv, IrqNextInv, PTL DEF IrqSafety

(* Although an interrupt handler and main use the schedulers of the        *)
(* example, they are used as one thread uses them.                         *)
THEOREM IrqImplementsUnordered ==
  ASSUME Spurious = FALSE
  PROVE  IrqSafety => Safety
<1>1. IrqInit => Init
  BY DEF IrqInit
<1>2. IrqInv /\ [IrqNext]_irqVars => [Next]_vars
  BY StepsSchedule
<1> QED BY <1>1, <1>2, IrqInitInv, IrqNextInv, PTL DEF IrqSafety, Safety
=============================================================================
