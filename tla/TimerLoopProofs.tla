-------------------------- MODULE TimerLoopProofs --------------------------
(***************************************************************************)
(* Proofs about the event loops of TimerLoop, for any coroutines, periods  *)
(* and time, and for a wfi that may return at any time.                    *)
(***************************************************************************)
EXTENDS TimerLoop, OrderedSchedulerProofs

(* Where main is: setting up, with the timer interrupt disabled; between   *)
(* enabling the two in example_timer(); in the loop where it may be        *)
(* interrupted; and where it prepares to sleep and sleeps.                 *)
Setup ==
  {"set_time_cmp", "call", "_execute_handler", "mscratch", "mtvec", "mie.mti.set"}
Open ==
  {"now", "resume", "pending", "loop:delay", "loop:set_time_cmp", "loop:mstatus.mie.clr"}
Sleep == {"loop:mie.mti.set", "loop:wfi", "loop:mstatus.mie.set"}

Places ==
  /\ pc \in {"mstatus.mie.clr", "mstatus.mie.set"} \cup Setup \cup Open \cup Sleep
  /\ hpc \in {"out", "mcause", "mret"}
  /\ eager \in BOOLEAN
  /\ inHandler = (hpc # "out")
  /\ inHandler => pc \in Open

(* Which interrupts are enabled where.                                     *)
Gates ==
  /\ mie = {} \/ mie = {mti}
  /\ pc \in {"mstatus.mie.clr"} \cup Setup => mie = {}
  /\ pc \in {"mstatus.mie.set"} \cup Setup \cup Sleep => 3 \notin mstatus
  /\ pc \in {"loop:wfi", "loop:mstatus.mie.set"} => mie = {mti}
  /\ inHandler => 3 \notin mstatus

(* The constructor of irq::handler has made its writes in order.           *)
Installing ==
  /\ pc = "mscratch" => installed = {"_execute_handler"}
  /\ pc = "mtvec" => installed = {"_execute_handler", "mscratch"}
  /\ pc \in {"mie.mti.set", "mstatus.mie.set"} \cup Open \cup Sleep => installed = Vector
  /\ pc \in {"mstatus.mie.clr", "set_time_cmp", "call", "_execute_handler"} => installed = {}

(* The timer interrupt is enabled only until the handler has run once.     *)
Hits ==
  /\ hits \in {0, 1}
  /\ mie = {mti} /\ hpc # "mcause" => hits = 0
  /\ hpc = "mcause" => mcause.interrupt /\ mcause.code = mti

(* The inductive invariant.                                                *)
LoopInv == Places /\ Gates /\ Installing /\ Hits

-----------------------------------------------------------------------------
(* A constant operand has the effect of the same operand in a register,    *)
(* whichever instruction write_const(), set_const() or clr_const() choose. *)
LEMMA ConstExecutes ==
  ASSUME NEW insn, NEW old, NEW m
  PROVE  Const(insn, old, m) = Execute(insn, old, m)
BY DEF Const, ExecuteImm

(* What set() and clr() of the fields do to the bits.                      *)
LEMMA FieldBits ==
  ASSUME NEW old
  PROVE  /\ set(old, mstatus_data.mie) = old \cup {3}
         /\ clr(old, mstatus_data.mie) = old \ {3}
         /\ set(old, mstatus_data.mpie) = old \cup {7}
         /\ set(old, mie_data.mti) = old \cup {7}
         /\ clr(old, mie_data.mti) = old \ {7}
<1>1. /\ mstatus_data.mie.mask = {3} /\ mstatus_data.mpie.mask = {7}
      /\ mie_data.mti.mask = {7}
  BY DEF mstatus_data, mie_data, Field
<1>2. ASSUME NEW m PROVE /\ Const("csrrs", old, m) = old \cup m
                         /\ Const("csrrc", old, m) = old \ m
  BY ConstExecutes DEF Execute
<1> QED BY <1>1, <1>2 DEF set, clr

(* An interrupt is taken only while main is interruptible.                 *)
LEMMA TakenWhenOpen ==
  ASSUME LoopInv, Interruptible(mip), ~ inHandler
  PROVE  mie = {mti} /\ 3 \in mstatus /\ pc \in Open /\ Taken(mip) = mti
<1>1. mie = {mti}
  BY DEF LoopInv, Gates, Interruptible
<1>2. 3 \in mstatus
  BY DEF Interruptible, Enabled, mstatus_data, Field
<1>3. pc \in Open
  BY <1>1, <1>2 DEF LoopInv, Places, Gates
<1>4. Taken(mip) = mti
  BY <1>1 DEF Taken, mti, mei, msi
<1> QED BY <1>1, <1>2, <1>3, <1>4

(* At the entry of main() nothing is enabled in mie.                       *)
LEMMA LoopInitInv == LoopInit => LoopInv
<1> SUFFICES ASSUME LoopInit PROVE LoopInv
  OBVIOUS
<1>1. Places
  BY DEF LoopInit, HartInit, Places
<1>2. Gates /\ Installing /\ Hits
  BY DEF LoopInit, HartInit, Gates, Installing, Hits, Setup, Open, Sleep, mti
<1> QED BY <1>1, <1>2 DEF LoopInv

-----------------------------------------------------------------------------
(* A statement of main that leaves the registers alone, from p to q within *)
(* the same part of the program.                                           *)
LEMMA PlainStep ==
  ASSUME LoopInv, NEW p, NEW q, Main(p, q), UNCHANGED <<hartVars, hits>>,
         \/ p = "set_time_cmp" /\ q = "call"
         \/ p = "call" /\ q \in {"call", "_execute_handler"}
         \/ p \in Open /\ q \in Open
         \/ p = "loop:wfi" /\ q = "loop:mstatus.mie.set"
  PROVE  LoopInv'
<1>1. Places /\ Gates /\ Installing /\ Hits
  BY DEF LoopInv
<1>2. /\ pc = p /\ pc' = q /\ ~ inHandler /\ hpc' = hpc /\ eager' = eager
      /\ mstatus' = mstatus /\ mie' = mie /\ mcause' = mcause
      /\ installed' = installed /\ inHandler' = inHandler /\ hits' = hits
  BY DEF Main, MainRuns, hartVars
<1>3. Places'
  BY <1>1, <1>2 DEF Places, Setup, Open, Sleep
<1>4. Gates'
  BY <1>1, <1>2 DEF Gates, Setup, Open, Sleep
<1>5. Installing'
  BY <1>1, <1>2 DEF Installing, Open, Sleep
<1>6. Hits'
  BY <1>1, <1>2 DEF Hits
<1> QED BY <1>3, <1>4, <1>5, <1>6 DEF LoopInv

(* riscv::csrs.mstatus.mie.clr()                                           *)
LEMMA DisableStep ==
  ASSUME LoopInv, NEW p, NEW q, MainDisables(p, q),
         \/ p = "mstatus.mie.clr" /\ q = "set_time_cmp"
         \/ p = "loop:mstatus.mie.clr" /\ q = "loop:mie.mti.set"
  PROVE  LoopInv'
<1>1. Places /\ Gates /\ Installing /\ Hits
  BY DEF LoopInv
<1>2. /\ pc = p /\ pc' = q /\ ~ inHandler /\ hpc' = hpc /\ eager' = eager
      /\ mstatus' = mstatus \ {3} /\ mie' = mie /\ mcause' = mcause
      /\ installed' = installed /\ inHandler' = inHandler /\ hits' = hits
  BY FieldBits DEF MainDisables, GlobalDisable, Main, MainRuns
<1>3. Places'
  BY <1>1, <1>2 DEF Places, Setup, Open, Sleep
<1>4. Gates'
  BY <1>1, <1>2 DEF Gates, Setup, Open, Sleep
<1>5. Installing'
  BY <1>1, <1>2 DEF Installing, Open, Sleep
<1>6. Hits'
  BY <1>1, <1>2 DEF Hits
<1> QED BY <1>3, <1>4, <1>5, <1>6 DEF LoopInv

(* riscv::csrs.mstatus.mie.set()                                           *)
LEMMA EnableStep ==
  ASSUME LoopInv, NEW p, MainEnables(p, "now"),
         p \in {"mstatus.mie.set", "loop:mstatus.mie.set"}
  PROVE  LoopInv'
<1>1. Places /\ Gates /\ Installing /\ Hits
  BY DEF LoopInv
<1>2. /\ pc = p /\ pc' = "now" /\ ~ inHandler /\ hpc' = hpc /\ eager' = eager
      /\ mie' = mie /\ mcause' = mcause
      /\ installed' = installed /\ inHandler' = inHandler /\ hits' = hits
  BY DEF MainEnables, GlobalEnable, Main, MainRuns
<1>3. Places'
  BY <1>1, <1>2 DEF Places, Setup, Open, Sleep
<1>4. Gates'
  BY <1>1, <1>2 DEF Gates, Setup, Open, Sleep
<1>5. Installing'
  BY <1>1, <1>2 DEF Installing, Open, Sleep
<1>6. Hits'
  BY <1>1, <1>2 DEF Hits
<1> QED BY <1>3, <1>4, <1>5, <1>6 DEF LoopInv

(* riscv::csrs.mie.mti.set()                                               *)
LEMMA EnableTimerStep ==
  ASSUME LoopInv, NEW p, NEW q, MainEnablesTimer(p, q),
         \/ p = "mie.mti.set" /\ q = "mstatus.mie.set"
         \/ p = "loop:mie.mti.set" /\ q = "loop:wfi"
  PROVE  LoopInv'
<1>1. Places /\ Gates /\ Installing /\ Hits
  BY DEF LoopInv
<1>2. /\ pc = p /\ pc' = q /\ ~ inHandler /\ hpc' = hpc /\ eager' = eager
      /\ mstatus' = mstatus /\ mie' = mie \cup {7} /\ mcause' = mcause
      /\ installed' = installed /\ inHandler' = inHandler /\ hits' = 0
  BY FieldBits DEF MainEnablesTimer, TimerEnable, Main, MainRuns
<1>3. mie' = {mti}
  BY <1>1, <1>2 DEF Gates, mti
<1>4. Places'
  BY <1>1, <1>2 DEF Places, Setup, Open, Sleep
<1>5. Gates'
  BY <1>1, <1>2, <1>3 DEF Gates, Setup, Open, Sleep
<1>6. Installing'
  BY <1>1, <1>2 DEF Installing, Open, Sleep
<1>7. Hits'
  BY <1>1, <1>2 DEF Hits
<1> QED BY <1>4, <1>5, <1>6, <1>7 DEF LoopInv

(* The writes of the constructor of irq::handler.                          *)
LEMMA InstallStep ==
  ASSUME LoopInv, NEW p, NEW q, MainInstalls(p, q),
         \/ p = "_execute_handler" /\ q = "mscratch"
         \/ p = "mscratch" /\ q = "mtvec"
         \/ p = "mtvec" /\ q \in {"mie.mti.set", "now"}
  PROVE  LoopInv'
<1>1. Places /\ Gates /\ Installing /\ Hits
  BY DEF LoopInv
<1>2. /\ pc = p /\ pc' = q /\ ~ inHandler /\ hpc' = hpc /\ eager' = eager
      /\ mstatus' = mstatus /\ mie' = mie /\ mcause' = mcause
      /\ installed' = installed \cup {p} /\ inHandler' = inHandler /\ hits' = hits
  BY DEF MainInstalls, Install, Main, MainRuns
<1>3. Places'
  BY <1>1, <1>2 DEF Places, Setup, Open, Sleep
<1>4. Gates'
  BY <1>1, <1>2 DEF Gates, Setup, Open, Sleep
<1>5. Installing'
  BY <1>1, <1>2 DEF Installing, Open, Sleep, Vector
<1>6. Hits'
  BY <1>1, <1>2 DEF Hits
<1> QED BY <1>3, <1>4, <1>5, <1>6 DEF LoopInv

(* The statements of the handler.                                          *)
LEMMA HandlerStep ==
  ASSUME LoopInv, HandlerEntry \/ HandlerDisablesTimer \/ HandlerReturns
  PROVE  LoopInv'
<1>1. Places /\ Gates /\ Installing /\ Hits
  BY DEF LoopInv
<1>2. CASE HandlerEntry
  <2>1. /\ ~ inHandler /\ Interruptible(mip) /\ inHandler' = TRUE /\ hpc' = "mcause"
        /\ mstatus' = (mstatus \cup {7}) \ {3} /\ mie' = mie
        /\ mcause' = [interrupt |-> TRUE, code |-> Taken(mip)]
        /\ installed' = installed /\ hits' = hits + 1 /\ pc' = pc /\ eager' = eager
    BY <1>2, FieldBits DEF HandlerEntry, Trap
  <2>2. mie = {mti} /\ pc \in Open /\ Taken(mip) = mti
    BY <2>1, TakenWhenOpen
  <2>3. hits = 0
    BY <1>1, <2>1, <2>2 DEF Hits, Places
  <2>4. Places' /\ Gates' /\ Installing'
    BY <1>1, <2>1, <2>2 DEF Places, Gates, Installing, Setup, Open, Sleep
  <2>5. Hits'
    BY <2>1, <2>2, <2>3 DEF Hits
  <2> QED BY <2>4, <2>5 DEF LoopInv
<1>3. CASE HandlerDisablesTimer
  <2>1. /\ inHandler /\ hpc = "mcause" /\ hpc' = "mret"
        /\ pc' = pc /\ eager' = eager /\ hits' = hits
    BY <1>3 DEF HandlerDisablesTimer
  <2>2. mcause.interrupt /\ mcause.code = mti
    BY <1>1, <2>1 DEF Hits
  <2>3. /\ mie' = mie \ {7} /\ mstatus' = mstatus /\ mcause' = mcause
        /\ installed' = installed /\ inHandler' = inHandler
    BY <1>3, <2>2, FieldBits DEF HandlerDisablesTimer, TimerDisable
  <2>4. mie' = {}
    BY <1>1, <2>3 DEF Gates, mti
  <2>5. Places' /\ Gates' /\ Installing'
    BY <1>1, <2>1, <2>3, <2>4 DEF Places, Gates, Installing, Setup, Open, Sleep
  <2>6. Hits'
    BY <1>1, <2>1, <2>4 DEF Hits
  <2> QED BY <2>5, <2>6 DEF LoopInv
<1>4. CASE HandlerReturns
  <2>1. /\ inHandler /\ hpc = "mret" /\ hpc' = "out" /\ inHandler' = FALSE
        /\ pc' = pc /\ eager' = eager /\ hits' = hits
        /\ mie' = mie /\ mcause' = mcause /\ installed' = installed
    BY <1>4 DEF HandlerReturns, Mret
  <2>2. Places' /\ Gates' /\ Installing'
    BY <1>1, <2>1 DEF Places, Gates, Installing, Setup, Open, Sleep
  <2>3. Hits'
    BY <1>1, <2>1 DEF Hits
  <2> QED BY <2>2, <2>3 DEF LoopInv
<1> QED BY <1>2, <1>3, <1>4

(* A step of a body, of the counter, or none at all.                       *)
LEMMA OtherStep ==
  ASSUME LoopInv, UNCHANGED <<hartVars, pc, hpc, eager, hits>>
  PROVE  LoopInv'
BY DEF LoopInv, Places, Gates, Installing, Hits, hartVars

(* Every step preserves the inductive invariant.                           *)
LEMMA LoopNextInv == LoopInv /\ [LoopNext]_loopVars => LoopInv'
<1> SUFFICES ASSUME LoopInv, [LoopNext]_loopVars PROVE LoopInv'
  OBVIOUS
<1>1. CASE Prologue
  <2>1. CASE MainSetsNow \/ MainCalled \/ \E h \in Handle : MainCalls(h)
    BY <2>1, PlainStep DEF MainSetsNow, MainCalled, MainCalls
  <2>2. CASE MainDisables("mstatus.mie.clr", "set_time_cmp")
    BY <2>2, DisableStep
  <2>3. CASE \/ MainInstalls("_execute_handler", "mscratch")
             \/ MainInstalls("mscratch", "mtvec")
             \/ MainInstalls("mtvec", IF eager THEN "mie.mti.set" ELSE "now")
    BY <2>3, InstallStep
  <2>4. CASE MainEnablesTimer("mie.mti.set", "mstatus.mie.set")
    BY <2>4, EnableTimerStep
  <2>5. CASE MainEnables("mstatus.mie.set", "now")
    BY <2>5, EnableStep
  <2> QED BY <1>1, <2>1, <2>2, <2>3, <2>4, <2>5 DEF Prologue
<1>2. CASE EventLoop
  <2>1. CASE MainSamples \/ MainResumes \/ MainTests \/ MainDelays \/ MainSetsTimer
    BY <2>1, PlainStep
       DEF MainSamples, MainResumes, MainTests, MainDelays, MainSetsTimer, Open
  <2>2. CASE MainWaits
    BY <2>2, PlainStep DEF MainWaits, wfi
  <2>3. CASE MainDisables("loop:mstatus.mie.clr", "loop:mie.mti.set")
    BY <2>3, DisableStep
  <2>4. CASE MainEnablesTimer("loop:mie.mti.set", "loop:wfi")
    BY <2>4, EnableTimerStep
  <2>5. CASE MainEnables("loop:mstatus.mie.set", "now")
    BY <2>5, EnableStep
  <2> QED BY <1>2, <2>1, <2>2, <2>3, <2>4, <2>5 DEF EventLoop
<1>3. CASE HandlerEntry \/ HandlerDisablesTimer \/ HandlerReturns
  BY <1>3, HandlerStep
<1>4. CASE BodyAwaits \/ BodyEnds \/ Count \/ UNCHANGED loopVars
  BY <1>4, OtherStep DEF BodyAwaits, BodyEnds, Count, loopVars, hartVars
<1> QED BY <1>1, <1>2, <1>3, <1>4 DEF LoopNext, CpuNext

(* In both event loops, for any coroutines and any time: from enabling the *)
(* timer interrupt to the end of wfi nothing consumes the interrupt that   *)
(* is to end it, and the handler runs once for each time it is enabled.    *)
THEOREM SleepIsAtomic == LoopSafety => [](AtomicSleep /\ OncePerArm)
<1>1. ASSUME LoopInv PROVE AtomicSleep /\ OncePerArm
  <2>1. Places /\ Gates /\ Installing /\ Hits
    BY <1>1 DEF LoopInv
  <2>2. mstatus_data.mie.mask = {3} /\ mie_data.mti.mask = {7}
    BY DEF mstatus_data, mie_data, Field
  <2>3. AtomicSleep
    BY <2>1, <2>2 DEF AtomicSleep, Places, Gates, Enabled, Open, Sleep, mti
  <2>4. OncePerArm
    BY <2>1 DEF OncePerArm, Places, Installing, Hits
  <2> QED BY <2>3, <2>4
<1> QED BY <1>1, LoopInitInv, LoopNextInv, PTL DEF LoopSafety

-----------------------------------------------------------------------------
(* The clock stays within the bound, and main's sample of it too.          *)
Times == mtime \in 0 .. MaxTime /\ current \in Condition

(* What the scheduler needs of the loop.                                   *)
SInv == IInv /\ Times

(* A reading of mtimer_clock is a time.                                    *)
LEMMA NowIsTime == Times => now \in Condition /\ now \in Nat
<1> SUFFICES ASSUME Times PROVE now \in Condition /\ now \in Nat
  OBVIOUS
<1>1. mtime \in Nat /\ MaxTime \in Nat /\ Tick \in Nat /\ mtime <= MaxTime
  BY TimerLoopAssumption DEF Times
<1>2. mtime * Tick \in Nat /\ MaxTime * Tick \in Nat /\ mtime * Tick <= MaxTime * Tick
  BY <1>1
<1> QED BY <1>2, TimerLoopAssumption DEF now

(* What a body awaits is a time, and the body is one of the coroutines.    *)
LEMMA AwaitsTime ==
  ASSUME SInv, BodyAwaits
  PROVE  now + Period[Last(stack)] \in Condition
<1>1. Last(stack) \in Handle
  BY FrontEntries DEF SInv, IInv, TypeOK, BodyAwaits
<1>2. /\ now \in Nat /\ Period[Last(stack)] \in Nat /\ Tick \in Nat
      /\ MaxAwait \in Nat /\ MaxTime \in Nat /\ MaxAwait <= MaxTime
  BY <1>1, NowIsTime, TimerLoopAssumption DEF SInv
<1>3. now + Period[Last(stack)] + Tick <= MaxTime * Tick
  <2>1. /\ MaxAwait * Tick \in Nat /\ MaxTime * Tick \in Nat
        /\ MaxAwait * Tick <= MaxTime * Tick
    BY <1>2
  <2>2. now + Period[Last(stack)] + Tick <= MaxAwait * Tick
    BY DEF BodyAwaits
  <2> QED BY <1>2, <2>1, <2>2
<1>4. now + Period[Last(stack)] \in 0 .. MaxTime * Tick
  BY <1>2, <1>3
<1> QED BY <1>4, TimerLoopAssumption

(* Every step of the loop, of a body, of the handler and of the counter is *)
(* a step of the scheduler or does not concern it.                         *)
LEMMA StepsSchedule ==
  ASSUME SInv, [LoopNext]_loopVars
  PROVE  [Next]_vars
<1>1. ASSUME NEW h \in Handle, MainCalls(h) PROVE Next
  BY <1>1 DEF MainCalls, Next
<1>2. CASE MainResumes
  BY <1>2 DEF MainResumes, SInv, Times, Next
<1>3. CASE BodyAwaits
  BY <1>3, AwaitsTime DEF BodyAwaits, Next
<1>4. CASE BodyEnds
  BY <1>4 DEF BodyEnds, Next
<1>5. CASE unchangedCoro \/ UNCHANGED loopVars
  BY <1>5 DEF unchangedCoro, loopVars, vars
<1> QED BY <1>1, <1>2, <1>3, <1>4, <1>5
        DEF LoopNext, CpuNext, Prologue, EventLoop, MainDisables, MainEnables,
            MainEnablesTimer, MainSetsNow, MainInstalls, MainCalled, MainSamples,
            MainTests, MainDelays, MainSetsTimer, MainWaits, HandlerEntry,
            HandlerDisablesTimer, HandlerReturns, Count

(* The counter counts within the bound, and main samples nothing else.     *)
LEMMA TimesKept ==
  ASSUME Times, [LoopNext]_loopVars
  PROVE  Times'
<1>1. CASE Count
  BY <1>1, TimerLoopAssumption DEF Count, Times
<1>2. CASE MainSamples
  BY <1>2, NowIsTime DEF MainSamples, Main, Times
<1>3. CASE mtime' = mtime /\ current' = current
  BY <1>3 DEF Times
<1> QED BY <1>1, <1>2, <1>3
        DEF LoopNext, CpuNext, Prologue, EventLoop, MainDisables, MainEnables,
            MainEnablesTimer, MainSetsNow, MainCalls, MainInstalls, MainCalled,
            MainResumes, MainTests, MainDelays, MainSetsTimer, MainWaits,
            BodyAwaits, BodyEnds, HandlerEntry, HandlerDisablesTimer, HandlerReturns,
            Main, loopVars

(* From resume() on main has its result: a condition only if no coroutine  *)
(* was run, and then it is the expiry of one that still waits.             *)
Behind ==
  {"pending", "loop:delay", "loop:set_time_cmp", "loop:mstatus.mie.clr",
   "loop:mie.mti.set", "loop:wfi", "loop:mstatus.mie.set"}

Result ==
  pc \in Behind /\ ret.next # None =>
    stack = <<>> /\ \E i \in 1 .. Len(waiting) : waiting[i].cond = ret.next

(* The delay, from the clock's reading it was computed with, does not      *)
(* reach beyond that expiry.                                               *)
Delay ==
  /\ offset \in Nat
  /\ lag \in Nat
  /\ (pc = "loop:set_time_cmp" /\ ret.next # None /\ offset # 0) =>
       (mtime - lag) * Tick + offset <= ret.next

(* Once the timer is set, its compare point is in the past or, but for the *)
(* time between the two readings, not later than the expiry.               *)
Alarm ==
  /\ mtimecmp \in Nat
  /\ (/\ pc \in {"loop:mstatus.mie.clr", "loop:mie.mti.set", "loop:wfi"}
      /\ ret.next # None
      /\ mtime < mtimecmp) => (mtimecmp - lag) * Tick <= ret.next

(* resume() runs the first entry, and then returns no condition, or it     *)
(* returns that of an entry.                                               *)
LEMMA ResumeResult ==
  ASSUME SInv, resume(current), ret'.next # None
  PROVE  /\ waiting' = waiting /\ stack' = stack /\ stack = <<>>
         /\ \E i \in 1 .. Len(waiting) : waiting[i].cond = ret'.next
<1>1. IInv /\ TypeOK /\ current \in Condition /\ stack = <<>>
  BY DEF SInv, IInv, Times, resume
<1>2. PICK L \in Nat : Len(waiting) = L
  BY <1>1, LenProperties DEF TypeOK
<1>3. CASE ResumeDue(current)
  <2>1. PICK k \in 1 .. L : ResumedAt(k, current, L)
    BY <1>1, <1>2, <1>3, ResumeEntries
  <2>2. k = 1
    BY <1>1, <1>2, <2>1, FirstIsDue DEF ResumedAt
  <2>3. ret'.next = priority_condition(SubSeq(waiting, 1, 0))
    BY <2>1, <2>2 DEF ResumedAt
  <2>4. Len(SubSeq(waiting, 1, 0)) = 0
    BY <1>1 DEF TypeOK
  <2> QED BY <2>3, <2>4, PriorityConditionEmpty
<1>4. CASE ResumeIdle(current)
  <2>1. ret'.next = priority_condition(waiting) /\ waiting' = waiting /\ stack' = stack
    BY <1>4 DEF ResumeIdle
  <2> QED BY <1>1, <1>2, <2>1, PriorityConditionMember
<1> QED BY <1>3, <1>4 DEF resume

(* The delay in whole ticks does not reach beyond the expiry.              *)
LEMMA RoundsDown ==
  ASSUME NEW d \in Nat
  PROVE  d \div Tick \in Nat /\ (d \div Tick) * Tick <= d
<1>1. Tick \in Nat /\ Tick > 0
  BY TimerLoopAssumption
<1>2. d \div Tick \in Nat /\ d = Tick * (d \div Tick) + (d % Tick) /\ d % Tick \in Nat
  BY <1>1
<1> QED BY <1>1, <1>2

(* The expiry main has from resume() is a number of nanoseconds.           *)
LEMMA NextIsTime ==
  ASSUME SInv, Result, pc \in Behind, ret.next # None
  PROVE  ret.next \in Nat
<1>1. PICK i \in 1 .. Len(waiting) : waiting[i].cond = ret.next
  BY DEF Result
<1>2. TypeOK
  BY DEF SInv, IInv
<1>3. PICK L \in Nat : Len(waiting) = L
  BY <1>2, LenProperties DEF TypeOK
<1>4. ret.next \in Condition
  BY <1>1, <1>2, <1>3, EntryFields
<1> QED BY <1>4, TimerLoopAssumption

(* What main is to set the timer to.                                       *)
LEMMA DelayComputed ==
  ASSUME SInv, Result, MainDelays
  PROVE  /\ offset' \in Nat
         /\ ret.next # None /\ offset' # 0 => now + offset' <= ret.next
<1>1. now \in Nat
  BY NowIsTime DEF SInv
<1>2. CASE ret.next = None
  BY <1>2, TimerLoopAssumption DEF MainDelays
<1>3. CASE ret.next # None
  <2>1. ret.next \in Nat
    BY <1>3, NextIsTime DEF MainDelays, Main, Behind
  <2>2. offset' = delay(ret.next)
    BY <1>3 DEF MainDelays
  <2> QED BY <1>1, <2>1, <2>2 DEF delay
<1> QED BY <1>2, <1>3

(* The delay is kept until it is used, while the clock counts.             *)
LEMMA DelayKept ==
  ASSUME SInv, Result, Delay, [LoopNext]_loopVars
  PROVE  Delay'
<1>1. mtime \in Nat /\ offset \in Nat /\ lag \in Nat
  BY DEF SInv, Times, Delay
<1>2. CASE MainDelays
  <2>1. lag' = 0 /\ mtime' = mtime /\ ret' = ret
    BY <1>2 DEF MainDelays, Main, unchangedCoro
  <2>2. (mtime' - lag') * Tick = now
    BY <1>1, <2>1 DEF now
  <2> QED BY <1>2, <2>1, <2>2, DelayComputed DEF Delay
<1>3. CASE Count
  <2>1. /\ offset' = offset /\ pc' = pc /\ ret' = ret /\ lag' \in Nat
        /\ pc = "loop:set_time_cmp" => mtime' - lag' = mtime - lag
    BY <1>1, <1>3 DEF Count, unchangedCoro
  <2> QED BY <2>1 DEF Delay
<1>4. CASE /\ UNCHANGED <<offset, lag>>
           /\ pc' # "loop:set_time_cmp" \/ UNCHANGED <<pc, mtime, ret>>
  BY <1>4 DEF Delay
<1>5. CASE MainSetsTimer \/ MainWaits
  BY <1>1, <1>5 DEF MainSetsTimer, MainWaits, Main, Delay
<1>6. CASE BodyAwaits \/ BodyEnds \/ HandlerEntry \/ HandlerDisablesTimer
           \/ HandlerReturns \/ UNCHANGED loopVars
  <2>1. UNCHANGED <<offset, lag, pc, mtime, ret>>
    BY <1>6 DEF BodyAwaits, BodyEnds, Await, CoReturn, HandlerEntry,
                HandlerDisablesTimer, HandlerReturns, unchangedCoro, loopVars,
                sleepVars
  <2> QED BY <1>4, <2>1
<1>7. CASE Prologue
  <2>1. UNCHANGED <<offset, lag>> /\ pc' # "loop:set_time_cmp"
    BY <1>7 DEF Prologue, MainDisables, MainSetsNow, MainCalls, MainCalled,
                MainInstalls, MainEnablesTimer, MainEnables, Main, sleepVars
  <2> QED BY <1>4, <2>1
<1>8. CASE EventLoop /\ ~ (MainDelays \/ MainSetsTimer \/ MainWaits)
  <2>1. UNCHANGED <<offset, lag>> /\ pc' # "loop:set_time_cmp"
    BY <1>8 DEF EventLoop, MainSamples, MainResumes, MainTests, MainDisables,
                MainEnablesTimer, MainEnables, Main, sleepVars
  <2> QED BY <1>4, <2>1
<1> QED BY <1>2, <1>3, <1>5, <1>6, <1>7, <1>8 DEF LoopNext, CpuNext

(* What main sets the timer to.                                            *)
LEMMA TimerSet ==
  ASSUME SInv, Result, Delay, MainSetsTimer
  PROVE  /\ mtimecmp' \in Nat
         /\ ret.next # None /\ mtime < mtimecmp' => (mtimecmp' - lag) * Tick <= ret.next
<1> DEFINE n == offset \div Tick
           m == mtime - lag
<1>1. mtime \in Nat /\ Tick \in Nat /\ offset \in Nat /\ lag \in Nat /\ m \in Int
  BY TimerLoopAssumption DEF SInv, Times, Delay
<1>2. n \in Nat /\ n * Tick <= offset /\ mtimecmp' = mtime + n
  BY <1>1, RoundsDown DEF MainSetsTimer
<1>3. ASSUME ret.next # None, mtime < mtimecmp'
      PROVE  (mtimecmp' - lag) * Tick <= ret.next
  <2>1. offset # 0
    <3>1. 0 \div Tick = 0
      BY TimerLoopAssumption
    <3> QED BY <1>1, <1>2, <1>3, <3>1
  <2>2. m * Tick + offset <= ret.next
    BY <1>3, <2>1 DEF MainSetsTimer, Main, Delay
  <2>3. ret.next \in Int
    BY <1>3, NextIsTime DEF MainSetsTimer, Main, Behind
  <2>4. mtimecmp' - lag = m + n
    BY <1>1, <1>2
  <2> HIDE DEF m, n
  <2>5. (m + n) * Tick = m * Tick + n * Tick /\ m * Tick \in Int /\ n * Tick \in Int
    BY <1>1, <1>2
  <2> QED BY <1>1, <1>2, <2>2, <2>3, <2>4, <2>5
<1> QED BY <1>1, <1>2, <1>3

(* Main has the result of resume() until it samples the time again.        *)
LEMMA ResultKept ==
  ASSUME SInv, Result, [LoopNext]_loopVars
  PROVE  Result'
<1>1. CASE MainResumes
  BY <1>1, ResumeResult DEF MainResumes, Result
<1>2. CASE BodyAwaits \/ BodyEnds
  BY <1>2 DEF BodyAwaits, BodyEnds, Await, CoReturn, Result
<1>3. CASE \/ pc' \notin Behind
           \/ pc \in Behind /\ UNCHANGED <<waiting, stack, ret>>
  BY <1>3 DEF Result
<1>4. CASE \E h \in Handle : MainCalls(h)
  BY <1>4 DEF MainCalls, Main, Result, Behind
<1>5. CASE HandlerEntry \/ HandlerDisablesTimer \/ HandlerReturns \/ Count
           \/ UNCHANGED loopVars
  BY <1>5 DEF HandlerEntry, HandlerDisablesTimer, HandlerReturns, Count,
              unchangedCoro, loopVars, Result
<1>6. CASE Prologue /\ ~ \E h \in Handle : MainCalls(h)
  <2>1. pc' \notin Behind
    BY <1>6 DEF Prologue, MainDisables, MainSetsNow, MainCalled, MainInstalls,
                MainEnablesTimer, MainEnables, Main, Behind
  <2> QED BY <1>3, <2>1
<1>7. CASE EventLoop /\ ~ MainResumes
  <2>1. \/ pc' \notin Behind
        \/ pc \in Behind /\ UNCHANGED <<waiting, stack, ret>>
    BY <1>7 DEF EventLoop, MainSamples, MainTests, MainDelays, MainSetsTimer,
                MainDisables, MainEnablesTimer, MainWaits, MainEnables, Main, Behind,
                unchangedCoro
  <2> QED BY <1>3, <2>1
<1> QED BY <1>1, <1>2, <1>4, <1>5, <1>6, <1>7 DEF LoopNext, CpuNext

(* The compare point stays where main has set it until it wakes.           *)
LEMMA AlarmKept ==
  ASSUME SInv, Result, Delay, Alarm, [LoopNext]_loopVars
  PROVE  Alarm'
<1> DEFINE Set == {"loop:mstatus.mie.clr", "loop:mie.mti.set", "loop:wfi"}
<1>1. mtime \in Nat /\ mtimecmp \in Nat
  BY DEF SInv, Times, Alarm
<1>2. CASE MainSetsTimer
  <2>1. mtime' = mtime /\ ret' = ret /\ lag' = lag
    BY <1>2 DEF MainSetsTimer, Main, unchangedCoro
  <2> QED BY <1>2, <2>1, TimerSet DEF Alarm
<1>3. CASE MainSetsNow
  BY <1>1, <1>3 DEF MainSetsNow, Main, Alarm
<1>4. CASE mtimecmp' = mtimecmp /\ pc' \notin Set
  BY <1>1, <1>4 DEF Alarm
<1>5. CASE /\ mtimecmp' = mtimecmp /\ mtime' \in {mtime, mtime + 1}
           /\ pc \in Set /\ ret' = ret /\ lag' = lag
  BY <1>1, <1>5 DEF Alarm
<1>6. CASE BodyAwaits \/ BodyEnds \/ HandlerEntry \/ HandlerDisablesTimer
           \/ HandlerReturns \/ Count \/ UNCHANGED loopVars
  <2>1. /\ mtimecmp' = mtimecmp /\ mtime' \in {mtime, mtime + 1}
        /\ pc' = pc /\ ret' = ret
        /\ pc \in Set => lag' = lag
    BY <1>6 DEF BodyAwaits, BodyEnds, Await, CoReturn, HandlerEntry,
                HandlerDisablesTimer, HandlerReturns, Count, unchangedCoro,
                loopVars, sleepVars
  <2> QED BY <1>4, <1>5, <2>1
<1>7. CASE Prologue /\ ~ MainSetsNow
  <2>1. mtimecmp' = mtimecmp /\ pc' \notin Set
    BY <1>7 DEF Prologue, MainDisables, MainCalls, MainCalled, MainInstalls,
                MainEnablesTimer, MainEnables, Main
  <2> QED BY <1>4, <2>1
<1>8. CASE EventLoop /\ ~ MainSetsTimer
  <2>1. CASE MainSamples \/ MainResumes \/ MainTests \/ MainDelays \/ MainWaits
             \/ MainEnables("loop:mstatus.mie.set", "now")
    <3>1. mtimecmp' = mtimecmp /\ pc' \notin Set
      BY <2>1 DEF MainSamples, MainResumes, MainTests, MainDelays, MainWaits,
                  MainEnables, Main
    <3> QED BY <1>4, <3>1
  <2>2. CASE \/ MainDisables("loop:mstatus.mie.clr", "loop:mie.mti.set")
             \/ MainEnablesTimer("loop:mie.mti.set", "loop:wfi")
    <3>1. /\ mtimecmp' = mtimecmp /\ mtime' = mtime /\ pc \in Set /\ ret' = ret
          /\ lag' = lag
      BY <2>2 DEF MainDisables, MainEnablesTimer, Main, unchangedCoro, sleepVars
    <3> QED BY <1>5, <3>1
  <2> QED BY <1>8, <2>1, <2>2 DEF EventLoop
<1> QED BY <1>2, <1>3, <1>6, <1>7, <1>8 DEF LoopNext, CpuNext

(* The invariant holds throughout.                                         *)
LEMMA LoopSchedules == LoopSafety => []SInv /\ [][Next]_vars
<1>1. LoopInit => SInv
  <2>1. LoopInit => IInv
    BY InitInv DEF LoopInit
  <2>2. LoopInit => Times
    BY TimerLoopAssumption DEF LoopInit, Times
  <2> QED BY <2>1, <2>2 DEF SInv
<1>2. SInv /\ [LoopNext]_loopVars => SInv' /\ [Next]_vars
  BY StepsSchedule, TimesKept, NextInv DEF SInv
<1> QED BY <1>1, <1>2, PTL DEF LoopSafety

(* The event loops of the examples, with their interrupts, their sleep and *)
(* the periods of their coroutines, use a scheduler_ordered: what is true  *)
(* of every one of them is true of theirs.                                 *)
THEOREM LoopImplementsOrdered == LoopSafety => Spec
<1>1. LoopInit => Init
  BY DEF LoopInit
<1> QED BY <1>1, LoopSchedules, PTL DEF LoopSafety, Spec

(* So, wherever the interrupt strikes, main resumes a coroutine that no    *)
(* other waiting one has to precede, no frame is held twice, and a result  *)
(* of resume() that lets main stop means that nothing is scheduled.        *)
THEOREM LoopSchedulesInOrder ==
  LoopSafety => [](WaitingSorted /\ SoleOwner /\ FalseMeansEmpty) /\ ResumesMostUrgent
BY LoopImplementsOrdered, SchedulerInvariant, MostUrgentFirst, PTL

(* For any periods and any granularity of the clock: where resume() gave a *)
(* condition, main is woken no later than at the last expiry and the time  *)
(* it took from one reading of the clock to the next.                      *)
THEOREM NeverSleepsPastLast == LoopSafety => []SleepBounded
<1>1. LoopInit => Result /\ Delay /\ Alarm
  BY TimerLoopAssumption DEF LoopInit, Result, Delay, Alarm, Behind
<1>2. SInv /\ Result /\ Delay /\ Alarm /\ [LoopNext]_loopVars
        => Result' /\ Delay' /\ Alarm'
  BY ResultKept, DelayKept, AlarmKept
<1>3. Result /\ Alarm => SleepBounded
  BY DEF Result, Alarm, SleepBounded, Behind
<1> QED BY <1>1, <1>2, <1>3, LoopSchedules, PTL DEF LoopSafety
=============================================================================
