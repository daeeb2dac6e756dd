# A TLA+ verification of baremetal-cxx-coro

The repository is a small C++20 library for running coroutines on a bare-metal
RISC-V core without a heap or an operating system, with example programs and
host tests. This directory holds TLA+ modules that model its core, TLC
configurations that check them on small instances, and TLAPS proofs of the most
important results for every instance. Paths below are relative to the
repository's root.

## 1. Inventory

| Component | State | Operations | Interacts with | What makes it correct |
|---|---|---|---|---|
| `static_list` (`include/coro/static_list.hpp`) | a buffer of N nodes; `first_`, `last_`, `free_`; `next`, `prev`, value of each node | `emplace`, `emplace_back`, `erase`, `pop_front`, `pop_back`, iteration | used by both schedulers | both chains well formed, no node lost or in two places, behaves as a bounded `std::list` |
| wake conditions (`schedule_by_delay`, `schedule_by_priority` in `include/coro/scheduler.hpp`) | a number | `ready_to_wake`, `delay` | the template parameter of the ordered scheduler | the comparison orders waiting coroutines by urgency |
| `scheduler_ordered` (same file) | `waiting_`, a sorted `static_list` | `insert`, `resume`, `empty` | awaitables insert; main resumes; `resume` runs coroutine bodies, which insert again | most urgent first, a frame held once, none forgotten, the results main acts on are right |
| `scheduler_unordered` (same file) | `waiting_`, a queue | `insert`, `resume` until empty | awaited by main code and by interrupt code; `resume` runs bodies that may await it or another one again | a frame held once over all schedulers, `resume` returns, everyone gets a turn |
| `nop_task` and its promise (`include/coro/nop_task.hpp`) | the task heap, the done flag | start, suspend, end, allocate | the compiler's coroutine machinery | frames do not overlap, done is told |
| awaitables (`include/coro/awaitable_*.hpp`) | none | `await_ready`, `await_suspend` | insert the handle in a scheduler | a suspended coroutine is in a scheduler |
| machine timer driver, `mtimer_clock` (`include/riscv/timer.hpp`, `scheduler-timer-mtimer.hpp`) | the `mtime`/`mtimecmp` registers | read, set compare | the clock of `scheduler_delay`, the source of the timer interrupt | no torn value, steady clock |
| CSR access (`include/riscv/riscv-csr.hpp`, `riscv-isa.hpp`) | the control and status registers | methods of registers and fields, each one or two instructions | the programs, the handler and the hart share the registers | a field access touches its field only, read-only registers are not written, constants are not cut off |
| interrupt dispatch (`include/riscv/riscv-irq.hpp`, `riscv-interrupts.hpp`) | the installed handler | install, enter | the example programs | entered only when installed |
| example programs (`src/*.cpp`) | drivers, schedulers, counters | event loops, interrupt handlers | all of the above | never sleep through a wake up, no race with the handler |
| startup, host emulation, trace | memory | copy loops, stand-ins, debug output | | not modelled, see section 7 |

The behaviours that are hard to test:

* **Reentrancy.** `resume()` runs a coroutine body in the middle of a call on the
  scheduler; the body calls other coroutines, which start at once on its stack
  and insert themselves in the list that is being walked.
* **Capacity.** A full list drops an entry without telling anybody.
* **Pointer surgery** in a list whose two chains share the same link fields:
  mistakes show many calls later.
* **Time.** Expiry, wake-up and sleep are judged by readings of a coarse clock
  taken at different moments.
* **Order and starvation** when conditions tie.
* **The task heap**, which is never given back and may refuse a call.
* **64 bit registers accessed in halves** while the counter runs.
* **Interrupts** that run between any two instructions of main, in a handler
  that resumes coroutines on lists main uses too; the gap between enabling an
  interrupt and sleeping for it; a register that is read and written back by two
  instructions.
* **Loops without a bound of their own**: `scheduler_unordered::resume()` runs
  until a list that its own coroutines fill is empty.

`PROJECT.json` lists these hazards one by one with the properties that would
catch them.

## 2. Modules

| Module | Models | Proofs |
|---|---|---|
| `BoundedList` | what `static_list` promises: a sequence of at most N values; abstract | |
| `StaticList` | `static_list` pointer by pointer; implements `BoundedList` | `StaticListProofs` |
| `WakeCondition` | the two `ready_to_wake` | |
| `OrderedScheduler` | `scheduler_ordered` and the life of the coroutines that use it, for any wake condition; its list is an instance of `BoundedList` | `OrderedSchedulerProofs` |
| `DelayScheduler` | `OrderedScheduler` with expiry times, the timer awaitable, a clock and the main loop of `test/test_timer_coro.cpp` | `DelaySchedulerProofs` |
| `PriorityScheduler` | `OrderedScheduler` with priorities, the priority awaitable and the main loop of `test/test_priority_coro.cpp` | `ComponentProofs` |
| `TaskHeap` | the frames of `nop_task`, allocation failure, the done flag and a main that waits for it | `ComponentProofs` |
| `MachineTimer` | `driver::timer` on a 32 bit hart, one action per bus access, and the tick count of `mtimer_clock` | `ComponentProofs` |
| `UnorderedScheduler` | `scheduler_unordered`, its awaitable, and coroutines that go between several of them | `UnorderedSchedulerProofs` |
| `RiscvCsr` | the registers and fields of `riscv-csr.hpp`, and what its accessors compute | `ComponentProofs` |
| `CsrAccess` | one register used by main and by an interrupt handler through those accessors | `ComponentProofs` |
| `Hart` | interrupt enables, handler installation, entry, return and `wfi`, with the registers of `RiscvCsr` | |
| `IrqExample` | `example_irq()`: `UnorderedScheduler` and `Hart` composed | `IrqExampleProofs` |
| `TimerLoop` | `example_simple()` and `example_timer()`: `OrderedScheduler`, `WakeCondition` and `Hart` composed with a timer | `TimerLoopProofs` |
| `SequenceLemmas` | facts about sequences that the proofs share | itself |
| `MC*` | instances for TLC | |

Operators named `...Something` and introduced as "A slip" are mutations: each
changes one definition the way a plausible mistake in the code would, and breaks
the property it is paired with in `PROJECT.json`. They are not used by the
specifications.

### StaticList

The variables are the fields of the class (`free`, `first`, `last`) and of its
nodes (`next`, `prev`, `value`); node k is `get_array_entry(k - 1)` and `Null` is
`nullptr`. Each member function is an operator of the same name giving the
values of all pointers after it. The order of the C++ assignments matters where
a later one reads what an earlier one wrote: `PrevAfterGet` is the `prev` field
as `get_free_elem` leaves it, and `return_free_elem` takes the fields as its
caller has left them. The value of an unused node is raw storage, so `Init` lets
it be anything.

`order` and `spare` are history variables: the nodes a client inserted, and the
nodes it gave back. They say which iterators a client can hold (an iterator is
valid while its node is in the list) and what the chains should spell. The
pointers never depend on them.

`Visit` follows `next` from `first`, as `begin()` and `++` do, and `Elems` is what
a client reads that way. `Elems`, not the history, is the refinement mapping to
`BoundedList`.

### OrderedScheduler

One thread runs everything. `stack` holds the coroutine bodies that are on it,
the last one executing; main executes when it is empty. The actions are a call
of a coroutine (by main or by a body), an await, the end of a body, and
`resume(q)`. `resume(q)` is one step up to the point where the body of the woken
coroutine starts; `ret` is what it will have returned to main by the time the
stack is empty again (the code computes it before it resumes the handle). An
await is one step because nothing can run inside `insert()`.

`insert` and `resume` are written for any `WAKE_CONDITION_T`. The constant
operator `ReadyToWake` stands for `ready_to_wake`, with two assumptions that
both classes satisfy: it is transitive (`ReadyTransitive`), and what is ready in
c is ready in b or b is ready in c (`ReadyWeak`). TLC evaluates them for both.

`priority_condition` is the loop of `resume()` over the entries that are not due,
as a recursive function.

### DelayScheduler and PriorityScheduler

`time` is real time; `now` is the clock, which moves every `Tick` units. Time
passes between any two steps of the program. `pc` walks through main's loop:
sample the clock, call `resume`, sleep until the returned condition, test whether
all tasks are done. `due` and `earlier` are history variables: when each coroutine
really asked to wake, and who was suspended already when it awaited. The end of a sleep may
come any time after the alarm. The sleep is that of the host build
(`std::this_thread::sleep_for`); the tests that share the loop end it when all
their tasks are done, and the one with a nested coroutine also waits for the
list to be empty, which the model has as one test over all coroutines.

In `PriorityScheduler` main's loop resumes with the lowest priority, as the test
does with 0, and a round of it is one step.

### TaskHeap

`index` is `task_heap_index_`. A call is one step: `operator new`, and either
`get_return_object()` with its flag or `get_return_object_on_allocation_failure()`.
`start` keeps where each frame is, also after its end, as nothing is given back.
The two ways to end are separate actions because the code sets the flag in each.
`done` is the shared flag of the host build. A task whose call failed has no flag
and is never done, so a main that waits for it waits for ever: `MainEnds` leaves
out that case, and `HeapNeverRecovers` says that trying again is of no use. `tasks`
are the calls main waits for; tasks that coroutines call belong to them, and main
leaves without asking for those.

### MachineTimer

A 64 bit value is two halves below `Base` (2^32 in the code). `Count` is the
hardware counter and may run between any two actions of the driver; each load and
store of `get_raw_time()` and `set_raw_time_cmp()` is one action. `begunh`, `begunl`
and `armedh`, `armedl` are history: the time at the call and the compare point that
is in force. The old point stops being in force with the first store, which hides
it. `MaxHigh` bounds the counter and is below `Base - 1`: the code's own assumption
that `mtime` does not wrap around, without which its "unachievable" value could be
reached. Offsets are any `int`, also negative: the delay of an expiry that went by
before the call. An expiry itself is not before time zero, hence the guard of
`Begin`. `ToInt` is the conversion to the `int` count of `timer_ticks`.

### UnorderedScheduler

`stack` holds coroutine bodies and calls of `resume()` alike, since `resume()` is a
loop with bodies on top of it: `Resume` is the call, `ResumeNext` one round of the
loop, `ResumeEnds` the return. `Scheduler` is a set, because coroutines go from one
scheduler to another, and `MaxTasks` gives each its room. Main calls `resume()` of
any of them in any order, which covers every loop of `test/test_unordered.cpp`.

### RiscvCsr and CsrAccess

A register value is the set of its bits. The header repeats one pattern for each
of its 111 registers: a structure of methods that are one instruction each, a
namespace of field parameters, a class, and a member of `struct all`. The module
keeps what distinguishes them: the type, the privilege, whether the writing methods
exist, and offset, width and mask of every field, with the masks as the header
gives or computes them. `new_value`, `set`, `clr`, `read` and `Const` (the choice
of the immediate instruction, the same in all the `_const` methods) are what the
base classes do. `Execute` is the hart.

`CsrAccess` picks any register and lets main call every method, with an interrupt
between the two instructions of a field write. All methods that read also return
the old value; what they return is not modelled.

### Hart, IrqExample and TimerLoop

`Hart` has `mstatus` and `mie`, changed by the accessors of `RiscvCsr`, and the
rules of the privileged architecture: an enabled interrupt is taken before the next
instruction of main, it clears `mstatus.mie` and saves it, `mret` restores it, and
`wfi` goes on once an interrupt enabled in `mie` is pending, whatever
`mstatus.mie` is. `Spurious` lets `wfi` return without one, which the architecture
allows. `installed` records the three writes of the `irq::handler` constructor.

`IrqExample` is the closed program `example_irq()`: main executes one statement
per step, `pc` naming it, and the handler another, `hpc`. Frames that the handler
puts on the stack lie on top of main's, above `base`. An interrupt may come between
any two statements and between any two rounds of a `resume()` loop; where main is
inside one, its list operations are one step each, and `HandlerAtLoopHead` shows
that the handler never comes upon main there, so finer steps would show no more.
What the driver of the timer does is taken from `MachineTimer`: `set_time_cmp(0)`
makes the interrupt pending, `set_time_cmp(100us)` makes it not pending until
`TimerFires`, which may be at any time after. The lines of software and external
interrupts go up and down freely.

`TimerLoop` is the event loop that the other two examples share. `eager` tells
`example_timer()`, which enables interrupts before its loop, from
`example_simple()`, which does so in the loop. `mtime` counts, and `mip` compares it
with `mtimecmp`. `set_time_cmp(next_wake->delay())` is two steps because it reads the
clock twice: `MainDelays` computes the delay (`offset`), and `MainSetsTimer` adds it, in
whole ticks (the cast rounds down), to what `mtime` is by then. `lag` is history: how far
the counter went between the two. Bodies await their period or end after any number of rounds, of which ten is
one. When `next_wake` is empty the code dereferences it all the same; the model
then takes any delay from `Garbage`. Coroutines await only up to the count `MaxAwait`;
beyond it the counter runs on as long as the timer has still to fire. Both modules assume that `mie` is clear when
main starts, and that a change of the compare point reaches `mip` before the next
instruction.

## 3. Runs

| Run | Instance | Shows |
|---|---|---|
| `static_list` | N = 4, two values | every sequence of calls keeps the list a correct bounded `std::list` (1920 states) |
| `delay` | 3 coroutines, clock of 2 units, delays 1 and 3, 7 units of time | no early wake up, equal expiries wake first come first served, false means that nothing waits, everyone wakes and the main loop ends (508971 states) |
| `priority` | 5 coroutines, room for 4, 3 priorities | sortedness, ownership, most urgent first, what `resume` returns, who gets lost when the list is full and that nobody is before, and that the loop ends with all others done (46085 states) |
| `task_heap` | 4 frames of 2, 3, 2 and 4 bytes, a heap of 8 | frames never overlap, a failed call would always fail, main's wait for `done()` ends unless one of its own calls failed |
| `timer` | halves of 4 values, counter up to 11, offsets -2, 0, 1 | no torn time, interrupt neither early nor missed, a clock that is steady while the count fits |
| `unordered` | 4 coroutines, schedulers with room for 2 and 3 | a frame in one place, only the full list that is awaited loses a coroutine, `resume()` returns and every coroutine is resumed (5092 states) |
| `irq` | the program itself, RV32 | the handler comes only at the head of main's loop, coroutines run where they awaited, none is dropped, t3 and t4 alternate for ever (176 states, all of them) |
| `timer_loop` | 2 coroutines, clock of 2 units, periods 3 and 4, awaits up to count 5, either example, a `wfi` that may return early but need not | nothing is lost between enabling the interrupt and `wfi`, no interrupt storm, a sleep for a known condition ends by the last expiry but for the time between the two readings of the clock, everyone wakes although nothing but a pending interrupt is sure to end `wfi` (68348 states) |
| `csr` | all 111 registers of RV32, operands below, across and above five bits, an interrupt | field accesses keep to their field, read-only registers are kept, constants act as registers (1.48 million states) |
| `delay_soonest`, `next_wake`, `csr_fields` | as `delay`, `timer_loop` and `csr`, smaller | expected violations, section 5 |

**Bounds.** A node of the list has at most two neighbours, and an operation
touches one node, its neighbours and the head of the free list: with four nodes
there are inner nodes, both ends, and a free list with more than one node at the
same time. Two values show whether a value is overwritten or moved. Three
priorities have equal, smaller and larger values, and four of the five coroutines
fill a list that has a front, a back and two in between. In `DelayScheduler`
`MaxTime` bounds the run, in `TimerLoop` `MaxAwait` bounds the awaits; an await is
refused only when the clock could not get past the expiry within the bound, which
cuts behaviours short and adds none. The counter of `TimerLoop` must reach any compare
point, that of a garbage delay too, or the bound itself would keep main asleep:
`MaxTime` = 12 leaves room for it, and no state of the run has a count above 11. Delays are below and above the tick, and expiries tie when two coroutines
await within one tick. Coroutine frames are not reused, so those runs are finite
without further bounds. In the heap of 8 some orders of the calls fill it exactly,
which the code refuses, and some leave a gap that a smaller frame still fits in. The
halves of `MachineTimer` are so small that the low one overflows between any two
accesses, more than once in a call, and carry and borrow both happen. In
`unordered` each list can overflow, and two coroutines can wait for each scheduler
while a third executes. `irq` needs no bound. In `timer_loop` the handler may be
entered twice before main enables the interrupt again, one more time than it
should, and both coroutines can await twice, before and after a sleep. In `csr`, `MaxIrq` = 1 interrupt comes between the two instructions of a
field write; more change other bits in the same way.

**Deadlock** is checked in the runs of the list, the schedulers and the timer:
main can always make a call, or stays in its final state by an explicit
stuttering action (`Exited`). The heap run does not check it, because there the
program really stops: when main is over, or waits for a task that never started.

**Fairness.** Main and the bodies share one thread, which nothing stops: weak
fairness of main's steps and of the executing body's next await or return. The
second says that a body does not compute for ever between two awaits, as all
those in the repository. Weak fairness of `Advance` says that the clock runs.
`EndingSpec` of `PriorityScheduler` also assumes that each coroutine returns at
last if it is resumed for ever (strong fairness of its `Return`), like the counted
loops of the tests. `FairHeapSpec` of
`TaskHeap` assumes that main goes on and that each coroutine comes to its end,
which the scheduler's runs show of coroutines with counted loops. `Spec` of
`UnorderedScheduler` assumes that the loop in `resume()` and the bodies go on, that
main's loop comes round to every scheduler, and that no coroutine awaits for ever
the scheduler that is resuming it (strong fairness of `Leave`): the loops of the
tests are counted, and those of `example_irq()` alternate. Without that last
assumption `resume()` need not return. `IrqSpec` and `LoopSpec` say that the hart
executes its next instruction (`Executes`) and that time does not stop. At `wfi` they
promise a return only while an enabled interrupt is pending: where `Spurious` = TRUE
an earlier return may come and may never come, so no liveness result rests on it.
`FairCsrSpec` of `CsrAccess` that main gets to the second instruction of a field write.

## 4. Proofs

`tlapm` checks all of these, for every value of the constants.

* **`StaticListProofs`**. `ChainsWellFormed`: type correctness, both chains, the
  free chain and the partition of the nodes are invariants. Their conjunction is
  inductive as it stands: the chains are stated over the history sequences, so
  that each operation is an insertion into one sequence and a removal from the
  other. `pop_front`, `pop_back` and `emplace_back` are reduced to `erase` and
  `emplace` first. `ReferencesStable`: no live value is overwritten.
  `ListRefinement`: `Spec => Abstract!Spec`. The main step shows that following
  `next` from `first` visits exactly `order`.
* **`OrderedSchedulerProofs`**. `SchedulerInvariant`: typing, sortedness, sole
  ownership, and that false means empty. The inductive invariant adds that when
  false was reported no body executes either. Sortedness needs only that
  `ready_to_wake` is transitive. `MostUrgentFirst` and `NoNextWakeAfterRun` follow
  from one lemma, `FirstIsDue`: in a sorted list the first entry that is due is
  the first entry, which needs `ReadyWeak`. `OnlyFullLoses`, and
  `RoomMeansNoneLost`, for finitely many coroutines: as long as at most `MaxTasks`
  were called, the others cannot fill the list while a body executes (a pigeonhole
  argument over the coroutines that were called).
* **`DelaySchedulerProofs`**, for any clock granularity and any delays.
  `DelayImplementsOrdered`: every step of the loop is a step of `OrderedScheduler` or
  leaves it alone, so its theorems hold here. `NoEarlyWake`: the invariant added is
  that every expiry lags behind the real time its coroutine asked for by less than a
  tick (`Stamps`), and that main's sample is not ahead of real time (`Clocks`).
  `TiesInOrder`: of two entries with the same expiry the one in front awaited first
  (`Ties`); it is inductive because a new entry goes behind all those that are not
  ready before it, and because an entry in the list is suspended. `DelayTypes` needs
  that an expiry, and what `resume()` tells main to sleep for, leave the clock room
  (`Room`, `Reported`): `PriorityConditionMember` shows that what `resume()` returns is
  the condition of an entry.
* **`ComponentProofs`** has the results about four components that share no
  variables or constants: the assumptions of one say nothing of another.
  * `TaskHeap`: `FramesDisjoint` and `HeapNeverRecovers`, for any frame sizes. The
    invariant added is that all frames end at or below `index`, and that a used heap
    is never quite full.
  * `MachineTimer`: `InterruptOnTime` and `ReadAtomic`, for halves of any size. The
    inductive invariant says, for each place in the driver, how what it has read
    relates to the counter (`Reading`), what is in the compare register (`Writing`),
    and that an overdue expiry is not before time zero (`Asking`). `ClockSteady`:
    while `mtime` fits into an `int` no count is below an earlier one; the invariant
    added is that what the driver has read so far is not below the last count.
  * `CsrAccess`, for 32 and 64 bit harts (the run has 32), all 111 registers and any
    operands of the register's type: `RegisterTypes`, `NoWriteTraps` (no method that exists writes a
    register the hart would not let it), `FieldsIndependent`, `ConstantsExact`, and
    `WholeFieldsReadBack`: a field whose mask covers its extent reads back what was
    written, also if an interrupt came between. Together with the finding
    `csr_fields` that says exactly which fields do. The argument goes once through
    the tables of `RiscvCsr` (`RegistersWellFormed`: every field lies in its register
    and its mask in the field) and from there by what the accessors do to any
    well-formed field; the inductive invariant adds that a field write into which no
    interrupt came stores on top of the value it has read (`Untouched`).
  * `PriorityScheduler`: `PriorityImplementsOrdered`, `PriorityKeepsOrder` and
    `RoundRunsHighest`: no round of main's loop is idle while a coroutine waits, and
    it runs one of the highest priority waiting.
* **`UnorderedSchedulerProofs`**. `HeldOnce`, for any number of schedulers, rooms
  and coroutines: typing and `OneHolder` together are inductive. The work is in
  what an insertion and a removal do to the places of all entries of all lists
  (`InsertEntries`, `PopEntries`) and a push and a pop to those of the stack.
  `OnlyFullLoses` follows step by step from the same invariant: the list that refused
  the coroutine, that of the scheduler it awaited, was full. A step that drops one
  does not tell which of several full schedulers refused it, so the statement is that
  it is an await and that every scheduler whose await it can be had no room.
* **`IrqExampleProofs`**, for a `wfi` that returns only when an interrupt is pending
  (`Spurious` = FALSE; section 5 says what becomes of it otherwise).
  `HandlerOnlyAtLoopHead`: the invariant needed is which interrupts are enabled at
  which statement (`Gates`), that the handler's statements find main at the head of
  its loop (`Places`), and that the timer's interrupt is already pending when main
  enables interrupts (`Armed`), so that it is taken before main gets any further.
  `ExecutesWhereAwaited` and `NothingDropped`: the shape of the stack (`Frames`), that
  each list holds only coroutines that awaited it, the handler's lists only one
  each (`Homes`), and that no coroutine ends (`Alive`). `IrqImplementsUnordered`: main
  and the handler together are users of `UnorderedScheduler`.
* **`TimerLoopProofs`**, for any coroutines, periods and times and for a `wfi` that
  may return at any time. `SleepIsAtomic`: `AtomicSleep` and `OncePerArm`. The
  inductive invariant says which interrupts are enabled at which statement
  (`Gates`), that the handler runs only while main is in the open part of the loop
  (`Places`), what is installed by then (`Installing`), and that the timer
  interrupt is enabled only until the handler has run once (`Hits`). It needs no
  fact about the scheduler. `LoopImplementsOrdered`: the loop with its interrupts uses
  an `OrderedScheduler`, so `LoopSchedulesInOrder`. `NeverSleepsPastLast`: main's
  result stays the expiry of a coroutine that waits until the next sample
  (`Result`), the delay does not reach beyond it from the reading it was computed
  with (`Delay`), and the compare point beyond it only by `lag` (`Alarm`).

Assumptions: the capacities are positive, the set of values is not empty, `None`
is no condition, `ready_to_wake` is a transitive and weak relation, and in
`DelayScheduler` that it compares times; frames have a size above zero; a half has
at least two values, the counter does not wrap around and offsets are `int`s;
schedulers and coroutines are different things; registers have 32 or 64 bits. Each
is an `ASSUME` of the module that declares the constant, and TLC evaluates it in
the runs.

The prover has no induction over data here. Where a proof follows a chain or a
loop, it takes the least number for which the claim fails (`LeastNumber`), which
stands on the well-foundedness of the natural numbers in the standard library.

Only model-checked: liveness (`EveryoneWakes`, `MainExits`, `EndsWithAllDone`,
`MainEnds`, `ResumeReturns`, `EveryoneResumed`, `Alternates`), as fairness is out of
the prover's reach. Every invariant and action property of the passing runs is also
proved.

## 5. Findings

1. `delay_soonest`. The condition `resume()` returns as the one to sleep on is the
   **latest** expiry, where the comment says the soonest. The comparison that sorts
   the list is used in the same direction to pick from it. A main loop that sleeps
   for it oversleeps every other coroutine; they still wake (`delay`), but late.
2. `next_wake`. The event loops of the examples set the timer with
   `next_wake->delay()` whenever `resume()` returned true. After a round that ran a
   coroutine the optional is empty (proved: `NoNextWakeAfterRun`), and what it
   holds is indeterminate. For the delays of
   `Garbage` every coroutine still wakes (`timer_loop`), by the timer's interrupt
   alone if `wfi` never returns early, but when is a matter of chance.
3. `csr_fields`. Fields whose width depends on `__riscv_xlen` (of `mtvec`, `mcause` and
   their like) have a computed mask of a single bit. Writing or reading such a
   field through its class handles that bit only. The examples use `mcause` through
   the mask of its `interrupt` bit and write `mtvec` as a whole, so they are not
   affected.

Seen while modelling, and not runs of their own:

* `resume()` of the ordered scheduler returns true after it ran the last coroutine
  to its end (`scheduler.hpp:262`), where line 231 says that there are still pending
  ones. A loop that goes by the flag makes one more round.
* A coroutine goes in front of those of its own priority (`scheduler.hpp:217`, with
  the `>=` of line 103), so one that keeps awaiting starves the others, although
  lines 258-259 say all entries are visited. If all coroutines end, all get their
  turn (`EndsWithAllDone`).
* `test/unit_tests.cpp:22` says that there is no global state, but the used part of
  the task heap is static and only grows (`nop_task.hpp:151`): frames of tests that
  are over count against the later ones (`HeapNeverRecovers`).
* Beyond 2^31 ticks the count of `get_ticks_time()` goes back (`timer.hpp:72`), and
  the clock made from it declares itself steady.
* In `example_irq()` t5 waits for external interrupts, which nothing enables in
  `mie`: it never wakes. `Alternates` is about t3 and t4.
* `main_thread` of `example_irq()` is resumed with interrupts enabled. It is safe
  because the handler has run, and cleared `mie.mti`, as soon as main enabled
  interrupts after `wfi`. With `Spurious` = TRUE, a `wfi` that returns early,
  `HandlerAtLoopHead` does not hold: main then gets to `resume()` with `mie.mti` set
  and the interrupt still to come. The run assumes a `wfi` that does not.
* `read_set_bits()` and `read_clr_bits()` in the `_ops` structures return
  `uint32_t`, which cuts off the upper half on RV64; `mstatus_data::sie` is bit 2
  there, where the architecture has bit 1.

## 6. What the passing runs and proofs say together

`static_list` may be replaced by `BoundedList` (proved), which is what
`OrderedScheduler` does. On that list, for any coroutines that call each other
and await in any order, the scheduler runs the most urgent one, never enters a
frame that executes or is gone, and forgets none as long as `MAX_TASKS` is at
least their number (proved). With delays none wakes early by a tick or more
(proved) and all wake at last (model-checked). Their frames do not overlap (proved)
as long as their calls do not fail, and the timer that wakes main fires at the
point it was set to (proved) within the range of its tick count. The event loop
that sleeps for it cannot miss it (proved), and wakes every coroutine at last
(model-checked). Coroutines that go between several unordered schedulers are held
once (proved), also when some of the schedulers belong to an interrupt handler, as
long as the handler does not come upon main in a list operation, which it does not
in the one program that does this if its `wfi` returns for an interrupt only
(proved). The event loops with interrupts use the schedulers as any client may
(proved), so the scheduler's guarantees hold in them without further ado.

## 7. Not modelled

* The build variant of `static_list` on top of `std::list`, which forwards calls.
* `startup.cpp`: copies `.data`, clears `.bss`, runs constructors; straight-line, over
  addresses that the linker gives, before main.
* Host emulation headers and `trace.hpp`: stand-ins and debug output.
* What reading methods of registers return, and bits of registers that the hart
  changes by itself other than those in `Hart`.
* The time stamps and counters that the examples keep for a debugger.
* Coroutine bodies beyond their awaits and calls, exceptions other than as an end
  of a body, and `await_ready` of a zero delay, which does not touch the scheduler.

## 8. Plan

Done: all components with control of their own; the compositions of the schedulers
with the hart and the interrupt handler; every safety property of the runs as a
theorem, and the refinements between the loops and their schedulers. Left, in this
order:

1. The compositions without replacing the list: `OrderedScheduler` over `StaticList`
   through `BoundedList`, as one refinement step instead of two.
2. The ordered scheduler composed with `TaskHeap`: calls that fail among coroutines
   that share a scheduler.
3. For `DelayScheduler`, a bound on how late a coroutine wakes given the direction in
   which `resume()` picks the condition to sleep for.
