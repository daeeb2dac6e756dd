-------------------------- MODULE OrderedScheduler --------------------------
(***************************************************************************)
(* scheduler_ordered<WAKE_CONDITION_T, MAX_TASKS> of                       *)
(* include/coro/scheduler.hpp together with the life of the nop_task       *)
(* coroutines that await on it (include/coro/nop_task.hpp and the          *)
(* awaitables of include/coro/).                                           *)
(*                                                                         *)
(* One thread runs everything: the main program calls coroutines and       *)
(* resume(), and coroutine bodies run on top of the caller's stack until   *)
(* they suspend or return.  Between any two of its awaits a body does      *)
(* nothing the scheduler can see except calling other coroutines.          *)
(*                                                                         *)
(* waiting_ is a static_list, used through the interface that BoundedList  *)
(* specifies and StaticList implements.                                    *)
(***************************************************************************)
EXTENDS Naturals, Sequences, SequencesExt, FiniteSets

CONSTANTS
  Handle,           (* coroutine frames, each one run of a coroutine        *)
  MaxTasks,         (* template parameter MAX_TASKS                         *)
  Condition,        (* the values of WAKE_CONDITION_T                       *)
  ReadyToWake(_,_), (* a.ready_to_wake(b)                                   *)
  None              (* the empty std::optional, and "no result yet"         *)

ASSUME MaxTasksAssumption == MaxTasks \in Nat \ {0}

ASSUME NoneAssumption == None \notin Condition

ASSUME ReadyBoolean ==
  \A a, b \in Condition : ReadyToWake(a, b) \in BOOLEAN

(* All that is needed of ready_to_wake: it is transitive, and whatever is  *)
(* ready in c is ready in b or b is itself ready in c.  Both the strict    *)
(* order of the expiry times and the reflexive one of the priorities are.  *)
ASSUME ReadyTransitive ==
  \A a, b, c \in Condition :
    ReadyToWake(a, b) /\ ReadyToWake(b, c) => ReadyToWake(a, c)

ASSUME ReadyWeak ==
  \A a, b, c \in Condition :
    ReadyToWake(a, c) => ReadyToWake(a, b) \/ ReadyToWake(b, c)

VARIABLES
  waiting,  (* waiting_, the sequence of its schedule_entry values         *)
  status,   (* what each coroutine frame is doing                          *)
  stack,    (* the bodies on the stack; the last one is executing          *)
  ret       (* what resume() returned to main, None when it has not        *)

vars == <<waiting, status, stack, ret>>

(* schedule_entry: the handle and the condition it waits for.              *)
Entry == [handle : Handle, cond : Condition]

List == INSTANCE BoundedList
          WITH N <- MaxTasks, Value <- Entry, elems <- waiting

Init ==
  /\ waiting = <<>>
  /\ status = [h \in Handle |-> "absent"]
  /\ stack = <<>>
  /\ ret = None

-----------------------------------------------------------------------------
(* A slip: the new entry asks the waiting ones the wrong way round.        *)
InsertPointSwapped(c, k) ==
  /\ \A j \in 1 .. k - 1 : ~ ReadyToWake(waiting[j].cond, c)
  /\ k <= Len(waiting) => ReadyToWake(waiting[k].cond, c)

(* A slip: the new entry goes in front of those it is level with.          *)
InsertPointLevel(c, k) ==
  /\ \A j \in 1 .. k - 1 : ReadyToWake(waiting[j].cond, c)
  /\ k <= Len(waiting) => ~ ReadyToWake(waiting[k].cond, c)

(* Where the loop of insert() stops: at the first entry in whose condition *)
(* the new one is ready, else at end().                                    *)
InsertPoint(c, k) ==
  /\ \A j \in 1 .. k - 1 : ~ ReadyToWake(c, waiting[j].cond)
  /\ k <= Len(waiting) => ReadyToWake(c, waiting[k].cond)

(* A slip: an entry that belongs behind all the others is not stored.      *)
insertNotAtEnd(h, c) ==
  \/ \E k \in 1 .. Len(waiting) :
       /\ InsertPoint(c, k)
       /\ List!Emplace(k, [handle |-> h, cond |-> c])
  \/ /\ waiting # <<>>
     /\ InsertPoint(c, Len(waiting) + 1)
     /\ UNCHANGED waiting
  \/ /\ waiting = <<>>
     /\ List!Emplace(1, [handle |-> h, cond |-> c])

(* insert(): a full list drops the entry (see BoundedList).                *)
insert(h, c) ==
  \E k \in 1 .. Len(waiting) + 1 :
    /\ InsertPoint(c, k)
    /\ List!Emplace(k, [handle |-> h, cond |-> c])

(* priority_condition after the loop of resume() went over the entries of  *)
(* the sequence s without finding one that is due.                         *)
priority_condition(s) ==
  LET pc[i \in 0 .. Len(s)] ==
        IF i = 0
        THEN None
        ELSE IF pc[i - 1] = None \/ ReadyToWake(pc[i - 1], s[i].cond)
             THEN s[i].cond
             ELSE pc[i - 1]
  IN  pc[Len(s)]

(* A slip: the loop runs the last entry that is due.                       *)
DueLast(q, k) ==
  /\ ReadyToWake(waiting[k].cond, q)
  /\ \A j \in k + 1 .. Len(waiting) : ~ ReadyToWake(waiting[j].cond, q)

(* Entry k is the first one of the loop in resume() that is due.           *)
DueFirst(q, k) ==
  /\ ReadyToWake(waiting[k].cond, q)
  /\ \A j \in 1 .. k - 1 : ~ ReadyToWake(waiting[j].cond, q)

NoneDue(q) ==
  \A k \in 1 .. Len(waiting) : ~ ReadyToWake(waiting[k].cond, q)

-----------------------------------------------------------------------------
(* A coroutine is called, by main or by the coroutine on top of the stack. *)
(* initial_suspend() never suspends: the body starts at once.              *)
Call(h) ==
  /\ status[h] = "absent"
  /\ status' = [status EXCEPT ![h] = "running"]
  /\ stack' = Append(stack, h)
  /\ ret' = IF stack = <<>> THEN None ELSE ret
  /\ UNCHANGED waiting

(* The executing body awaits a condition: await_suspend() inserts it, and  *)
(* control goes back to the caller below, or to resume() or main.          *)
Await(c) ==
  /\ stack # <<>>
  /\ insert(Last(stack), c)
  /\ status' = [status EXCEPT ![Last(stack)] = "suspended"]
  /\ stack' = Front(stack)
  /\ UNCHANGED ret

(* The executing body ends, by co_return or by an exception.  The promise  *)
(* records that, final_suspend() never suspends: the frame is destroyed.   *)
CoReturn ==
  /\ stack # <<>>
  /\ status' = [status EXCEPT ![Last(stack)] = "done"]
  /\ stack' = Front(stack)
  /\ UNCHANGED <<waiting, ret>>

(* A slip: the entry is erased after handle.resume(), so not before the    *)
(* body has run.                                                           *)
ResumeDueErasesLate(q) ==
  \E k \in 1 .. Len(waiting) :
    /\ DueFirst(q, k)
    /\ UNCHANGED waiting
    /\ status' = [status EXCEPT ![waiting[k].handle] = "running"]
    /\ stack' = <<waiting[k].handle>>
    /\ ret' = [pending |-> TRUE,
               next |-> priority_condition(SubSeq(waiting, 1, k - 1))]

(* resume(q) finds an entry that is due: it erases the entry, resumes the  *)
(* handle, and once the stack is empty again it returns ret to main.       *)
ResumeDue(q) ==
  \E k \in 1 .. Len(waiting) :
    /\ DueFirst(q, k)
    /\ List!Erase(k)
    /\ status' = [status EXCEPT ![waiting[k].handle] = "running"]
    /\ stack' = <<waiting[k].handle>>
    /\ ret' = [pending |-> TRUE,
               next |-> priority_condition(SubSeq(waiting, 1, k - 1))]

(* A slip: pending is set behind the loop's first round only.              *)
ResumeIdleForgets(q) ==
  /\ NoneDue(q)
  /\ ret' = [pending |-> Len(waiting) > 1,
             next |-> priority_condition(waiting)]
  /\ UNCHANGED <<waiting, status, stack>>

(* resume(q) goes over all the entries and none is due.                    *)
ResumeIdle(q) ==
  /\ NoneDue(q)
  /\ ret' = [pending |-> waiting # <<>>,
             next |-> priority_condition(waiting)]
  /\ UNCHANGED <<waiting, status, stack>>

(* main calls resume(q).                                                   *)
resume(q) ==
  /\ stack = <<>>
  /\ ResumeDue(q) \/ ResumeIdle(q)

Next ==
  \/ \E h \in Handle : Call(h)
  \/ \E c \in Condition : Await(c)
  \/ CoReturn
  \/ \E q \in Condition : resume(q)

Spec == Init /\ [][Next]_vars

-----------------------------------------------------------------------------
TypeOK ==
  /\ waiting \in Seq(Entry)
  /\ Len(waiting) <= MaxTasks
  /\ status \in [Handle -> {"absent", "running", "suspended", "done"}]
  /\ stack \in Seq(Handle)
  /\ ret \in {None} \cup [pending : BOOLEAN, next : Condition \cup {None}]

(* a need not wait for b: a is ready in b, or b is not ready in a.         *)
NotAfter(a, b) == ReadyToWake(a, b) \/ ~ ReadyToWake(b, a)

(* The list stays sorted by urgency (the earliest expiry, or the highest   *)
(* priority first) whatever is inserted and resumed in between.            *)
WaitingSorted ==
  \A i, j \in 1 .. Len(waiting) :
    i < j => NotAfter(waiting[i].cond, waiting[j].cond)

(* A coroutine frame is held in one place only: on the stack, once, while  *)
(* it executes, or in the scheduler, at most once, while it is suspended.  *)
(* So resume() never enters a body that is executing already, nor a frame  *)
(* that was destroyed.                                                     *)
SoleOwner ==
  /\ \A i \in 1 .. Len(waiting) : status[waiting[i].handle] = "suspended"
  /\ \A i, j \in 1 .. Len(waiting) :
       waiting[i].handle = waiting[j].handle => i = j
  /\ \A i \in 1 .. Len(stack) : status[stack[i]] = "running"
  /\ \A i, j \in 1 .. Len(stack) : stack[i] = stack[j] => i = j

(* h is suspended and nothing will resume it.                              *)
Lost(h) ==
  /\ status[h] = "suspended"
  /\ \A i \in 1 .. Len(waiting) : waiting[i].handle # h

(* The coroutines that were ever called.                                   *)
Started == {h \in Handle : status[h] # "absent"}

(* As long as no more than MAX_TASKS coroutines were called, no suspended  *)
(* one is forgotten, although insert() drops an entry that the list has no *)
(* node for: a coroutine that executes has no entry, and needs one.        *)
NoneLost ==
  Cardinality(Started) <= MaxTasks => \A h \in Handle : ~ Lost(h)

(* With more coroutines than MAX_TASKS, the ones that get lost are those   *)
(* that await while all the entries are taken, never one that was waiting. *)
LostOnlyWhenFull ==
  [][ \A h \in Handle :
        ~ Lost(h) /\ Lost(h)' => Len(waiting) = MaxTasks /\ h = Last(stack) ]_vars

(* Once resume() returned false, nothing is scheduled until main calls     *)
(* another coroutine.                                                      *)
FalseMeansEmpty == (ret # None /\ ~ ret.pending) => waiting = <<>>

(* The coroutine that resume() wakes is one that no other waiting one need *)
(* run before.                                                             *)
ResumesMostUrgent ==
  [][ \A k \in 1 .. Len(waiting) :
        (status'[waiting[k].handle] = "running") =>
          \A j \in 1 .. Len(waiting) :
            NotAfter(waiting[k].cond, waiting[j].cond) ]_vars

(* When resume() woke a coroutine it had passed over no entry: the         *)
(* condition it returns beside true is empty, and does not tell the caller *)
(* how long to wait.                                                       *)
RunGivesNoNextWake ==
  [][ stack = <<>> /\ stack' # <<>> /\ ret' # None => ret'.next = None ]_vars
=============================================================================
