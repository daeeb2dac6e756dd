------------------------- MODULE UnorderedScheduler -------------------------
(***************************************************************************)
(* scheduler_unordered<MAX_TASKS> of include/coro/scheduler.hpp and the    *)
(* awaitable of include/coro/awaitable_unordered.hpp: several schedulers,  *)
(* and coroutines that go from one to the other with co_await scheduler.   *)
(*                                                                         *)
(* resume() is a loop that runs until its list is empty, with the bodies   *)
(* it resumes on top of it: both are frames of the one stack.              *)
(***************************************************************************)
EXTENDS Naturals, Sequences, SequencesExt, FiniteSets

CONSTANTS
  Scheduler,  (* the scheduler_unordered objects                           *)
  MaxTasks,   (* template parameter MAX_TASKS of each                      *)
  Handle      (* coroutine frames, each one run of a coroutine             *)

ASSUME UnorderedAssumption ==
  /\ MaxTasks \in [Scheduler -> Nat \ {0}]
  /\ Scheduler \cap Handle = {}

VARIABLES
  waiting,  (* waiting_ of each scheduler                                  *)
  status,   (* what each coroutine frame is doing                          *)
  stack     (* resume() calls and bodies; the last one is executing        *)

vars == <<waiting, status, stack>>

Init ==
  /\ waiting = [s \in Scheduler |-> <<>>]
  /\ status = [h \in Handle |-> "absent"]
  /\ stack = <<>>

Executing(f) == stack # <<>> /\ Last(stack) = f

-----------------------------------------------------------------------------
(* A slip: a list with one place left is taken for full.                   *)
insertShort(s, h) ==
  waiting' = [waiting EXCEPT ![s] =
                IF Len(@) + 1 >= MaxTasks[s] THEN @ ELSE Append(@, h)]

(* insert(): emplace_back(), which drops the entry when the list is full.  *)
insert(s, h) ==
  waiting' = [waiting EXCEPT ![s] =
                IF Len(@) = MaxTasks[s] THEN @ ELSE Append(@, h)]

(* A coroutine is called, by main or by a body: it starts at once.         *)
Call(h) ==
  /\ stack # <<>> => Last(stack) \in Handle
  /\ status[h] = "absent"
  /\ status' = [status EXCEPT ![h] = "running"]
  /\ stack' = Append(stack, h)
  /\ UNCHANGED waiting

(* The body of h does co_await s: await_ready() is false, so it suspends.  *)
Await(h, s) ==
  /\ Executing(h)
  /\ insert(s, h)
  /\ status' = [status EXCEPT ![h] = "suspended"]
  /\ stack' = Front(stack)

(* The body ends and its frame is destroyed.                               *)
CoReturn(h) ==
  /\ Executing(h)
  /\ status' = [status EXCEPT ![h] = "done"]
  /\ stack' = Front(stack)
  /\ UNCHANGED waiting

(* s.resume() is called ...                                                *)
Resume(s) ==
  /\ stack' = Append(stack, s)
  /\ UNCHANGED <<waiting, status>>

(* A slip: the entry is left in the list while its coroutine runs.         *)
ResumeNextKeeps(s) ==
  /\ Executing(s)
  /\ waiting[s] # <<>>
  /\ status' = [status EXCEPT ![Head(waiting[s])] = "running"]
  /\ stack' = Append(stack, Head(waiting[s]))
  /\ UNCHANGED waiting

(* ... takes the first entry off the list and resumes it ...               *)
ResumeNext(s) ==
  /\ Executing(s)
  /\ waiting[s] # <<>>
  /\ waiting' = [waiting EXCEPT ![s] = Tail(@)]
  /\ status' = [status EXCEPT ![Head(waiting[s])] = "running"]
  /\ stack' = Append(stack, Head(waiting[s]))

(* A slip: resume() does not look whether its list is empty.               *)
ResumeEndsEarly(s) ==
  /\ Executing(s)
  /\ stack' = Front(stack)
  /\ UNCHANGED <<waiting, status>>

(* ... and returns when there is none.                                     *)
ResumeEnds(s) ==
  /\ Executing(s)
  /\ waiting[s] = <<>>
  /\ stack' = Front(stack)
  /\ UNCHANGED <<waiting, status>>

-----------------------------------------------------------------------------
(* The loop of the tests over its schedulers, in any order,                *)
(*                                                                         *)
(*   do { a.resume(); b.resume(); } while (!task.done());                  *)
AllDone == \A h \in Handle : status[h] \in {"absent", "done"}

MainResumes(s) ==
  /\ stack = <<>>
  /\ ~ AllDone
  /\ Resume(s)

Exited ==
  /\ stack = <<>>
  /\ AllDone
  /\ UNCHANGED vars

Loop == \E s \in Scheduler : ResumeNext(s) \/ ResumeEnds(s)

Body == \E h \in Handle : CoReturn(h) \/ \E s \in Scheduler : Await(h, s)

Next ==
  \/ \E h \in Handle : Call(h)
  \/ Body
  \/ \E s \in Scheduler : MainResumes(s)
  \/ Loop
  \/ Exited

Safety == Init /\ [][Next]_vars

(* h goes away from the scheduler whose resume() runs it, or ends.         *)
Leave(h) ==
  \/ CoReturn(h)
  \/ \E s \in Scheduler : (\A i \in 1 .. Len(stack) : stack[i] # s) /\ Await(h, s)

(* main's loop comes round to every scheduler; the loop of resume() goes   *)
(* on, and a body awaits or ends at last.  No coroutine awaits for ever    *)
(* the scheduler that is resuming it.                                      *)
Spec ==
  /\ Safety
  /\ WF_vars(Loop)
  /\ WF_vars(Body)
  /\ \A s \in Scheduler : SF_vars(MainResumes(s))
  /\ \A h \in Handle : SF_vars(Leave(h))

-----------------------------------------------------------------------------
TypeOK ==
  /\ waiting \in [Scheduler -> Seq(Handle)]
  /\ \A s \in Scheduler : Len(waiting[s]) <= MaxTasks[s]
  /\ status \in [Handle -> {"absent", "running", "suspended", "done"}]
  /\ stack \in Seq(Scheduler \cup Handle)

(* A coroutine frame is in one place only, over all the schedulers: once   *)
(* on the stack while it executes, or once in one of the lists while it is *)
(* suspended.  So no resume() enters a body that is executing, or a frame  *)
(* that was destroyed.                                                     *)
OneHolder ==
  /\ \A s \in Scheduler : \A i \in DOMAIN waiting[s] :
       /\ status[waiting[s][i]] = "suspended"
       /\ \A t \in Scheduler : \A j \in DOMAIN waiting[t] :
            waiting[s][i] = waiting[t][j] => s = t /\ i = j
  /\ \A i, j \in DOMAIN stack :
       stack[i] \in Handle =>
         status[stack[i]] = "running" /\ (stack[i] = stack[j] => i = j)

(* h is suspended and no scheduler has it.                                 *)
Lost(h) ==
  /\ status[h] = "suspended"
  /\ \A s \in Scheduler : \A i \in DOMAIN waiting[s] : waiting[s][i] # h

(* The only coroutine that ever gets lost is one that awaits, and the list *)
(* of the very scheduler it awaits is full; one that was waiting stays.    *)
LostOnlyWhenFull ==
  [][ \A h \in Handle :
        ~ Lost(h) /\ Lost(h)' =>
          /\ \E s \in Scheduler : Await(h, s)
          /\ \A s \in Scheduler : Await(h, s) => Len(waiting[s]) = MaxTasks[s] ]_vars

(* resume() returns, although it goes on as long as its list is not empty  *)
(* and coroutines may come back to it.                                     *)
ResumeReturns ==
  \A s \in Scheduler : Executing(s) ~> stack = <<>>

(* Every coroutine that waits for a scheduler is resumed some time.        *)
EveryoneResumed ==
  \A h \in Handle :
    status[h] = "suspended" /\ ~ Lost(h) ~> status[h] = "running"
=============================================================================
