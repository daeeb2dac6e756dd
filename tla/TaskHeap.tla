------------------------------ MODULE TaskHeap ------------------------------
(***************************************************************************)
(* The frames of nop_task coroutines (include/coro/nop_task.hpp): operator *)
(* new of the promise type takes them one behind the other from a static   *)
(* array and operator delete gives nothing back.  A call whose frame does  *)
(* not fit yields a task without a coroutine.                              *)
(*                                                                         *)
(* main calls coroutines, which call others, and then waits for those it   *)
(* called itself, as the loops "while (!task.done())" of the tests do.     *)
(***************************************************************************)
EXTENDS Naturals

CONSTANTS
  Task,       (* the calls of coroutines                                   *)
  FrameSize,  (* the size of the frame that each of them needs             *)
  HeapSize    (* TASK_HEAP_SIZE                                            *)

ASSUME HeapSizeAssumption == HeapSize \in Nat
ASSUME FrameSizeAssumption == FrameSize \in [Task -> Nat \ {0}]

VARIABLES
  index,  (* task_heap_index_                                              *)
  start,  (* where the frame of each coroutine is                          *)
  state,  (* what became of each call                                      *)
  done,   (* the flag a nop_task shares with its promise                   *)
  tasks,  (* the calls whose nop_task main has                             *)
  main    (* what main does                                                *)

heapVars == <<index, start, state, done, tasks, main>>

HeapInit ==
  /\ index = 0
  /\ start = [t \in Task |-> 0]
  /\ state = [t \in Task |-> "absent"]
  /\ done = [t \in Task |-> FALSE]
  /\ tasks = {}
  /\ main = "calls"

-----------------------------------------------------------------------------
(* The test of operator new.                                               *)
Fits(size) == index + size < HeapSize

(* A slip: the index does not move on.                                     *)
AllocateInPlace(t) ==
  /\ Fits(FrameSize[t])
  /\ start' = [start EXCEPT ![t] = index]
  /\ state' = [state EXCEPT ![t] = "live"]
  /\ UNCHANGED <<index, done>>

(* operator new finds room: get_return_object() makes the shared flag, and *)
(* the coroutine starts.                                                   *)
Allocate(t) ==
  /\ Fits(FrameSize[t])
  /\ start' = [start EXCEPT ![t] = index]
  /\ index' = index + FrameSize[t]
  /\ state' = [state EXCEPT ![t] = "live"]
  /\ UNCHANGED done

(* get_return_object_on_allocation_failure(): a task without a coroutine,  *)
(* and without a flag.                                                     *)
AllocationFailure(t) ==
  /\ ~ Fits(FrameSize[t])
  /\ state' = [state EXCEPT ![t] = "failed"]
  /\ UNCHANGED <<index, start, done>>

(* main calls a coroutine and keeps the task.                              *)
MainCalls(t) ==
  /\ state[t] = "absent"
  /\ main = "calls"
  /\ Allocate(t) \/ AllocationFailure(t)
  /\ tasks' = tasks \cup {t}
  /\ UNCHANGED main

(* A coroutine calls another, and the task goes with its caller.           *)
BodyCalls(t) ==
  /\ state[t] = "absent"
  /\ main # "over"
  /\ \E u \in Task : state[u] = "live"
  /\ Allocate(t) \/ AllocationFailure(t)
  /\ UNCHANGED <<tasks, main>>

(* A slip: the bytes of the frame are taken back from the end of the heap, *)
(* where another frame may be.                                             *)
ReturnVoidGivesBack(t) ==
  /\ state[t] = "live"
  /\ main # "over"
  /\ index' = index - FrameSize[t]
  /\ state' = [state EXCEPT ![t] = "ended"]
  /\ done' = [done EXCEPT ![t] = TRUE]
  /\ UNCHANGED <<start, tasks, main>>

(* return_void(), then final_suspend() and operator delete.                *)
ReturnVoid(t) ==
  /\ state[t] = "live"
  /\ main # "over"
  /\ state' = [state EXCEPT ![t] = "ended"]
  /\ done' = [done EXCEPT ![t] = TRUE]
  /\ UNCHANGED <<index, start, tasks, main>>

(* A slip: an exception ends the coroutine but does not set the flag.      *)
UnhandledExceptionSilent(t) ==
  /\ state[t] = "live"
  /\ main # "over"
  /\ state' = [state EXCEPT ![t] = "ended"]
  /\ UNCHANGED <<index, start, done, tasks, main>>

(* unhandled_exception(), then the same.                                   *)
UnhandledException(t) ==
  /\ state[t] = "live"
  /\ main # "over"
  /\ state' = [state EXCEPT ![t] = "ended"]
  /\ done' = [done EXCEPT ![t] = TRUE]
  /\ UNCHANGED <<index, start, tasks, main>>

(* main has called its coroutines and waits for them.                      *)
Wait ==
  /\ main = "calls"
  /\ main' = "waits"
  /\ UNCHANGED <<index, start, state, done, tasks>>

(* All the tasks of main are done.                                         *)
Finish ==
  /\ main = "waits"
  /\ \A t \in tasks : done[t]
  /\ main' = "over"
  /\ UNCHANGED <<index, start, state, done, tasks>>

End(t) == ReturnVoid(t) \/ UnhandledException(t)

HeapNext ==
  \/ \E t \in Task : MainCalls(t) \/ BodyCalls(t) \/ End(t)
  \/ Wait
  \/ Finish

HeapSpec == HeapInit /\ [][HeapNext]_heapVars

(* Each coroutine comes to its end when it is run, and main does not stop. *)
FairHeapSpec ==
  /\ HeapSpec
  /\ \A t \in Task : WF_heapVars(End(t))
  /\ WF_heapVars(Wait)
  /\ WF_heapVars(Finish)

-----------------------------------------------------------------------------
HeapTypeOK ==
  /\ index \in 0 .. HeapSize
  /\ start \in [Task -> 0 .. HeapSize]
  /\ state \in [Task -> {"absent", "live", "ended", "failed"}]
  /\ done \in [Task -> BOOLEAN]
  /\ tasks \subseteq Task
  /\ main \in {"calls", "waits", "over"}

HasFrame(t) == state[t] \in {"live", "ended"}

(* No two frames share a byte and all of them are in the array, also those *)
(* that were deleted: a frame is never handed out twice, so a handle that  *)
(* is used too late still finds its own frame.                             *)
FramesApart ==
  \A t \in Task : HasFrame(t) =>
    /\ start[t] + FrameSize[t] < HeapSize
    /\ \A u \in Task : HasFrame(u) /\ u # t =>
         \/ start[t] + FrameSize[t] <= start[u]
         \/ start[u] + FrameSize[u] <= start[t]

(* A call that failed would fail again: nothing that happens later makes   *)
(* room for it.                                                            *)
FailureIsFinal ==
  \A t \in Task : state[t] = "failed" => index + FrameSize[t] >= HeapSize

(* main's loop over done() ends, however each coroutine does, unless one   *)
(* of the calls of main itself found no room.                              *)
MainEnds == <>(main = "over" \/ \E t \in tasks : state[t] = "failed")
=============================================================================
