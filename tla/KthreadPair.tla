----------------------------- MODULE KthreadPair -----------------------------
(***************************************************************************)
(* The life of a module that owns kernel threads, as in                    *)
(* C_THREAD_AND_SYNCH/01_KTHREAD/kthread.c: the init function starts the   *)
(* threads one after the other and undoes its work when one cannot be      *)
(* created; the exit function stops them in the same order, waiting for    *)
(* each.  kthread.c has two threads, written out; here they are 1 .. N,    *)
(* and "stop Thread 1 because Thread 2 creation failed" becomes "stop the  *)
(* threads created so far".                                                *)
(***************************************************************************)
EXTENDS Naturals

CONSTANT N    \* number of threads, 2 in the code

ASSUME NAssumption == N \in Nat \ {0}

Threads == 1 .. N

VARIABLES
  phase,        \* where the module is between insmod and rmmod
  created,      \* threads 1 .. created exist (thread1_task, thread2_task)
  stopping,     \* kthread_stop has been called for threads 1 .. stopping
  should_stop,  \* threads with KTHREAD_SHOULD_STOP set
  thread        \* the state of each thread

vars == <<phase, created, stopping, should_stop, thread>>

\* "init": in the init function; "undo": in its error path; "live": loaded;
\* "exit": in the exit function; "failed": init returned an error;
\* "gone": unloaded.  In the last two the module's text is freed.
Phases == {"init", "undo", "live", "exit", "failed", "gone"}

\* "none": not created; "created": has not reached its function yet;
\* "loop": about to test kthread_should_stop(); "body": inside the loop body.
ThreadStates == {"none", "created", "loop", "body", "exited"}

TypeOK ==
  /\ phase \in Phases
  /\ created \in 0 .. N
  /\ stopping \in 0 .. N
  /\ should_stop \subseteq Threads
  /\ thread \in [Threads -> ThreadStates]

Init ==
  /\ phase = "init"
  /\ created = 0
  /\ stopping = 0
  /\ should_stop = {}
  /\ thread = [t \in Threads |-> "none"]

-----------------------------------------------------------------------------
(* two_kthread_init *)

RunThread ==
  /\ phase = "init"
  /\ created < N
  /\ created' = created + 1
  /\ thread' = [thread EXCEPT ![created + 1] = "created"]
  /\ phase' = IF created + 1 = N THEN "live" ELSE "init"
  /\ UNCHANGED <<stopping, should_stop>>

(* IS_ERR(task): with no thread yet the error is returned at once.         *)
RunThreadFails ==
  /\ phase = "init"
  /\ created < N
  /\ phase' = IF created = 0 THEN "failed" ELSE "undo"
  /\ UNCHANGED <<created, stopping, should_stop, thread>>

-----------------------------------------------------------------------------
(* two_kthread_exit, and the kthread_stop calls of init's error path *)

CallExit ==
  /\ phase = "live"
  /\ phase' = "exit"
  /\ UNCHANGED <<created, stopping, should_stop, thread>>

(* The last kthread_stop called has returned: its thread has exited.       *)
LastStopReturned == stopping # 0 => thread[stopping] = "exited"

StopNext ==
  /\ phase \in {"undo", "exit"}
  /\ LastStopReturned
  /\ stopping < created
  /\ stopping' = stopping + 1
  /\ should_stop' = should_stop \cup {stopping + 1}
  /\ UNCHANGED <<phase, created, thread>>

(* Mutant: the function returns with its last thread not stopped.          *)
AllButLastStopped == stopping + 1 >= created /\ LastStopReturned

AllStopped == stopping = created /\ LastStopReturned

ModuleGone ==
  /\ phase \in {"undo", "exit"}
  /\ AllStopped
  /\ phase' = IF phase = "undo" THEN "failed" ELSE "gone"
  /\ UNCHANGED <<created, stopping, should_stop, thread>>

-----------------------------------------------------------------------------
(* A thread: the kernel's kthread() wrapper and the thread function *)

(* A thread stopped before it first ran never enters its function.         *)
Start(t) ==
  /\ thread[t] = "created"
  /\ thread' = [thread EXCEPT ![t] = IF t \in should_stop THEN "exited" ELSE "loop"]
  /\ UNCHANGED <<phase, created, stopping, should_stop>>

(* Mutant: the loop does not test kthread_should_stop().                   *)
LoopForever(t) ==
  /\ thread[t] = "loop"
  /\ thread' = [thread EXCEPT ![t] = "body"]
  /\ UNCHANGED <<phase, created, stopping, should_stop>>

LoopTest(t) ==
  /\ thread[t] = "loop"
  /\ thread' = [thread EXCEPT ![t] = IF t \in should_stop THEN "exited" ELSE "body"]
  /\ UNCHANGED <<phase, created, stopping, should_stop>>

(* count++ and ssleep, which no stop request cuts short.                   *)
Body(t) ==
  /\ thread[t] = "body"
  /\ thread' = [thread EXCEPT ![t] = "loop"]
  /\ UNCHANGED <<phase, created, stopping, should_stop>>

ThreadStep(t) == Start(t) \/ LoopTest(t) \/ Body(t)

ModuleStep == RunThread \/ RunThreadFails \/ StopNext \/ ModuleGone

Next == CallExit \/ ModuleStep \/ \E t \in Threads : ThreadStep(t)

Spec == Init /\ [][Next]_vars

-----------------------------------------------------------------------------
Alive(t) == thread[t] \notin {"none", "exited"}

(* When the init function has failed or the exit function has returned,    *)
(* the module's text is freed: no thread may still be able to run it.      *)
NoThreadOutlivesModule ==
  phase \in {"failed", "gone"} => \A t \in Threads : ~Alive(t)

(* A thread leaves only because kthread_stop asked it to: until then the   *)
(* task pointer the exit function passes to kthread_stop is valid.         *)
ExitsOnlyWhenAsked ==
  \A t \in Threads : thread[t] = "exited" => t \in should_stop

(* A stop is never asked of more than one live thread: exit waits for each *)
(* thread before it turns to the next.                                     *)
StopsOneAtATime ==
  \A s, t \in should_stop : Alive(s) /\ Alive(t) => s = t

(* rmmod returns, and a failing insmod returns too, whatever the threads   *)
(* are doing when they are stopped.                                        *)
TeardownCompletes ==
  /\ phase = "exit" ~> phase = "gone"
  /\ phase = "undo" ~> phase = "failed"

=============================================================================
