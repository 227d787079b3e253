----------------------------- MODULE TimerThread -----------------------------
(***************************************************************************)
(* A_CHAR_DRIVER/07_WAIT_QUEUE/waitqueue.c: a timer that re-arms itself     *)
(* raises wait_flag and wakes a kernel thread, which counts the event and  *)
(* lowers the flag.  The exit function deletes the timer and stops the     *)
(* thread.  Timer callback, thread and module interleave at each access to *)
(* what they share.                                                        *)
(***************************************************************************)
EXTENDS Integers

CONSTANT MaxRaised   \* bound: how often the timer expires in a behaviour

ASSUME MaxRaisedAssumption == MaxRaised \in Nat

VARIABLES
  phase,         \* where the module is between insmod and rmmod
  armed,         \* my_timer is pending
  callback,      \* where timer_callback is
  wait_flag,     \* the wait condition
  event_count,
  thread,        \* where my_thread is
  queued,        \* the thread is on waitqueue_head
  runnable,      \* the thread's state is TASK_RUNNING
  should_stop,   \* kthread_stop has set KTHREAD_SHOULD_STOP
  raised         \* history: how often the callback raised the flag

moduleVars == <<phase, should_stop>>
timerVars == <<armed, callback, raised>>
threadVars == <<event_count, thread>>
vars == <<moduleVars, timerVars, threadVars, wait_flag, queued, runnable>>

\* "create", "arm": in init; "live": loaded; "delete", "stop", "join": in
\* exit; "failed": init returned an error; "gone": unloaded.
Phases == {"create", "arm", "live", "delete", "stop", "join", "failed", "gone"}
CallbackStates == {"idle", "raise", "wake", "rearm"}
ThreadStates == {"none", "created", "loop", "check", "prepare", "recheck", "sleep",
                 "finish", "woken", "test", "count", "lower", "exited"}

TypeOK ==
  /\ phase \in Phases
  /\ armed \in BOOLEAN
  /\ callback \in CallbackStates
  /\ wait_flag \in {0, 1}
  /\ event_count \in Nat
  /\ thread \in ThreadStates
  /\ queued \in BOOLEAN
  /\ runnable \in BOOLEAN
  /\ should_stop \in BOOLEAN
  /\ raised \in 0 .. MaxRaised

Init ==
  /\ phase = "create"
  /\ armed = FALSE
  /\ callback = "idle"
  /\ wait_flag = 0
  /\ event_count = 0
  /\ thread = "none"
  /\ queued = FALSE
  /\ runnable = TRUE
  /\ should_stop = FALSE
  /\ raised = 0

-----------------------------------------------------------------------------
(* wait_timer_init *)

(* kthread_run; on IS_ERR nothing has to be undone.                        *)
CreateThread ==
  /\ phase = "create"
  /\ \/ phase' = "arm" /\ thread' = "created"
     \/ phase' = "failed" /\ UNCHANGED thread
  /\ UNCHANGED <<timerVars, event_count, wait_flag, queued, runnable, should_stop>>

(* timer_setup and mod_timer: the thread may have waited for long.         *)
ArmTimer ==
  /\ phase = "arm"
  /\ phase' = "live"
  /\ armed' = TRUE
  /\ UNCHANGED <<callback, raised, threadVars, wait_flag, queued, runnable,
                 should_stop>>

-----------------------------------------------------------------------------
(* wait_timer_exit *)

CallExit ==
  /\ phase = "live"
  /\ phase' = "delete"
  /\ UNCHANGED <<timerVars, threadVars, wait_flag, queued, runnable, should_stop>>

(* Mutant: timer_delete, which does not wait for a running callback.       *)
DeleteTimerNoSync ==
  /\ phase = "delete"
  /\ phase' = "stop"
  /\ armed' = FALSE
  /\ UNCHANGED <<callback, raised, threadVars, wait_flag, queued, runnable,
                 should_stop>>

(* timer_delete_sync: while the callback runs, try again; then dequeue.    *)
DeleteTimer ==
  /\ phase = "delete"
  /\ callback = "idle"
  /\ phase' = "stop"
  /\ armed' = FALSE
  /\ UNCHANGED <<callback, raised, threadVars, wait_flag, queued, runnable,
                 should_stop>>

(* Mutant: kthread_stop sets the bit and does not wake the thread.         *)
StopThreadNoWake ==
  /\ phase = "stop"
  /\ phase' = "join"
  /\ should_stop' = TRUE
  /\ UNCHANGED <<timerVars, threadVars, wait_flag, queued, runnable>>

(* kthread_stop sets KTHREAD_SHOULD_STOP, wakes the thread wherever it     *)
(* sleeps, and waits for it.                                               *)
StopThread ==
  /\ phase = "stop"
  /\ phase' = "join"
  /\ should_stop' = TRUE
  /\ runnable' = TRUE
  /\ UNCHANGED <<timerVars, threadVars, wait_flag, queued>>

JoinThread ==
  /\ phase = "join"
  /\ thread = "exited"
  /\ phase' = "gone"
  /\ UNCHANGED <<timerVars, threadVars, wait_flag, queued, runnable, should_stop>>

-----------------------------------------------------------------------------
(* The timer and timer_callback *)

Expire ==
  /\ armed
  /\ callback = "idle"
  /\ raised < MaxRaised
  /\ armed' = FALSE
  /\ callback' = "raise"
  /\ UNCHANGED <<moduleVars, threadVars, raised, wait_flag, queued, runnable>>

(* Mutant: the callback adds to the flag instead of setting it.            *)
AddToFlag ==
  /\ callback = "raise"
  /\ callback' = "wake"
  /\ wait_flag' = wait_flag + 1
  /\ raised' = raised + 1
  /\ UNCHANGED <<moduleVars, threadVars, armed, queued, runnable>>

RaiseFlag ==
  /\ callback = "raise"
  /\ callback' = "wake"
  /\ wait_flag' = 1
  /\ raised' = raised + 1
  /\ UNCHANGED <<moduleVars, threadVars, armed, queued, runnable>>

(* wake_up_interruptible: the queued thread becomes runnable and leaves.   *)
WakeThread ==
  /\ callback = "wake"
  /\ callback' = "rearm"
  /\ runnable' = (runnable \/ queued)
  /\ queued' = FALSE
  /\ UNCHANGED <<moduleVars, threadVars, armed, raised, wait_flag>>

Rearm ==
  /\ callback = "rearm"
  /\ callback' = "idle"
  /\ armed' = TRUE
  /\ UNCHANGED <<moduleVars, threadVars, raised, wait_flag, queued, runnable>>

-----------------------------------------------------------------------------
(* wait_function, with wait_event_interruptible spelled out *)

Goto(from, to) == thread = from /\ thread' = to

LeavesAlone == UNCHANGED <<moduleVars, timerVars, event_count, wait_flag>>

Condition == wait_flag = 1 \/ should_stop

(* A thread stopped before it first ran never enters wait_function.        *)
Enter ==
  /\ \E from \in {"created", "loop"} :
       Goto(from, IF should_stop THEN "exited"
                  ELSE IF from = "created" THEN "loop" ELSE "check")
  /\ LeavesAlone /\ UNCHANGED <<queued, runnable>>

WaitCheck ==
  /\ Goto("check", IF Condition THEN "woken" ELSE "prepare")
  /\ LeavesAlone /\ UNCHANGED <<queued, runnable>>

(* prepare_to_wait_event: on the queue and TASK_INTERRUPTIBLE, in one step *)
(* under the queue's lock.                                                 *)
PrepareToWait ==
  /\ Goto("prepare", "recheck")
  /\ queued' = TRUE
  /\ runnable' = FALSE
  /\ LeavesAlone

(* Mutant: the condition is not tested again once the thread is queued.    *)
WaitNoRecheck ==
  /\ Goto("recheck", "sleep")
  /\ LeavesAlone /\ UNCHANGED <<queued, runnable>>

WaitRecheck ==
  /\ Goto("recheck", IF Condition THEN "finish" ELSE "sleep")
  /\ LeavesAlone /\ UNCHANGED <<queued, runnable>>

WakeFromSchedule ==
  /\ runnable
  /\ Goto("sleep", "prepare")
  /\ LeavesAlone /\ UNCHANGED <<queued, runnable>>

(* finish_wait *)
FinishWait ==
  /\ Goto("finish", "woken")
  /\ queued' = FALSE
  /\ runnable' = TRUE
  /\ LeavesAlone

(* kthread_should_stop() is tested first, then the flag.                   *)
TestStop ==
  /\ Goto("woken", IF should_stop THEN "exited" ELSE "test")
  /\ LeavesAlone /\ UNCHANGED <<queued, runnable>>

TestFlag ==
  /\ Goto("test", IF wait_flag = 1 THEN "count" ELSE "loop")
  /\ LeavesAlone /\ UNCHANGED <<queued, runnable>>

CountEvent ==
  /\ Goto("count", "lower")
  /\ event_count' = event_count + 1
  /\ UNCHANGED <<moduleVars, timerVars, wait_flag, queued, runnable>>

(* Mutant: the flag is left up.                                            *)
KeepFlag ==
  /\ Goto("lower", "loop")
  /\ LeavesAlone /\ UNCHANGED <<queued, runnable>>

LowerFlag ==
  /\ Goto("lower", "loop")
  /\ wait_flag' = 0
  /\ UNCHANGED <<moduleVars, timerVars, event_count, queued, runnable>>

-----------------------------------------------------------------------------
TimerStep == RaiseFlag \/ WakeThread \/ Rearm

ThreadStep ==
  \/ Enter \/ WaitCheck \/ PrepareToWait \/ WaitRecheck \/ WakeFromSchedule
  \/ FinishWait \/ TestStop \/ TestFlag \/ CountEvent \/ LowerFlag

ModuleStep == CreateThread \/ ArmTimer \/ DeleteTimer \/ StopThread \/ JoinThread

Next == CallExit \/ Expire \/ ModuleStep \/ TimerStep \/ ThreadStep

Spec == Init /\ [][Next]_vars

(* Runnable code runs.  timer_delete_sync tries again and again while the  *)
(* callback runs, and the callback re-arms the timer for five seconds      *)
(* later, so a try falls between two callbacks: strong fairness.           *)
Fairness ==
  /\ WF_vars(ModuleStep) /\ SF_vars(DeleteTimer)
  /\ WF_vars(TimerStep) /\ WF_vars(ThreadStep)

FairSpec == Spec /\ Fairness

-----------------------------------------------------------------------------
(* When init has failed or exit has returned, the module's text and data   *)
(* are freed: no timer is pending, no callback runs and the thread is no   *)
(* more.  The timer is deleted first; nothing re-arms it afterwards.       *)
QuiescentWhenGone ==
  phase \in {"failed", "gone"} =>
    ~armed /\ callback = "idle" /\ thread \in {"none", "exited"} /\ ~queued

(* No lost wake-up: if the thread sleeps, unwoken, while what it waits for *)
(* is true, then the callback is about to wake it.                         *)
NoLostWakeup ==
  thread = "sleep" /\ ~runnable /\ Condition => callback = "wake"

(* The thread is the one consumer of an EventFlag: no event is counted     *)
(* without an expiry of its own.  It is taken when the flag is lowered: an *)
(* expiry between event_count++ and wait_flag = 0 is merged into the event *)
(* that was just counted.                                                  *)
Taken == IF thread = "lower" THEN event_count - 1 ELSE event_count

Flag == INSTANCE EventFlag WITH up <- wait_flag = 1,
                                published <- raised,
                                servings <- Taken
IsEventFlag == Flag!Spec

(* A raised flag is always taken, unless the module is being removed.      *)
RaisedFlagIsTaken ==
  wait_flag = 1 /\ phase = "live" ~> wait_flag = 0 \/ phase # "live"

(* rmmod returns, wherever the thread and the timer are.                   *)
ExitReturns == phase = "delete" ~> phase = "gone"

=============================================================================
