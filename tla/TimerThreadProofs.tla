-------------------------- MODULE TimerThreadProofs --------------------------
(***************************************************************************)
(* The timer and the thread of A_CHAR_DRIVER/07_WAIT_QUEUE: types, what is *)
(* left after exit, wake-ups, and the refinement of EventFlag, for every   *)
(* number of expiries.                                                     *)
(***************************************************************************)
EXTENDS TimerThread, TLAPS

USE MaxRaisedAssumption

(* Where the thread is when it is on the queue, or not runnable.           *)
Waiting == {"prepare", "recheck", "sleep", "finish"}

(* The parts of the inductive invariant, beside the types.                 *)

(* The timer lives from the end of init until exit has deleted it.         *)
TimerLives ==
  /\ armed \/ callback # "idle" => phase \in {"live", "delete"}
  /\ callback = "raise" => raised < MaxRaised

(* The thread exists once it was created, and has exited when exit is done.*)
ThreadLives ==
  /\ thread = "none" <=> phase \in {"create", "failed"}
  /\ should_stop <=> phase \in {"join", "gone"}
  /\ phase = "gone" => thread = "exited"

(* Who is on the queue is inside the wait, and who is not runnable is on   *)
(* the queue, where the callback finds it.                                 *)
QueueHolds ==
  /\ queued => thread \in Waiting
  /\ ~runnable => queued

(* Nobody but the thread lowers the flag it has seen up.                   *)
FlagStaysUp == thread \in {"count", "lower"} => wait_flag = 1

IInv == TypeOK /\ TimerLives /\ ThreadLives /\ QueueHolds /\ NoLostWakeup /\ FlagStaysUp

(* The invariant holds at insmod.                                          *)
LEMMA IInvInit == Init => IInv
<1> SUFFICES ASSUME Init
             PROVE  IInv
  OBVIOUS
<1>1. TypeOK
  <2>1. armed \in BOOLEAN /\ queued \in BOOLEAN /\ runnable \in BOOLEAN
        /\ should_stop \in BOOLEAN
    BY DEF Init
  <2>2. event_count \in Nat /\ raised \in 0 .. MaxRaised /\ wait_flag \in {0, 1}
    BY DEF Init
  <2>3. phase \in Phases /\ callback \in CallbackStates /\ thread \in ThreadStates
    BY DEF Init, Phases, CallbackStates, ThreadStates
  <2>4. QED
    BY <2>1, <2>2, <2>3 DEF TypeOK
<1>2. TimerLives
  BY DEF Init, TimerLives
<1>3. ThreadLives
  BY DEF Init, ThreadLives
<1>4. QueueHolds
  BY DEF Init, QueueHolds
<1>5. NoLostWakeup /\ FlagStaysUp
  BY DEF Init, NoLostWakeup, FlagStaysUp
<1>6. QED
  BY <1>1, <1>2, <1>3, <1>4, <1>5 DEF IInv

(* The steps of init and exit keep it.                                     *)
LEMMA ModuleKeepsIInv ==
  ASSUME IInv, ModuleStep \/ CallExit
  PROVE  IInv'
<1> USE DEF IInv, TypeOK, Phases, CallbackStates, ThreadStates, TimerLives,
            ThreadLives, QueueHolds, NoLostWakeup, Condition, FlagStaysUp, Waiting,
            moduleVars, timerVars, threadVars
<1>1. CASE CreateThread
  BY <1>1 DEF CreateThread
<1>2. CASE ArmTimer
  BY <1>2 DEF ArmTimer
<1>3. CASE CallExit
  BY <1>3 DEF CallExit
<1>4. CASE DeleteTimer
  BY <1>4 DEF DeleteTimer
<1>5. CASE StopThread
  BY <1>5 DEF StopThread
<1>6. CASE JoinThread
  BY <1>6 DEF JoinThread
<1>7. QED
  BY <1>1, <1>2, <1>3, <1>4, <1>5, <1>6 DEF ModuleStep

(* The timer and its callback keep it.                                     *)
LEMMA TimerKeepsIInv ==
  ASSUME IInv, Expire \/ TimerStep
  PROVE  IInv'
<1> USE DEF IInv, TypeOK, Phases, CallbackStates, ThreadStates, TimerLives,
            ThreadLives, QueueHolds, NoLostWakeup, Condition, FlagStaysUp, Waiting,
            moduleVars, timerVars, threadVars
<1>1. CASE Expire
  BY <1>1 DEF Expire
<1>2. CASE RaiseFlag
  BY <1>2 DEF RaiseFlag
<1>3. CASE WakeThread
  BY <1>3 DEF WakeThread
<1>4. CASE Rearm
  BY <1>4 DEF Rearm
<1>5. QED
  BY <1>1, <1>2, <1>3, <1>4 DEF TimerStep

(* The waiting thread keeps it.                                            *)
LEMMA ThreadKeepsIInv ==
  ASSUME IInv, ThreadStep
  PROVE  IInv'
<1> USE DEF IInv, TypeOK, Phases, CallbackStates, ThreadStates, TimerLives,
            ThreadLives, QueueHolds, NoLostWakeup, Condition, FlagStaysUp, Waiting,
            moduleVars, timerVars, threadVars, Goto, LeavesAlone
<1>1. CASE Enter
  BY <1>1 DEF Enter
<1>2. CASE WaitCheck
  BY <1>2 DEF WaitCheck
<1>3. CASE PrepareToWait
  BY <1>3 DEF PrepareToWait
<1>4. CASE WaitRecheck
  BY <1>4 DEF WaitRecheck
<1>5. CASE WakeFromSchedule
  BY <1>5 DEF WakeFromSchedule
<1>6. CASE FinishWait
  BY <1>6 DEF FinishWait
<1>7. CASE TestStop
  BY <1>7 DEF TestStop
<1>8. CASE TestFlag
  BY <1>8 DEF TestFlag
<1>9. CASE CountEvent
  BY <1>9 DEF CountEvent
<1>10. CASE LowerFlag
  BY <1>10 DEF LowerFlag
<1>11. QED
  BY <1>1, <1>2, <1>3, <1>4, <1>5, <1>6, <1>7, <1>8, <1>9, <1>10 DEF ThreadStep

(* The invariant is inductive.                                             *)
LEMMA IInvInductive == Spec => []IInv
<1>1. IInv /\ [Next]_vars => IInv'
  <2> SUFFICES ASSUME IInv, [Next]_vars
               PROVE  IInv'
    OBVIOUS
  <2>1. CASE UNCHANGED vars
    BY <2>1 DEF IInv, TypeOK, TimerLives, ThreadLives, QueueHolds, NoLostWakeup,
                Condition, FlagStaysUp, vars, moduleVars, timerVars, threadVars
  <2>2. QED
    BY <2>1, ModuleKeepsIInv, TimerKeepsIInv, ThreadKeepsIInv DEF Next
<1>2. QED
  BY <1>1, IInvInit, PTL DEF Spec

-----------------------------------------------------------------------------
(* Every variable of TimerThread keeps its type, wait_flag among them: it  *)
(* is set, not counted up.                                                 *)
THEOREM TimerTypeCorrect == Spec => []TypeOK
<1>1. IInv => TypeOK
  BY DEF IInv
<1>2. QED
  BY <1>1, IInvInductive, PTL

(* After a failed init or a finished exit no timer is pending, no callback *)
(* runs and the thread is gone and off the queue.                          *)
THEOREM NothingRunsWhenGone == Spec => []QuiescentWhenGone
<1>1. IInv => QuiescentWhenGone
  BY DEF IInv, TypeOK, Phases, CallbackStates, TimerLives, ThreadLives, QueueHolds,
         Waiting, QuiescentWhenGone
<1>2. QED
  BY <1>1, IInvInductive, PTL

(* Neither the callback's wake-up nor that of kthread_stop is lost,        *)
(* wherever the thread is on its way to sleep.                             *)
THEOREM NoTimerWakeupLost == Spec => []NoLostWakeup
<1>1. IInv => NoLostWakeup
  BY DEF IInv
<1>2. QED
  BY <1>1, IInvInductive, PTL

-----------------------------------------------------------------------------
(* Raising the flag is a Publish, lowering it the Serve of the event that  *)
(* was counted, and every other step leaves flag, expiries and taken       *)
(* events alone.                                                           *)
THEOREM TimerImplementsEventFlag == Spec => IsEventFlag
<1>1. Init => Flag!Init
  BY DEF Init, Flag!Init, Taken
<1>2. IInv /\ [Next]_vars => [Flag!Next]_<<wait_flag = 1, raised, Taken>>
  <2> SUFFICES ASSUME IInv, [Next]_vars
               PROVE  [Flag!Next]_<<wait_flag = 1, raised, Taken>>
    OBVIOUS
  <2> USE DEF Taken, moduleVars, timerVars, threadVars
  <2>1. CASE RaiseFlag
    BY <2>1 DEF RaiseFlag, Flag!Next, Flag!Publish
  <2>2. CASE LowerFlag
    <3>1. event_count \in Int /\ wait_flag = 1
      BY <2>2 DEF LowerFlag, Goto, IInv, TypeOK, FlagStaysUp
    <3>2. QED
      BY <2>2, <3>1 DEF LowerFlag, Goto, Flag!Next, Flag!Serve
  <2>3. CASE CountEvent
    <3>1. event_count \in Int
      BY DEF IInv, TypeOK
    <3>2. QED
      BY <2>3, <3>1 DEF CountEvent, Goto
  <2>4. CASE ModuleStep \/ CallExit
    BY <2>4 DEF ModuleStep, CallExit, CreateThread, ArmTimer, DeleteTimer, StopThread,
                JoinThread, IInv, ThreadLives
  <2>5. CASE Expire \/ WakeThread \/ Rearm
    BY <2>5 DEF Expire, WakeThread, Rearm
  <2>6. CASE \/ Enter \/ WaitCheck \/ PrepareToWait \/ WaitRecheck
             \/ WakeFromSchedule \/ FinishWait \/ TestStop \/ TestFlag
    BY <2>6 DEF Enter, WaitCheck, PrepareToWait, WaitRecheck, WakeFromSchedule,
                FinishWait, TestStop, TestFlag, Goto, LeavesAlone
  <2>7. CASE UNCHANGED vars
    BY <2>7 DEF vars
  <2>8. QED
    BY <2>1, <2>2, <2>3, <2>4, <2>5, <2>6, <2>7 DEF Next, TimerStep, ThreadStep
<1>3. QED
  BY <1>1, <1>2, IInvInductive, PTL DEF Spec, IsEventFlag, Flag!Spec

=============================================================================
