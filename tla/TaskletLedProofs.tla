-------------------------- MODULE TaskletLedProofs --------------------------
(***************************************************************************)
(* The interrupt and the tasklet of B_INTERRUPTS/3_TASKLET: types, what    *)
(* the LED shows, when a press does harm and what a handler outlives, for  *)
(* every number of presses.                                                *)
(***************************************************************************)
EXTENDS TaskletLed, TLAPS

USE MaxPressesAssumption

(* The parts of the inductive invariant, beside the types.                 *)

(* What the pointer tasklet designates, at each statement of init and exit.*)
PointerFollowsPhase ==
  /\ phase \in {"gpio", "request", "alloc", "undo", "failed"} => tasklet = "null"
  /\ phase = "setup" => tasklet = "raw"
  /\ phase \in {"live", "kill"} => tasklet = "ready"
  /\ phase = "free" => tasklet = "killed"
  /\ phase \in {"release", "gone"} => tasklet = "freed"

(* The handler runs only while it is registered, which it is from          *)
(* request_irq to free_irq.                                                *)
HandlerNeedsIrq ==
  /\ handler # "idle" => irq
  /\ irq => phase \notin {"gpio", "request", "failed", "gone"}

(* Before init asks for the interrupt nothing has moved.                   *)
QuietAtFirst ==
  phase = "gpio" => ~sched /\ softirq = "idle" /\ led_status = 0 /\ presses = 0

(* Whenever no further run of the tasklet is due, the value it shows, or   *)
(* has read to show, is that of led_status.                                *)
LedFollows ==
  handler = "idle" /\ ~sched /\ ~broken /\ phase # "gpio" =>
    /\ softirq = "idle" => (PinFollows => LED = led_status)
    /\ softirq = "drive" => seen = led_status

(* The handler of a press that came once init was through runs before exit *)
(* is, and what it has loaded is no null pointer.                          *)
LatePressFindsTasklet ==
  handler # "idle" /\ pressed \notin {"alloc", "setup", "undo"} =>
    /\ phase \in {"live", "kill", "free", "release"}
    /\ handler = "schedule" => loaded = "object"

IInv ==
  /\ TypeOK /\ PointerFollowsPhase /\ HandlerNeedsIrq /\ QuietAtFirst
  /\ LedFollows /\ LatePressFindsTasklet

(* The invariant holds at insmod.                                          *)
LEMMA IInvInit == Init => IInv
<1> SUFFICES ASSUME Init
             PROVE  IInv
  OBVIOUS
<1>1. irq \in BOOLEAN /\ sched \in BOOLEAN /\ broken \in BOOLEAN
  BY DEF Init
<1>2. /\ phase \in Phases /\ tasklet \in Tasklets
      /\ handler \in Handlers /\ loaded \in {"null", "object"}
      /\ softirq \in {"idle", "read", "drive"} /\ pin \in Pins /\ pressed \in Phases
  BY DEF Init, Phases, Tasklets, Handlers, Pins
<1>3. led_status \in {0, 1} /\ seen \in {0, 1} /\ LED \in {0, 1} /\ presses \in 0 .. MaxPresses
  BY DEF Init
<1>4. /\ PointerFollowsPhase /\ HandlerNeedsIrq /\ QuietAtFirst /\ LedFollows
      /\ LatePressFindsTasklet
  BY DEF Init, PointerFollowsPhase, HandlerNeedsIrq, QuietAtFirst, LedFollows,
         LatePressFindsTasklet
<1>5. QED
  BY <1>1, <1>2, <1>3, <1>4 DEF IInv, TypeOK

(* The steps of init and exit keep it.                                     *)
LEMMA ModuleKeepsIInv ==
  ASSUME IInv, ModuleStep
  PROVE  IInv'
<1> USE DEF IInv, TypeOK, Phases, Tasklets, Handlers, Pins, PointerFollowsPhase,
            HandlerNeedsIrq, QuietAtFirst, LedFollows, LatePressFindsTasklet, PinFollows,
            Goto, taskletVars, handlerVars
<1>1. CASE SetupGpio
  BY <1>1 DEF SetupGpio
<1>2. CASE RequestIrq
  <2>1. CASE Goto("request", "alloc") /\ irq' = TRUE
    <3>1. irq' \in BOOLEAN /\ irq'
      BY <2>1
    <3>2. QED
      BY <1>2, <2>1, <3>1 DEF RequestIrq
  <2>2. CASE Goto("request", "failed") /\ UNCHANGED irq
    BY <1>2, <2>2 DEF RequestIrq
  <2>3. QED
    BY <1>2, <2>1, <2>2 DEF RequestIrq
<1>3. CASE AllocTasklet
  BY <1>3 DEF AllocTasklet
<1>4. CASE InitTasklet
  BY <1>4 DEF InitTasklet
<1>5. CASE Undo
  <2>1. irq' \in BOOLEAN /\ ~irq' /\ handler = "idle"
    BY <1>5 DEF Undo
  <2>2. QED
    BY <1>5, <2>1 DEF Undo
<1>6. CASE CallExit
  BY <1>6 DEF CallExit
<1>7. CASE KillTasklet
  BY <1>7 DEF KillTasklet
<1>8. CASE FreeTasklet
  BY <1>8 DEF FreeTasklet
<1>9. CASE FreeIrq
  <2>1. irq' \in BOOLEAN /\ ~irq' /\ handler = "idle"
    BY <1>9 DEF FreeIrq
  <2>2. QED
    BY <1>9, <2>1 DEF FreeIrq
<1>10. QED
  BY <1>1, <1>2, <1>3, <1>4, <1>5, <1>6, <1>7, <1>8, <1>9 DEF ModuleStep

(* The handler and the tasklet keep it.                                    *)
LEMMA InterruptKeepsIInv ==
  ASSUME IInv, Press \/ HandlerStep \/ TaskletStep
  PROVE  IInv'
<1> USE DEF IInv, TypeOK, Phases, Tasklets, Handlers, Pins, PointerFollowsPhase,
            HandlerNeedsIrq, QuietAtFirst, LedFollows, LatePressFindsTasklet, PinFollows,
            taskletVars, handlerVars
<1>1. CASE Press
  BY <1>1 DEF Press
<1>2. CASE Toggle
  BY <1>2 DEF Toggle
<1>3. CASE LoadTasklet
  BY <1>3 DEF LoadTasklet
<1>4. CASE Schedule
  <2>1. broken' \in BOOLEAN
    BY <1>4 DEF Schedule, ScheduleGarbage
  <2>2. sched' \in BOOLEAN
    <3>1. CASE sched' = TRUE
      BY <3>1
    <3>2. CASE UNCHANGED sched
      BY <3>2
    <3>3. QED
      BY <1>4, <3>1, <3>2 DEF Schedule, ScheduleGarbage
  <2>3. sched' \/ broken'
    BY <1>4 DEF Schedule, ScheduleGarbage
  <2>4. /\ handler' = "idle" /\ handler # "idle"
        /\ UNCHANGED <<phase, irq, tasklet, softirq, seen, pin, LED, loaded, led_status,
                       presses, pressed>>
    BY <1>4 DEF Schedule
  <2>5. phase # "gpio"
    BY <2>4
  <2>6. TypeOK'
    BY <2>1, <2>2, <2>4
  <2>7. QED
    BY <2>3, <2>4, <2>5, <2>6
<1>5. CASE RunTasklet
  <2>1. broken' \in BOOLEAN /\ (broken => broken')
    BY <1>5 DEF RunTasklet
  <2>2. ~sched' /\ sched' \in BOOLEAN /\ softirq' = "read" /\ sched
    BY <1>5 DEF RunTasklet
  <2>3. UNCHANGED <<phase, irq, tasklet, seen, pin, LED, handler, loaded, led_status,
                    presses, pressed>>
    BY <1>5 DEF RunTasklet
  <2>4. QED
    BY <2>1, <2>2, <2>3
<1>6. CASE ReadStatus
  BY <1>6 DEF ReadStatus
<1>7. CASE DriveLed
  BY <1>7 DEF DriveLed
<1>8. QED
  BY <1>1, <1>2, <1>3, <1>4, <1>5, <1>6, <1>7 DEF HandlerStep, TaskletStep

(* The invariant is inductive.                                             *)
LEMMA IInvInductive == Spec => []IInv
<1>1. IInv /\ [Next]_vars => IInv'
  <2> SUFFICES ASSUME IInv, [Next]_vars
               PROVE  IInv'
    OBVIOUS
  <2>1. CASE UNCHANGED vars
    BY <2>1 DEF IInv, TypeOK, PointerFollowsPhase, HandlerNeedsIrq, QuietAtFirst,
                LedFollows, LatePressFindsTasklet, PinFollows, vars, taskletVars, handlerVars
  <2>2. QED
    BY <2>1, ModuleKeepsIInv, InterruptKeepsIInv DEF Next
<1>2. QED
  BY <1>1, IInvInit, PTL DEF Spec

-----------------------------------------------------------------------------
(* Every variable of TaskletLed keeps its type: led_status is toggled, not *)
(* counted up, and the tasklet is in one of its states.                    *)
THEOREM TaskletTypeCorrect == Spec => []TypeOK
<1>1. IInv => TypeOK
  BY DEF IInv
<1>2. QED
  BY <1>1, IInvInductive, PTL

(* When the button rests, a LED pin that follows the driver shows          *)
(* led_status, whatever presses fell into a run of the tasklet or were     *)
(* merged into one.                                                        *)
THEOREM LedIsNeverStale == Spec => []LedShowsStatus
<1>1. IInv => LedShowsStatus
  BY DEF IInv, LedFollows, LedShowsStatus
<1>2. QED
  BY <1>1, IInvInductive, PTL

(* A failed init and a finished exit leave no handler behind: free_irq     *)
(* waits for the one that runs.                                            *)
THEOREM NoHandlerOutlivesModule == Spec => []NoHandlerAfterModule
<1>1. IInv => NoHandlerAfterModule
  BY DEF IInv, TypeOK, HandlerNeedsIrq, NoHandlerAfterModule
<1>2. QED
  BY <1>1, IInvInductive, PTL

(* A press that comes once init has returned does no harm until exit has   *)
(* freed the tasklet: an action property, from the same invariant.         *)
THEOREM HarmOnlyFromTheEdges == Spec => BreaksOnlyFromTheEdges
<1>1. IInv /\ [Next]_vars
      => [broken' # broken => \/ pressed \in {"alloc", "setup", "undo"}
                              \/ phase \in {"release", "gone"}]_vars
  <2> SUFFICES ASSUME IInv, Next, broken' # broken,
                      pressed \notin {"alloc", "setup", "undo"}
               PROVE  phase \in {"release", "gone"}
    OBVIOUS
  <2> USE DEF IInv, TypeOK, Phases, PointerFollowsPhase, LatePressFindsTasklet
  <2>1. CASE Schedule
    <3>1. loaded = "object" /\ phase \in {"live", "kill", "free", "release"}
      BY <2>1 DEF Schedule
    <3>2. tasklet \in {"raw", "freed"}
      BY <2>1, <3>1 DEF Schedule, ScheduleGarbage
    <3>3. QED
      BY <3>1, <3>2
  <2>2. CASE RunTasklet
    BY <2>2 DEF RunTasklet
  <2>3. CASE Press \/ Toggle \/ LoadTasklet \/ ReadStatus \/ DriveLed
    BY <2>3 DEF Press, Toggle, LoadTasklet, ReadStatus, DriveLed, handlerVars
  <2>4. CASE ModuleStep
    BY <2>4 DEF ModuleStep, SetupGpio, RequestIrq, AllocTasklet, InitTasklet, Undo,
                CallExit, KillTasklet, FreeTasklet, FreeIrq, handlerVars
  <2>5. QED
    BY <2>1, <2>2, <2>3, <2>4 DEF Next, HandlerStep, TaskletStep
<1>2. QED
  BY <1>1, IInvInductive, PTL DEF Spec, BreaksOnlyFromTheEdges

=============================================================================
