----------------------------- MODULE TaskletLed -----------------------------
(***************************************************************************)
(* B_INTERRUPTS/3_TASKLET/tasklet.c: a button interrupt toggles led_status *)
(* and schedules a tasklet that drives the LED.  init requests the         *)
(* interrupt before it allocates the tasklet, exit kills and frees the     *)
(* tasklet before it frees the interrupt, and the button may be pressed at *)
(* any moment between.                                                     *)
(***************************************************************************)
EXTENDS Naturals

CONSTANT MaxPresses   \* bound: number of button interrupts in a behaviour

ASSUME MaxPressesAssumption == MaxPresses \in Nat

VARIABLES
  phase,       \* the next statement of init or exit, or what became of it
  irq,         \* the handler is registered for IRQ_NO
  handler,     \* where BTN_HNDLER_FN is
  tasklet,     \* what the pointer tasklet designates
  sched,       \* TASKLET_STATE_SCHED: the tasklet is queued
  softirq,     \* where my_tasklet_fn is
  led_status,
  seen,        \* the led_status my_tasklet_fn read
  pin,         \* what gpio_direction_output made of LED_PIN
  LED,         \* the level of LED_PIN
  loaded,      \* what BTN_HNDLER_FN found in the pointer tasklet
  broken,      \* what is no tasklet was scheduled or run
  presses,     \* history: number of interrupts so far
  pressed      \* history: the phase of the last interrupt

taskletVars == <<sched, softirq, seen, pin, LED>>
handlerVars == <<handler, loaded, led_status, broken, presses, pressed>>
vars == <<phase, irq, tasklet, taskletVars, handlerVars>>

Phases == {"gpio", "request", "alloc", "setup", "live", "kill", "free", "release",
           "undo", "failed", "gone"}
Handlers == {"idle", "toggle", "load", "schedule"}
Tasklets == {"null", "raw", "ready", "killed", "freed"}
\* "low": an output, driven low; "output", "input": the call failed, and
\* the pin is what it was.
Pins == {"unset", "low", "output", "input"}

TypeOK ==
  /\ phase \in Phases
  /\ irq \in BOOLEAN
  /\ handler \in Handlers /\ loaded \in {"null", "object"}
  /\ tasklet \in Tasklets
  /\ sched \in BOOLEAN
  /\ softirq \in {"idle", "read", "drive"}
  /\ led_status \in {0, 1} /\ seen \in {0, 1} /\ LED \in {0, 1}
  /\ pin \in Pins
  /\ broken \in BOOLEAN
  /\ presses \in 0 .. MaxPresses /\ pressed \in Phases

Init ==
  /\ phase = "gpio"
  /\ irq = FALSE
  /\ handler = "idle" /\ loaded = "null"
  /\ tasklet = "null"
  /\ sched = FALSE
  /\ softirq = "idle"
  /\ led_status = 0 /\ seen = 0
  /\ pin = "unset" /\ LED \in {0, 1}
  /\ broken = FALSE
  /\ presses = 0 /\ pressed = "gpio"

Goto(from, to) == phase = from /\ phase' = to

-----------------------------------------------------------------------------
(* etx_driver_init *)

(* Nobody looks at what the calls for the pins return: LED_PIN is driven   *)
(* low, or stays as it was.  gpio_to_irq fails: "goto irq", which frees an *)
(* interrupt that was not requested.                                       *)
SetupGpio ==
  /\ \E to \in {"request", "undo"} : Goto("gpio", to)
  /\ \/ pin' = "low" /\ LED' = 0
     \/ pin' \in {"output", "input"} /\ UNCHANGED LED
  /\ UNCHANGED <<irq, tasklet, sched, softirq, seen, handlerVars>>

RequestIrq ==
  /\ \/ Goto("request", "alloc") /\ irq' = TRUE
     \/ Goto("request", "failed") /\ UNCHANGED irq
  /\ UNCHANGED <<tasklet, taskletVars, handlerVars>>

(* Mutant: a failing kmalloc returns at once, the interrupt not freed.     *)
AllocTaskletNoUndo ==
  /\ \/ Goto("alloc", "setup") /\ tasklet' = "raw"
     \/ Goto("alloc", "failed") /\ UNCHANGED tasklet
  /\ UNCHANGED <<irq, taskletVars, handlerVars>>

(* kmalloc; NULL: "goto irq".                                              *)
AllocTasklet ==
  /\ \/ Goto("alloc", "setup") /\ tasklet' = "raw"
     \/ Goto("alloc", "undo") /\ UNCHANGED tasklet
  /\ UNCHANGED <<irq, taskletVars, handlerVars>>

(* Mutant: tasklet_init is left out.                                       *)
InitTaskletForgotten ==
  /\ Goto("setup", "live")
  /\ UNCHANGED <<irq, tasklet, taskletVars, handlerVars>>

InitTasklet ==
  /\ Goto("setup", "live")
  /\ tasklet' = "ready"
  /\ UNCHANGED <<irq, taskletVars, handlerVars>>

(* free_irq waits for a running handler.                                   *)
Undo ==
  /\ handler = "idle"
  /\ Goto("undo", "failed")
  /\ irq' = FALSE
  /\ UNCHANGED <<tasklet, taskletVars, handlerVars>>

-----------------------------------------------------------------------------
(* etx_driver_exit *)

CallExit ==
  /\ Goto("live", "kill")
  /\ UNCHANGED <<irq, tasklet, taskletVars, handlerVars>>

(* tasklet_kill waits until the tasklet is neither queued nor running.     *)
KillTasklet ==
  /\ ~sched /\ softirq = "idle"
  /\ Goto("kill", "free")
  /\ tasklet' = "killed"
  /\ UNCHANGED <<irq, taskletVars, handlerVars>>

FreeTasklet ==
  /\ Goto("free", "release")
  /\ tasklet' = "freed"
  /\ UNCHANGED <<irq, taskletVars, handlerVars>>

FreeIrq ==
  /\ handler = "idle"
  /\ Goto("release", "gone")
  /\ irq' = FALSE
  /\ UNCHANGED <<tasklet, taskletVars, handlerVars>>

-----------------------------------------------------------------------------
(* BTN_HNDLER_FN; the line is masked while it runs *)

Press ==
  /\ irq
  /\ handler = "idle"
  /\ presses < MaxPresses
  /\ handler' = "toggle"
  /\ presses' = presses + 1
  /\ pressed' = phase
  /\ UNCHANGED <<phase, irq, tasklet, taskletVars, loaded, led_status, broken>>

(* Mutant: led_status counts the presses.                                  *)
CountUp ==
  /\ handler = "toggle"
  /\ handler' = "load"
  /\ led_status' = led_status + 1
  /\ UNCHANGED <<phase, irq, tasklet, taskletVars, loaded, broken, presses, pressed>>

Toggle ==
  /\ handler = "toggle"
  /\ handler' = "load"
  /\ led_status' = 1 - led_status
  /\ UNCHANGED <<phase, irq, tasklet, taskletVars, loaded, broken, presses, pressed>>

(* The argument of tasklet_schedule is loaded before it is used.           *)
LoadTasklet ==
  /\ handler = "load"
  /\ handler' = "schedule"
  /\ loaded' = IF tasklet = "null" THEN "null" ELSE "object"
  /\ UNCHANGED <<phase, irq, tasklet, taskletVars, led_status, broken, presses, pressed>>

(* What tasklet_schedule works on is no tasklet, or no memory of the       *)
(* module.  Anything may happen from here on: what the properties say of   *)
(* the LED, they say of behaviours before that.                            *)
ScheduleGarbage ==
  /\ \/ loaded = "object" /\ tasklet \in {"raw", "freed"} /\ sched' \in BOOLEAN
     \/ loaded = "null" /\ UNCHANGED sched
  /\ broken' = TRUE

(* Mutant: a tasklet that is running is not queued again.                  *)
ScheduleIfIdle ==
  /\ handler = "schedule"
  /\ handler' = "idle"
  /\ \/ /\ loaded = "object" /\ tasklet \in {"ready", "killed"}
        /\ sched' = (sched \/ softirq = "idle")
        /\ UNCHANGED broken
     \/ ScheduleGarbage
  /\ UNCHANGED <<phase, irq, tasklet, softirq, seen, pin, LED, loaded, led_status,
                 presses, pressed>>

(* tasklet_schedule queues the tasklet unless it is queued.                *)
Schedule ==
  /\ handler = "schedule"
  /\ handler' = "idle"
  /\ \/ /\ loaded = "object" /\ tasklet \in {"ready", "killed"}
        /\ sched' = TRUE
        /\ UNCHANGED broken
     \/ ScheduleGarbage
  /\ UNCHANGED <<phase, irq, tasklet, softirq, seen, pin, LED, loaded, led_status,
                 presses, pressed>>

-----------------------------------------------------------------------------
(* The softirq and my_tasklet_fn *)

(* The tasklet is unqueued before its function runs, and it never runs on  *)
(* two CPUs at once.                                                       *)
RunTasklet ==
  /\ sched
  /\ softirq = "idle"
  /\ sched' = FALSE
  /\ softirq' = "read"
  /\ broken' = (broken \/ tasklet = "freed")
  /\ UNCHANGED <<phase, irq, tasklet, seen, pin, LED, handler, loaded, led_status,
                 presses, pressed>>

ReadStatus ==
  /\ softirq = "read"
  /\ softirq' = "drive"
  /\ seen' = led_status
  /\ UNCHANGED <<phase, irq, tasklet, sched, pin, LED, handlerVars>>

(* gpio_set_value(LED_PIN, led_status), without effect on an input.        *)
DriveLed ==
  /\ softirq = "drive"
  /\ softirq' = "idle"
  /\ LED' = IF pin = "input" THEN LED ELSE seen
  /\ UNCHANGED <<phase, irq, tasklet, sched, seen, pin, handlerVars>>

-----------------------------------------------------------------------------
HandlerStep == Toggle \/ LoadTasklet \/ Schedule

TaskletStep == RunTasklet \/ ReadStatus \/ DriveLed

ModuleStep ==
  \/ SetupGpio \/ RequestIrq \/ AllocTasklet \/ InitTasklet \/ Undo
  \/ CallExit \/ KillTasklet \/ FreeTasklet \/ FreeIrq

Next == Press \/ HandlerStep \/ TaskletStep \/ ModuleStep

Spec == Init /\ [][Next]_vars

-----------------------------------------------------------------------------
(* LED_PIN shows what the driver drove it to: from init on, or, when init  *)
(* failed to drive an output without noticing, from the first press on.    *)
PinFollows == pin = "low" \/ (pin = "output" /\ presses > 0)

(* When the button rests, the LED shows led_status: neither a press while  *)
(* the tasklet runs nor presses merged into one run leave it stale.        *)
LedShowsStatus ==
  phase = "live" /\ handler = "idle" /\ ~sched /\ softirq = "idle" /\ ~broken
    => (PinFollows => LED = led_status)

(* A press that comes once init has returned does no harm until exit has   *)
(* freed the tasklet: no handler uses a pointer that it, or one before it, *)
(* loaded while there was no tasklet.  The presses that do harm are those  *)
(* of the edges: before tasklet_init is done, if only their handler gets   *)
(* round to it later, and before free_irq, once the tasklet is freed.      *)
BreaksOnlyFromTheEdges ==
  [][broken' # broken => \/ pressed \in {"alloc", "setup", "undo"}
                         \/ phase \in {"release", "gone"}]_vars

(* A failed init and a finished exit leave no handler behind.              *)
NoHandlerAfterModule ==
  phase \in {"failed", "gone"} => ~irq /\ handler = "idle"

(* "Kill the Tasklet" (tasklet.c:88): once exit has killed the tasklet it  *)
(* is neither queued nor run any more.                                     *)
KilledStaysDead == tasklet \in {"killed", "freed"} => ~sched /\ softirq = "idle"

=============================================================================
