---------------------------- MODULE SpinPrograms ----------------------------
(***************************************************************************)
(* C_THREAD_AND_SYNCH/03_SPIN_LOCK/spin.c: two functions increment value   *)
(* under one spin lock.  The file holds four programs, of which the second *)
(* is compiled and the others are kept in comments; they differ in the     *)
(* contexts their functions run in, and in the variant of the lock.        *)
(*                                                                         *)
(* A CPU runs a stack of contexts: an interrupt comes on top of a tasklet, *)
(* a tasklet on top of a thread, unless the lock's variant has masked it   *)
(* on that CPU.  What lies under the top does not move.                    *)
(***************************************************************************)
EXTENDS Naturals, Sequences

CONSTANTS
  CPUs,
  Wrap,        \* number of values of an int
  MaxPresses   \* bound: number of button interrupts in a behaviour

ASSUME WrapAssumption == Wrap \in Nat \ {0}
ASSUME MaxPressesAssumption == MaxPresses \in Nat

Functions == 1 .. 2

\* kind: the context of each function, in the order init sets them up;
\* scheduled: the tasklets init schedules; fails: the functions without which
\* init returns an error; masks: what the lock keeps from interrupting its
\* holder; exit: the order in which exit ends them.

(* Program 1: request_irq and tasklet_init; spin_lock_irqsave. *)
IrqAndTasklet ==
  [kind |-> <<"irq", "tasklet">>, scheduled |-> {}, fails |-> {1, 2},
   masks |-> {"irq", "tasklet"}, exit |-> <<2, 1>>]

(* Program 2: two kthread_run; spin_lock. *)
TwoThreads ==
  [kind |-> <<"thread", "thread">>, scheduled |-> {}, fails |-> {},
   masks |-> {}, exit |-> <<1, 2>>]

(* Program 3: two tasklet_schedule; spin_lock. *)
TwoTasklets ==
  [kind |-> <<"tasklet", "tasklet">>, scheduled |-> {1, 2}, fails |-> {},
   masks |-> {}, exit |-> <<1, 2>>]

(* Mutant: spin_lock where the program has spin_lock_bh.                   *)
ThreadAndTaskletPlainLock ==
  [kind |-> <<"tasklet", "thread">>, scheduled |-> {1}, fails |-> {1},
   masks |-> {}, exit |-> <<1, 2>>]

(* Program 4: tasklet_schedule and kthread_run; spin_lock_bh. *)
ThreadAndTasklet ==
  [kind |-> <<"tasklet", "thread">>, scheduled |-> {1}, fails |-> {1},
   masks |-> {"tasklet"}, exit |-> <<1, 2>>]

Programs == {IrqAndTasklet, TwoThreads, TwoTasklets, ThreadAndTasklet}

VARIABLES
  program,      \* the program this behaviour is about
  phase,        \* where the module is between insmod and rmmod
  step,         \* the next function init sets up or exit ends
  alive,        \* threads that exist, handlers requested, tasklets initialised
  should_stop,  \* threads with KTHREAD_SHOULD_STOP set
  queued,       \* the CPUs whose tasklet list holds each tasklet, at most one
  stack,        \* the functions running on each CPU, the interrupted ones first
  at,           \* where each function is
  spinlock,     \* its holder, and behind it those that spin, first come first
  value,
  reg,          \* the value a function loaded for its increment
  increments,   \* history: stores to value so far, modulo Wrap
  presses       \* history: number of interrupts so far

moduleVars == <<program, phase, step, alive, should_stop>>
countVars == <<value, reg, increments>>
vars == <<moduleVars, queued, stack, at, spinlock, countVars, presses>>

Contending == {"spin", "load", "store", "unlock"}

TypeOK ==
  /\ program \in Programs
  /\ phase \in {"init", "live", "exit", "gone", "failed", "oops"}
  /\ step \in Functions
  /\ alive \subseteq Functions
  /\ should_stop \subseteq Functions
  /\ queued \in [Functions -> SUBSET CPUs]
  /\ stack \in [CPUs -> Seq(Functions)]
  /\ at \in [Functions -> {"off", "enter", "leave"} \cup Contending]
  /\ spinlock \in Seq(Functions)
  /\ value \in 0 .. Wrap - 1
  /\ reg \in [Functions -> 0 .. Wrap - 1]
  /\ increments \in 0 .. Wrap - 1
  /\ presses \in 0 .. MaxPresses

Init ==
  /\ program \in Programs
  /\ phase = "init"
  /\ step = 1
  /\ alive = {}
  /\ should_stop = {}
  /\ queued = [f \in Functions |-> {}]
  /\ stack = [c \in CPUs |-> <<>>]
  /\ at = [f \in Functions |-> "off"]
  /\ spinlock = <<>>
  /\ value = 0
  /\ reg = [f \in Functions |-> 0]
  /\ increments = 0
  /\ presses = 0

-----------------------------------------------------------------------------
(* The contexts *)

Kind(f) == program.kind[f]

Rank == [thread |-> 0, tasklet |-> 1, irq |-> 2]

Top(c) == stack[c][Len(stack[c])]

(* The lock masks from before it spins until after it is released.         *)
Masked(c) ==
  IF \E i \in 1 .. Len(stack[c]) : at[stack[c][i]] \in Contending
    THEN program.masks ELSE {}

CanEnter(f, c) ==
  /\ at[f] = "off"
  /\ Kind(f) \notin Masked(c)
  /\ stack[c] # <<>> => Rank[Kind(Top(c))] < Rank[Kind(f)]

Enter(f, c) ==
  /\ CanEnter(f, c)
  /\ stack' = [stack EXCEPT ![c] = Append(@, f)]
  /\ at' = [at EXCEPT ![f] = "enter"]
  /\ UNCHANGED <<moduleVars, spinlock, countVars>>

(* while(!kthread_should_stop()), after kthread_run or msleep.             *)
EnterThread(f) ==
  /\ Kind(f) = "thread" /\ f \in alive \ should_stop
  /\ \E c \in CPUs : Enter(f, c)
  /\ UNCHANGED <<queued, presses>>

(* Mutant: the loop does not look at should_stop.                          *)
ThreadNeverExits(f) ==
  /\ Kind(f) = "thread" /\ f \in alive \cap should_stop
  /\ at[f] = "off"
  /\ UNCHANGED vars

ThreadExits(f) ==
  /\ Kind(f) = "thread" /\ f \in alive \cap should_stop
  /\ at[f] = "off"
  /\ alive' = alive \ {f}
  /\ UNCHANGED <<program, phase, step, should_stop, queued, stack, at, spinlock,
                 countVars, presses>>

EnterTasklet(f) ==
  /\ Kind(f) = "tasklet"
  /\ \E c \in queued[f] : Enter(f, c)
  /\ queued' = [queued EXCEPT ![f] = {}]
  /\ UNCHANGED presses

Press(f) ==
  /\ Kind(f) = "irq" /\ f \in alive
  /\ presses < MaxPresses
  /\ \E c \in CPUs : Enter(f, c)
  /\ presses' = presses + 1
  /\ UNCHANGED queued

(* The function on top of a CPU's stack goes from one place to the next.   *)
Runs(f, from, to) ==
  /\ \E c \in CPUs : stack[c] # <<>> /\ Top(c) = f
  /\ at[f] = from
  /\ at' = [at EXCEPT ![f] = to]

-----------------------------------------------------------------------------
(* The bodies: spin_lock, value++, spin_unlock *)

(* The lock's variant masks, then the function queues for the lock.        *)
Spin(f) ==
  /\ Runs(f, "enter", "spin")
  /\ spinlock' = Append(spinlock, f)
  /\ UNCHANGED <<moduleVars, queued, stack, countVars, presses>>

(* Mutant: the lock is taken whoever holds it.                             *)
AcquireAlways(f) ==
  /\ Runs(f, "spin", "load")
  /\ UNCHANGED <<moduleVars, queued, stack, spinlock, countVars, presses>>

Acquire(f) ==
  /\ Runs(f, "spin", "load")
  /\ Head(spinlock) = f
  /\ UNCHANGED <<moduleVars, queued, stack, spinlock, countVars, presses>>

Load(f) ==
  /\ Runs(f, "load", "store")
  /\ reg' = [reg EXCEPT ![f] = value]
  /\ UNCHANGED <<moduleVars, queued, stack, spinlock, value, increments, presses>>

(* Mutant: the sum is stored as if the integer had one more value.         *)
StoreUnwrapped(f) ==
  /\ Runs(f, "store", "unlock")
  /\ value' = (reg[f] + 1) % (Wrap + 1)
  /\ increments' = (increments + 1) % Wrap
  /\ UNCHANGED <<moduleVars, queued, stack, spinlock, reg, presses>>

Store(f) ==
  /\ Runs(f, "store", "unlock")
  /\ value' = (reg[f] + 1) % Wrap
  /\ increments' = (increments + 1) % Wrap
  /\ UNCHANGED <<moduleVars, queued, stack, spinlock, reg, presses>>

Unlock(f) ==
  /\ Runs(f, "unlock", "leave")
  /\ spinlock' = Tail(spinlock)
  /\ UNCHANGED <<moduleVars, queued, stack, countVars, presses>>

(* Return, or msleep; my_irq_handler schedules the tasklet on its CPU,     *)
(* unless it is scheduled.                                                 *)
Leave(f) ==
  /\ Runs(f, "leave", "off")
  /\ \E c \in CPUs :
       /\ stack[c] # <<>> /\ Top(c) = f
       /\ stack' = [stack EXCEPT ![c] = SubSeq(@, 1, Len(@) - 1)]
       /\ queued' = IF Kind(f) = "irq" /\ queued[2] = {}
                      THEN [queued EXCEPT ![2] = {c}] ELSE queued
  /\ UNCHANGED <<moduleVars, spinlock, countVars, presses>>

-----------------------------------------------------------------------------
(* init *)

GoOn(last) ==
  /\ phase' = IF step = 2 THEN last ELSE phase
  /\ step' = IF step = 2 THEN 1 ELSE step + 1

(* kthread_run gives an error pointer, which is not NULL: nobody notices.  *)
SetUp ==
  /\ phase = "init"
  /\ \/ alive' = alive \cup {step}
     \/ Kind(step) = "thread" /\ alive' = alive
  /\ IF step \in program.scheduled
       THEN \E c \in CPUs : queued' = [queued EXCEPT ![step] = {c}]
       ELSE UNCHANGED queued
  /\ GoOn("live")
  /\ UNCHANGED <<program, should_stop, stack, at, spinlock, countVars, presses>>

(* request_irq or kmalloc fails, and what was set up before stays.         *)
SetUpFails ==
  /\ phase = "init"
  /\ step \in program.fails
  /\ phase' = "failed"
  /\ UNCHANGED <<program, step, alive, should_stop, queued, stack, at, spinlock,
                 countVars, presses>>

-----------------------------------------------------------------------------
(* exit *)

CallExit ==
  /\ phase = "live"
  /\ phase' = "exit"
  /\ UNCHANGED <<program, step, alive, should_stop, queued, stack, at, spinlock,
                 countVars, presses>>

Ending == program.exit[step]

(* kthread_stop of an error pointer is the end of rmmod.                   *)
StopThread ==
  /\ phase = "exit"
  /\ Kind(Ending) = "thread" /\ Ending \notin should_stop
  /\ \/ /\ Ending \in alive
        /\ should_stop' = should_stop \cup {Ending}
        /\ UNCHANGED phase
     \/ /\ Ending \notin alive
        /\ phase' = "oops"
        /\ UNCHANGED should_stop
  /\ UNCHANGED <<program, step, alive, queued, stack, at, spinlock, countVars, presses>>

ThreadStopped ==
  /\ phase = "exit"
  /\ Ending \in should_stop \ alive
  /\ GoOn("gone")
  /\ UNCHANGED <<program, alive, should_stop, queued, stack, at, spinlock, countVars,
                 presses>>

(* Mutant: tasklet_kill does not wait.                                     *)
KillNoWait ==
  /\ phase = "exit"
  /\ Kind(Ending) \in {"tasklet", "irq"}
  /\ alive' = alive \ {Ending}
  /\ GoOn("gone")
  /\ UNCHANGED <<program, should_stop, queued, stack, at, spinlock, countVars, presses>>

(* tasklet_kill and free_irq wait until the function is not running, and   *)
(* the tasklet not queued.                                                 *)
Kill ==
  /\ phase = "exit"
  /\ Kind(Ending) \in {"tasklet", "irq"}
  /\ at[Ending] = "off" /\ queued[Ending] = {}
  /\ alive' = alive \ {Ending}
  /\ GoOn("gone")
  /\ UNCHANGED <<program, should_stop, queued, stack, at, spinlock, countVars, presses>>

-----------------------------------------------------------------------------
Body(f) ==
  \/ Spin(f) \/ Acquire(f) \/ Load(f) \/ Store(f) \/ Unlock(f) \/ Leave(f)

ModuleStep == SetUp \/ StopThread \/ ThreadStopped \/ Kill

Next ==
  \/ SetUpFails \/ CallExit \/ ModuleStep
  \/ \E f \in Functions : \/ EnterThread(f) \/ ThreadExits(f) \/ EnterTasklet(f)
                          \/ Press(f) \/ Body(f)

Spec == Init /\ [][Next]_vars

(* What runs goes on running; what is interrupted waits for what came on   *)
(* top of it.  A tasklet kept out by spin_lock_bh runs when the lock is    *)
(* released with tasklets enabled again, so being let in again and again   *)
(* is enough: strong fairness.                                             *)
Fairness ==
  /\ WF_vars(ModuleStep)
  /\ \A f \in Functions :
       WF_vars(Body(f)) /\ WF_vars(ThreadExits(f)) /\ SF_vars(EnterTasklet(f))

FairSpec == Spec /\ Fairness

-----------------------------------------------------------------------------
(* Nobody spins for a lock that is held or awaited by a context it has     *)
(* interrupted, which could never release it: each program has the variant *)
(* of the lock that its contexts need.                                     *)
NoSelfDeadlock ==
  \A c \in CPUs : \A i, j \in 1 .. Len(stack[c]) :
    i < j /\ at[stack[c][j]] = "spin" => at[stack[c][i]] \notin Contending

(* No increment is lost, whichever contexts make it: value is the number   *)
(* of stores.                                                              *)
NoLostUpdate == value = increments

(* After rmmod, or an init that failed, no function runs or is due to run. *)
(* Only the first program leaves something: its tasklet, which the         *)
(* interrupt schedules again between tasklet_kill and free_irq, and its    *)
(* handler, when there is no memory for the tasklet.                       *)
MayRemain(f) ==
  /\ program = IrqAndTasklet
  /\ Kind(f) = "tasklet" \/ (phase = "failed" /\ step = 2)

QuiescentWhenGone ==
  phase \in {"gone", "failed"} =>
    \A f \in Functions :
      MayRemain(f) \/ (f \notin alive /\ at[f] = "off" /\ queued[f] = {})

(* rmmod ends, be it in a crash: no kthread_stop, tasklet_kill or free_irq *)
(* waits for ever, wherever the functions are.                             *)
ExitEnds == phase = "exit" ~> phase \in {"gone", "oops"}

=============================================================================
