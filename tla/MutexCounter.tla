---------------------------- MODULE MutexCounter ----------------------------
(***************************************************************************)
(* C_THREAD_AND_SYNCH/02_MUTEX/mutex.c: the threads of KthreadPair (its    *)
(* init and exit functions are those of kthread.c, call for call), whose   *)
(* loop body increments shared_counter under my_mutex.  shared_counter++   *)
(* is a load and a store.  The int wraps; Wrap stands for 2^32.            *)
(***************************************************************************)
EXTENDS KthreadPair, Integers

CONSTANT Wrap   \* number of values of an int

ASSUME WrapAssumption == Wrap \in Nat \ {0}

VARIABLES
  at,              \* the next statement of a thread that is in its body
  owner,           \* my_mutex: the thread that holds it, 0 when free
  shared_counter,
  reg,             \* the value a thread loaded for its increment
  final,           \* what the exit function printed, -1 before
  increments       \* history: stores to shared_counter so far, modulo Wrap

mutexVars == <<at, owner, shared_counter, reg, final, increments>>
allVars == <<vars, mutexVars>>

Ints == 0 .. Wrap - 1
Statements == {"lock", "load", "store", "unlock", "sleep"}

CounterTypeOK ==
  /\ TypeOK
  /\ at \in [Threads -> Statements]
  /\ owner \in 0 .. N
  /\ shared_counter \in Ints
  /\ reg \in [Threads -> Ints]
  /\ final \in Ints \cup {-1}
  /\ increments \in Ints

(* mutex_init runs before the first kthread_run.                           *)
CounterInit ==
  /\ Init
  /\ at = [t \in Threads |-> "lock"]
  /\ owner = 0
  /\ shared_counter = 0
  /\ reg = [t \in Threads |-> 0]
  /\ final = -1
  /\ increments = 0

At(t, statement) == thread[t] = "body" /\ at[t] = statement

Advance(t, from, to) ==
  /\ At(t, from)
  /\ at' = [at EXCEPT ![t] = to]

-----------------------------------------------------------------------------
(* The module: mutex_dynamic_init and mutex_dynamic_exit *)

Setup == (RunThread \/ RunThreadFails) /\ UNCHANGED mutexVars

Exit == CallExit /\ UNCHANGED mutexVars

Stop == StopNext /\ UNCHANGED mutexVars

(* The exit function prints the counter once both threads have stopped.    *)
Unload ==
  /\ ModuleGone
  /\ final' = IF phase = "exit" THEN shared_counter ELSE final
  /\ UNCHANGED <<at, owner, shared_counter, reg, increments>>

-----------------------------------------------------------------------------
(* thread1_function, thread2_function *)

Loop(t) == (Start(t) \/ LoopTest(t)) /\ UNCHANGED mutexVars

(* Mutant: mutex_lock does not wait for the owner.                         *)
LockAlways(t) ==
  /\ Advance(t, "lock", "load")
  /\ owner' = t
  /\ UNCHANGED <<vars, shared_counter, reg, final, increments>>

Lock(t) ==
  /\ owner = 0
  /\ Advance(t, "lock", "load")
  /\ owner' = t
  /\ UNCHANGED <<vars, shared_counter, reg, final, increments>>

Load(t) ==
  /\ Advance(t, "load", "store")
  /\ reg' = [reg EXCEPT ![t] = shared_counter]
  /\ UNCHANGED <<vars, owner, shared_counter, final, increments>>

(* Mutant: the sum is stored as if the integer had one more value.         *)
StoreUnwrapped(t) ==
  /\ Advance(t, "store", "unlock")
  /\ shared_counter' = (reg[t] + 1) % (Wrap + 1)
  /\ increments' = (increments + 1) % Wrap
  /\ UNCHANGED <<vars, owner, reg, final>>

Store(t) ==
  /\ Advance(t, "store", "unlock")
  /\ shared_counter' = (reg[t] + 1) % Wrap
  /\ increments' = (increments + 1) % Wrap
  /\ UNCHANGED <<vars, owner, reg, final>>

(* Mutant: the mutex is not released.                                      *)
UnlockForgotten(t) ==
  /\ Advance(t, "unlock", "sleep")
  /\ UNCHANGED <<vars, owner, shared_counter, reg, final, increments>>

(* The value is printed and the mutex released.                            *)
Unlock(t) ==
  /\ Advance(t, "unlock", "sleep")
  /\ owner' = 0
  /\ UNCHANGED <<vars, shared_counter, reg, final, increments>>

(* ssleep ends and the loop goes round.                                    *)
Sleep(t) ==
  /\ Advance(t, "sleep", "lock")
  /\ Body(t)
  /\ UNCHANGED <<owner, shared_counter, reg, final, increments>>

CounterStep(t) ==
  \/ Loop(t) \/ Lock(t) \/ Load(t) \/ Store(t) \/ Unlock(t) \/ Sleep(t)

CounterModuleStep == Setup \/ Stop \/ Unload

CounterNext == Exit \/ CounterModuleStep \/ \E t \in Threads : CounterStep(t)

CounterSpec == CounterInit /\ [][CounterNext]_allVars

(* A mutex hands itself over to a waiter that was passed over for long, so *)
(* a thread that finds it free again and again gets it: strong fairness of *)
(* Lock.  Everything else is a runnable task.                              *)
CounterFairness ==
  /\ WF_allVars(CounterModuleStep)
  /\ \A t \in Threads : WF_allVars(CounterStep(t)) /\ SF_allVars(Lock(t))

FairCounterSpec == CounterSpec /\ CounterFairness

-----------------------------------------------------------------------------
InCritical(t) == \E s \in {"load", "store", "unlock"} : At(t, s)

(* The critical sections of two threads never overlap.                     *)
MutualExclusion ==
  \A s, t \in Threads : InCritical(s) /\ InCritical(t) => s = t

(* No increment is lost: the counter is the number of stores made.         *)
NoLostUpdate == shared_counter = increments

(* The value a thread prints is the one its own increment produced, not    *)
(* the result of another thread's.                                         *)
PrintsOwnIncrement ==
  \A t \in Threads : At(t, "unlock") => shared_counter = (reg[t] + 1) % Wrap

(* The load and the store of shared_counter++ and the load for printing    *)
(* act as one, through a wrap-around and a failing init too: no increment  *)
(* is lost, and none comes between another's store and its printing.       *)
CountIsExact == NoLostUpdate /\ PrintsOwnIncrement

(* The module's counter is an AtomicCounter that rmmod closes: the "Final  *)
(* counter value" counts every increment, and none comes after it.         *)
Counter == INSTANCE AtomicCounter WITH value <- shared_counter,
                                       closed <- phase = "gone"
IsAtomicCounter == Counter!Spec

(* No thread starves at the mutex, or waits for one that never gives it    *)
(* back: who calls mutex_lock gets to its increment, however often the     *)
(* others take the mutex before it, and while rmmod stops them too.        *)
EveryThreadCounts == \A t \in Threads : At(t, "lock") ~> At(t, "store")

=============================================================================
