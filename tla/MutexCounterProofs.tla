-------------------------- MODULE MutexCounterProofs --------------------------
(***************************************************************************)
(* The threads of KthreadPair live and die with their module; MutexCounter *)
(* lives like it, excludes its threads from each other, loses no    *)
(* increment and implements AtomicCounter, for every number of threads and *)
(* every width of the counter.                                             *)
(***************************************************************************)
EXTENDS MutexCounter, TLAPS

USE NAssumption, WrapAssumption DEF Threads

(* Every variable of KthreadPair keeps its type.                           *)
THEOREM TypeCorrect == Spec => []TypeOK
<1>1. Init => TypeOK
  BY DEF Init, TypeOK, Phases, ThreadStates
<1>2. TypeOK /\ [Next]_vars => TypeOK'
  <2> SUFFICES ASSUME TypeOK, [Next]_vars
               PROVE  TypeOK'
    OBVIOUS
  <2> USE DEF TypeOK, Phases, ThreadStates
  <2>1. CASE RunThread
    BY <2>1 DEF RunThread
  <2>2. CASE RunThreadFails
    BY <2>2 DEF RunThreadFails
  <2>3. CASE StopNext
    BY <2>3 DEF StopNext
  <2>4. CASE ModuleGone
    BY <2>4 DEF ModuleGone
  <2>5. CASE CallExit
    BY <2>5 DEF CallExit
  <2>6. ASSUME NEW t \in Threads, ThreadStep(t)
        PROVE  TypeOK'
    BY <2>6 DEF ThreadStep, Start, LoopTest, Body
  <2>7. CASE UNCHANGED vars
    BY <2>7 DEF vars
  <2>8. QED
    BY <2>1, <2>2, <2>3, <2>4, <2>5, <2>6, <2>7 DEF Next, ModuleStep
<1>3. QED
  BY <1>1, <1>2, PTL DEF Spec

-----------------------------------------------------------------------------
(* What NoThreadOutlivesModule rests on: which threads exist, that stops   *)
(* are asked in order, and that all but the latest have been answered.     *)
IInv ==
  /\ TypeOK
  /\ stopping <= created
  /\ should_stop = 1 .. stopping
  /\ \A t \in Threads : thread[t] = "none" <=> t > created
  /\ \A t \in Threads : t < stopping => thread[t] = "exited"
  /\ \A t \in Threads : thread[t] = "exited" => t <= stopping
  /\ phase = "init" => created < N
  /\ phase = "init" => stopping = 0
  /\ phase = "live" => stopping = 0
  /\ phase \in {"failed", "gone"} => \A t \in Threads : ~Alive(t)

(* The invariant of the pair of threads is inductive.                      *)
LEMMA IInvInductive == Spec => []IInv
<1>1. Init => IInv
  BY DEF Init, IInv, TypeOK, Phases, ThreadStates, Alive
<1>2. IInv /\ [Next]_vars => IInv'
  <2> SUFFICES ASSUME IInv, [Next]_vars
               PROVE  IInv'
    OBVIOUS
  <2> USE DEF IInv, TypeOK, Phases, ThreadStates, Alive
  <2>1. CASE RunThread
    BY <2>1 DEF RunThread
  <2>2. CASE RunThreadFails
    BY <2>2 DEF RunThreadFails
  <2>3. CASE StopNext
    BY <2>3 DEF StopNext, LastStopReturned
  <2>4. CASE ModuleGone
    BY <2>4 DEF ModuleGone, AllStopped, LastStopReturned
  <2>5. CASE CallExit
    BY <2>5 DEF CallExit
  <2>6. ASSUME NEW t \in Threads, ThreadStep(t)
        PROVE  IInv'
    BY <2>6 DEF ThreadStep, Start, LoopTest, Body
  <2>7. CASE UNCHANGED vars
    BY <2>7 DEF vars
  <2>8. QED
    BY <2>1, <2>2, <2>3, <2>4, <2>5, <2>6, <2>7 DEF Next, ModuleStep
<1>3. QED
  BY <1>1, <1>2, PTL DEF Spec

(* Once init has failed or exit has returned, no thread can still run the  *)
(* module's code.                                                          *)
THEOREM ThreadsDieWithModule == Spec => []NoThreadOutlivesModule
<1>1. IInv => NoThreadOutlivesModule
  BY DEF IInv, NoThreadOutlivesModule
<1>2. QED
  BY <1>1, IInvInductive, PTL

(* A thread exits only when asked, and at most one asked thread is alive.  *)
THEOREM StopsAreOrderly == Spec => [](ExitsOnlyWhenAsked /\ StopsOneAtATime)
<1>1. IInv => ExitsOnlyWhenAsked /\ StopsOneAtATime
  BY DEF IInv, TypeOK, ExitsOnlyWhenAsked, StopsOneAtATime, Alive
<1>2. QED
  BY <1>1, IInvInductive, PTL

-----------------------------------------------------------------------------
(* The remainders of an int stay in its range.                             *)
LEMMA WrapInInts == \A x \in Ints : (x + 1) % Wrap \in Ints
BY DEF Ints

-----------------------------------------------------------------------------
(* Every step of the module is a step of KthreadPair or leaves its         *)
(* variables alone, so whatever holds of KthreadPair holds here.           *)
LEMMA LivesAsPair == CounterSpec => Spec
<1>1. CounterInit => Init
  BY DEF CounterInit
<1>2. [CounterNext]_allVars => [Next]_vars
  <2> SUFFICES ASSUME [CounterNext]_allVars
               PROVE  [Next]_vars
    OBVIOUS
  <2>1. CASE Exit \/ CounterModuleStep
    BY <2>1 DEF Exit, CounterModuleStep, Setup, Stop, Unload, Next, ModuleStep
  <2>2. ASSUME NEW t \in Threads, CounterStep(t)
        PROVE  [Next]_vars
    <3>1. CASE Loop(t) \/ Sleep(t)
      BY <3>1 DEF Loop, Sleep, Next, ThreadStep
    <3>2. CASE Lock(t) \/ Load(t) \/ Store(t) \/ Unlock(t)
      BY <3>2 DEF Lock, Load, Store, Unlock
    <3>3. QED
      BY <2>2, <3>1, <3>2 DEF CounterStep
  <2>3. CASE UNCHANGED allVars
    BY <2>3 DEF allVars
  <2>4. QED
    BY <2>1, <2>2, <2>3 DEF CounterNext
<1>3. QED
  BY <1>1, <1>2, PTL DEF CounterSpec, Spec

-----------------------------------------------------------------------------
(* The inductive invariant: my_mutex is held exactly by the thread in its  *)
(* critical section, whose loaded value is therefore not stale.            *)
CounterInv ==
  /\ CounterTypeOK
  /\ \A t \in Threads : InCritical(t) <=> owner = t
  /\ \A t \in Threads : thread[t] # "body" => at[t] = "lock"
  /\ \A t \in Threads : At(t, "store") => reg[t] = shared_counter
  /\ PrintsOwnIncrement
  /\ NoLostUpdate

(* So is the invariant of the counter.                                     *)
LEMMA CounterInvInductive == CounterSpec => []CounterInv
<1>1. CounterInit => CounterInv
  BY DEF CounterInit, Init, CounterInv, CounterTypeOK, TypeOK, Phases, ThreadStates,
      Statements, Ints, InCritical, At, PrintsOwnIncrement, NoLostUpdate
<1>2. IInv /\ TypeOK' /\ CounterInv /\ [CounterNext]_allVars => CounterInv'
  <2> SUFFICES ASSUME IInv, TypeOK', CounterInv, [CounterNext]_allVars
               PROVE  CounterInv'
    OBVIOUS
  <2> USE DEF CounterInv, CounterTypeOK, InCritical, At, PrintsOwnIncrement,
              NoLostUpdate, Statements
  <2>1. CASE Setup
    BY <2>1 DEF Setup, RunThread, RunThreadFails, mutexVars, IInv, TypeOK
  <2>2. CASE Exit \/ Stop
    BY <2>2 DEF Exit, Stop, CallExit, StopNext, mutexVars
  <2>3. CASE Unload
    BY <2>3 DEF Unload, ModuleGone
  <2>4. ASSUME NEW t \in Threads, CounterStep(t)
        PROVE  CounterInv'
    <3>1. CASE Loop(t)
      BY <3>1 DEF Loop, Start, LoopTest, mutexVars, TypeOK, ThreadStates
    <3>2. CASE Lock(t)
      BY <3>2 DEF Lock, Advance, vars
    <3>3. CASE Load(t)
      BY <3>3 DEF Load, Advance, vars
    <3>4. CASE Store(t)
      BY <3>4, WrapInInts DEF Store, Advance, vars
    <3>5. CASE Unlock(t)
      BY <3>5 DEF Unlock, Advance, vars
    <3>6. CASE Sleep(t)
      BY <3>6 DEF Sleep, Advance, Body, TypeOK, ThreadStates
    <3>7. QED
      BY <2>4, <3>1, <3>2, <3>3, <3>4, <3>5, <3>6 DEF CounterStep
  <2>5. CASE UNCHANGED allVars
    BY <2>5 DEF allVars, vars, mutexVars
  <2>6. QED
    BY <2>1, <2>2, <2>3, <2>4, <2>5 DEF CounterNext, CounterModuleStep
<1>3. CounterSpec => [](IInv /\ TypeOK)
  BY LivesAsPair, IInvInductive, TypeCorrect, PTL
<1>4. QED
  BY <1>1, <1>2, <1>3, PTL DEF CounterSpec

(* Every variable of MutexCounter keeps its type: the counter stays an int.*)
THEOREM CounterTypeCorrect == CounterSpec => []CounterTypeOK
<1>1. CounterInv => CounterTypeOK
  BY DEF CounterInv
<1>2. QED
  BY <1>1, CounterInvInductive, PTL

(* The critical sections of two threads never overlap.                     *)
THEOREM Exclusion == CounterSpec => []MutualExclusion
<1>1. CounterInv => MutualExclusion
  BY DEF CounterInv, MutualExclusion
<1>2. QED
  BY <1>1, CounterInvInductive, PTL

(* The counter is the number of increments, and every printed value is the *)
(* printing thread's own.                                                  *)
THEOREM CountsExactly == CounterSpec => []CountIsExact
<1>1. CounterInv => CountIsExact
  BY DEF CounterInv, CountIsExact
<1>2. QED
  BY <1>1, CounterInvInductive, PTL

(* No thread can run the module's code once the module is gone.            *)
THEOREM CounterThreadsDieWithModule == CounterSpec => []NoThreadOutlivesModule
BY LivesAsPair, ThreadsDieWithModule, PTL

-----------------------------------------------------------------------------
(* The counter implements AtomicCounter: a store is an Increment, the end  *)
(* of the exit function is a Close, and no thread is left to store after.  *)
THEOREM Implements == CounterSpec => IsAtomicCounter
<1>1. CounterInit => Counter!Init
  BY DEF CounterInit, Init, Counter!Init
<1>2. CounterInv /\ NoThreadOutlivesModule /\ [CounterNext]_allVars
        => [Counter!Next]_<<shared_counter, increments, phase = "gone", final>>
  <2> SUFFICES ASSUME CounterInv, NoThreadOutlivesModule, [CounterNext]_allVars
               PROVE  [Counter!Next]_<<shared_counter, increments, phase = "gone", final>>
    OBVIOUS
  <2>1. CASE Setup \/ Exit \/ Stop
    BY <2>1 DEF Setup, Exit, Stop, RunThread, RunThreadFails, CallExit, StopNext,
                mutexVars
  <2>2. CASE Unload
    BY <2>2 DEF Unload, ModuleGone, CounterInv, NoLostUpdate, Counter!Next,
                Counter!Close
  <2>3. ASSUME NEW t \in Threads, CounterStep(t)
        PROVE  [Counter!Next]_<<shared_counter, increments, phase = "gone", final>>
    <3>1. CASE Store(t)
      <4>1. phase # "gone"
        BY <3>1 DEF Store, Advance, At, NoThreadOutlivesModule, Alive
      <4>2. reg[t] = shared_counter
        BY <3>1 DEF Store, Advance, CounterInv
      <4>3. QED
        BY <3>1, <4>1, <4>2 DEF Store, vars, Counter!Next, Counter!Increment
    <3>2. CASE Loop(t) \/ Lock(t) \/ Load(t) \/ Unlock(t) \/ Sleep(t)
      BY <3>2 DEF Loop, Start, LoopTest, Lock, Load, Unlock, Sleep, Body, vars,
                  mutexVars
    <3>3. QED
      BY <2>3, <3>1, <3>2 DEF CounterStep
  <2>4. CASE UNCHANGED allVars
    BY <2>4 DEF allVars, vars, mutexVars
  <2>5. QED
    BY <2>1, <2>2, <2>3, <2>4 DEF CounterNext, CounterModuleStep
<1>3. QED
  BY <1>1, <1>2, CounterInvInductive, CounterThreadsDieWithModule, PTL
  DEF CounterSpec, IsAtomicCounter, Counter!Spec

=============================================================================
