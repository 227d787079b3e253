------------------------- MODULE SpinProgramsProofs -------------------------
(***************************************************************************)
(* The programs of C_THREAD_AND_SYNCH/03_SPIN_LOCK/spin.c: types, the      *)
(* exclusion their lock gives, the deadlock its variant avoids and what    *)
(* rmmod leaves, for every number of CPUs, width of value and number of    *)
(* interrupts.                                                             *)
(***************************************************************************)
EXTENDS SpinPrograms, SequenceTheorems, TLAPS

USE WrapAssumption, MaxPressesAssumption

Holding == {"load", "store", "unlock"}

(* The parts of the inductive invariant, beside the types.                 *)

(* Whoever is on a stack is running or interrupted, and on it once; what   *)
(* lies higher has the higher rank, and was not masked when it came.       *)
StackedRun ==
  \A c \in CPUs : \A i \in 1 .. Len(stack[c]) : at[stack[c][i]] # "off"

StackedOnce ==
  \A c, d \in CPUs : \A i \in 1 .. Len(stack[c]) : \A j \in 1 .. Len(stack[d]) :
    stack[c][i] = stack[d][j] => c = d /\ i = j

HigherRank ==
  \A c \in CPUs : \A i, j \in 1 .. Len(stack[c]) :
    i < j => Rank[Kind(stack[c][i])] < Rank[Kind(stack[c][j])]

MaskedStayOut ==
  \A c \in CPUs : \A i, j \in 1 .. Len(stack[c]) :
    i < j /\ at[stack[c][i]] \in Contending => Kind(stack[c][j]) \notin program.masks

StackInv == StackedRun /\ StackedOnce /\ HigherRank /\ MaskedStayOut

(* The lock's queue holds those that contend for it, each once, and the    *)
(* one at its head is the only one inside.                                 *)
QueueHoldsContenders ==
  \A f \in Functions :
    at[f] \in Contending <=> \E i \in 1 .. Len(spinlock) : spinlock[i] = f

QueuedOnce ==
  \A i, j \in 1 .. Len(spinlock) : spinlock[i] = spinlock[j] => i = j

HeadHolds == \A f \in Functions : at[f] \in Holding => Head(spinlock) = f

LockInv == QueueHoldsContenders /\ QueuedOnce /\ HeadHolds

(* What the holder has loaded is still the value.                          *)
LoadedIsCurrent == \A f \in Functions : at[f] = "store" => reg[f] = value

(* Only tasklets are queued, and what does not exist neither runs nor is   *)
(* queued, but for the tasklet of the first program.                       *)
OnlyTaskletsQueue == \A f \in Functions : Kind(f) # "tasklet" => queued[f] = {}

DeadAreQuiet ==
  \A f \in Functions :
    f \notin alive => \/ program = IrqAndTasklet /\ f = 2
                      \/ at[f] = "off" /\ queued[f] = {}

(* init sets up the functions in order, and exit ends both.                *)
LifeFollowsPhase ==
  /\ phase \in {"init", "failed"} => alive \subseteq 1 .. step - 1
  /\ phase = "failed" => step \in program.fails
  /\ phase = "live" => step = 1
  /\ phase = "exit" /\ step = 2 => program.exit[1] \notin alive
  /\ phase = "gone" => alive = {}

LifeInv == OnlyTaskletsQueue /\ DeadAreQuiet /\ LifeFollowsPhase

IInv == TypeOK /\ StackInv /\ LockInv /\ LoadedIsCurrent /\ NoLostUpdate /\ LifeInv

-----------------------------------------------------------------------------
(* What the four programs have in common: the functions' contexts, and     *)
(* that the lock's variant masks every context that could interrupt one.   *)
LEMMA ProgramFacts ==
  ASSUME program \in Programs
  PROVE  /\ \A f \in Functions : Kind(f) \in {"thread", "tasklet", "irq"}
         /\ \A f \in Functions : Kind(f) = "irq" => program = IrqAndTasklet /\ f = 1
         /\ program = IrqAndTasklet => Kind(1) = "irq" /\ Kind(2) = "tasklet"
         /\ \A f \in program.scheduled : Kind(f) = "tasklet"
         /\ \A f \in program.fails : f = 1 \/ (program = IrqAndTasklet /\ f = 2)
         /\ program.exit[1] \in Functions /\ program.exit[2] \in Functions
         /\ program.exit[1] # program.exit[2]
         /\ \A f, g \in Functions :
              Rank[Kind(f)] < Rank[Kind(g)] => Kind(g) \in program.masks
<1> USE DEF Kind, Rank, Functions
<1>1. CASE program = IrqAndTasklet
  BY <1>1 DEF IrqAndTasklet
<1>2. CASE program = TwoThreads
  BY <1>2 DEF TwoThreads, IrqAndTasklet
<1>3. CASE program = TwoTasklets
  BY <1>3 DEF TwoTasklets, IrqAndTasklet
<1>4. CASE program = ThreadAndTasklet
  BY <1>4 DEF ThreadAndTasklet, IrqAndTasklet
<1>5. QED
  BY <1>1, <1>2, <1>3, <1>4 DEF Programs

(* The actions in groups: those that leave the contexts alone, those that  *)
(* bring a function onto a CPU, and the bodies.                            *)
LEMMA StepKinds ==
  ASSUME TypeOK, [Next]_vars
  PROVE  /\ program' = program
         /\ \/ UNCHANGED <<stack, at, spinlock, countVars>>
            \/ \E f \in Functions, c \in CPUs : Enter(f, c)
            \/ \E f \in Functions : Body(f)
<1>1. CASE SetUp \/ SetUpFails \/ CallExit \/ StopThread \/ ThreadStopped \/ Kill
  BY <1>1 DEF SetUp, SetUpFails, CallExit, StopThread, ThreadStopped, Kill
<1>2. ASSUME NEW f \in Functions, ThreadExits(f)
      PROVE  program' = program /\ UNCHANGED <<stack, at, spinlock, countVars>>
  BY <1>2 DEF ThreadExits
<1>3. ASSUME NEW f \in Functions, EnterThread(f) \/ EnterTasklet(f) \/ Press(f)
      PROVE  program' = program /\ \E c \in CPUs : Enter(f, c)
  <2>1. \E c \in CPUs : Enter(f, c)
    <3>1. CASE EnterTasklet(f)
      BY <1>3, <3>1 DEF EnterTasklet, TypeOK
    <3>2. QED
      BY <1>3, <3>1 DEF EnterThread, Press
  <2>2. QED
    BY <2>1 DEF Enter, moduleVars
<1>4. ASSUME NEW f \in Functions, Body(f)
      PROVE  program' = program
  BY <1>4 DEF Body, Spin, Acquire, Load, Store, Unlock, Leave, moduleVars
<1>5. CASE UNCHANGED vars
  BY <1>5 DEF vars, moduleVars
<1>6. QED
  BY <1>1, <1>2, <1>3, <1>4, <1>5 DEF Next, ModuleStep

(* A sequence without its last element.                                    *)
LEMMA PopProperties ==
  ASSUME NEW S, NEW s \in Seq(S), s # <<>>
  PROVE  /\ SubSeq(s, 1, Len(s) - 1) \in Seq(S)
         /\ Len(SubSeq(s, 1, Len(s) - 1)) = Len(s) - 1
         /\ \A i \in 1 .. Len(s) - 1 : SubSeq(s, 1, Len(s) - 1)[i] = s[i]
         /\ Len(s) \in Nat \ {0}
         /\ s[Len(s)] \in S
<1>1. Len(s) \in Nat \ {0}
  BY EmptySeq
<1>2. \A i \in 1 .. Len(s) : s[i] \in S
  BY ElementOfSeq
<1>3. /\ SubSeq(s, 1, Len(s) - 1) \in Seq(S)
      /\ Len(SubSeq(s, 1, Len(s) - 1)) = IF 1 <= Len(s) - 1 THEN Len(s) - 1 - 1 + 1 ELSE 0
      /\ \A i \in 1 .. (Len(s) - 1) - 1 + 1 : SubSeq(s, 1, Len(s) - 1)[i] = s[1 + i - 1]
  <2>1. 1 \in Int /\ Len(s) - 1 \in Int /\ \A i \in 1 .. Len(s) - 1 : s[i] \in S
    BY <1>1, <1>2
  <2>2. QED
    BY <2>1, SubSeqProperties
<1>4. Len(SubSeq(s, 1, Len(s) - 1)) = Len(s) - 1
  <2>1. \A n \in Nat \ {0} : (IF 1 <= n - 1 THEN n - 1 - 1 + 1 ELSE 0) = n - 1
    OBVIOUS
  <2>2. QED
    BY <1>1, <1>3, <2>1, Zenon
<1>5. ASSUME NEW i \in 1 .. Len(s) - 1
      PROVE  SubSeq(s, 1, Len(s) - 1)[i] = s[i]
  <2>1. i \in 1 .. (Len(s) - 1) - 1 + 1 /\ 1 + i - 1 = i
    BY <1>1
  <2>2. QED
    BY <1>3, <2>1
<1>6. s[Len(s)] \in S
  BY <1>1, <1>2
<1>7. QED
  BY <1>1, <1>3, <1>4, <1>5, <1>6

(* The stack of a CPU that a function enters, and of one it leaves.        *)
LEMMA PushedStack ==
  ASSUME TypeOK, NEW f \in Functions, NEW c \in CPUs, Enter(f, c)
  PROVE  /\ stack' \in [CPUs -> Seq(Functions)]
         /\ \A d \in CPUs \ {c} : stack'[d] = stack[d]
         /\ Len(stack[c]) \in Nat
         /\ Len(stack'[c]) = Len(stack[c]) + 1
         /\ \A i \in 1 .. Len(stack[c]) : stack'[c][i] = stack[c][i]
         /\ stack'[c][Len(stack[c]) + 1] = f
<1>1. stack \in [CPUs -> Seq(Functions)] /\ stack[c] \in Seq(Functions)
  BY DEF TypeOK
<1>2. stack' = [stack EXCEPT ![c] = Append(stack[c], f)]
  BY DEF Enter
<1>3. Append(stack[c], f) \in Seq(Functions) /\ Len(stack[c]) \in Nat
  BY <1>1, AppendProperties, LenProperties
<1>4. stack'[c] = Append(stack[c], f) /\ stack' \in [CPUs -> Seq(Functions)]
  BY <1>1, <1>2, <1>3
<1>5. QED
  BY <1>1, <1>2, <1>3, <1>4, AppendProperties

(* The stack of a CPU when its topmost program has returned.               *)
LEMMA PoppedStack ==
  ASSUME TypeOK, NEW f \in Functions, NEW c \in CPUs, stack[c] # <<>>,
         stack' = [stack EXCEPT ![c] = SubSeq(@, 1, Len(@) - 1)]
  PROVE  /\ stack' \in [CPUs -> Seq(Functions)]
         /\ \A d \in CPUs \ {c} : stack'[d] = stack[d]
         /\ Len(stack[c]) \in Nat \ {0}
         /\ Len(stack'[c]) = Len(stack[c]) - 1
         /\ \A i \in 1 .. Len(stack[c]) - 1 : stack'[c][i] = stack[c][i]
<1>1. stack \in [CPUs -> Seq(Functions)] /\ stack[c] \in Seq(Functions)
  BY DEF TypeOK
<1>2. SubSeq(stack[c], 1, Len(stack[c]) - 1) \in Seq(Functions)
  BY <1>1, PopProperties
<1>3. /\ stack'[c] = SubSeq(stack[c], 1, Len(stack[c]) - 1)
      /\ stack' \in [CPUs -> Seq(Functions)]
  BY <1>1, <1>2
<1>4. QED
  BY <1>1, <1>2, <1>3, PopProperties

(* A function that comes onto a CPU keeps the stacks in order.             *)
LEMMA EnterKeepsStackInv ==
  ASSUME TypeOK, StackInv, NEW f \in Functions, NEW c \in CPUs, Enter(f, c)
  PROVE  StackInv'
<1> DEFINE n == Len(stack[c])
<1> USE DEF StackInv
<1>1. /\ n \in Nat
      /\ \A d \in CPUs : \A i \in 1 .. Len(stack[d]) : stack[d][i] \in Functions
  BY ElementOfSeq, LenProperties DEF TypeOK
<1>2. at[f] = "off" /\ at' = [at EXCEPT ![f] = "enter"] /\ program' = program
  BY DEF Enter, CanEnter, moduleVars
<1>3. at \in [Functions -> {"off", "enter", "leave"} \cup Contending]
  BY DEF TypeOK
<1>4. \A d \in CPUs : \A i \in 1 .. Len(stack'[d]) :
        \/ d = c /\ i = n + 1 /\ stack'[d][i] = f
        \/ /\ i \in 1 .. Len(stack[d]) /\ stack'[d][i] = stack[d][i]
           /\ stack[d][i] \in Functions \ {f}
  <2> TAKE d \in CPUs
  <2> TAKE i \in 1 .. Len(stack'[d])
  <2>1. CASE i \in 1 .. Len(stack[d]) /\ stack'[d][i] = stack[d][i]
    BY <1>1, <1>2, <2>1 DEF StackedRun
  <2>2. CASE d = c /\ i = n + 1
    BY <2>2, PushedStack
  <2>3. CASE d # c
    BY <2>1, <2>3, PushedStack
  <2>4. QED
    BY <1>1, <2>1, <2>2, <2>3, PushedStack
<1> HIDE DEF n
<1>5. StackedRun'
  <2> SUFFICES ASSUME NEW d \in CPUs, NEW i \in 1 .. Len(stack'[d])
               PROVE  at'[stack'[d][i]] # "off"
    BY DEF StackedRun
  <2>1. CASE stack'[d][i] = f
    BY <1>2, <1>3, <2>1
  <2>2. CASE i \in 1 .. Len(stack[d]) /\ stack'[d][i] = stack[d][i] /\ stack[d][i] \in Functions \ {f}
    BY <1>2, <1>3, <2>2 DEF StackedRun
  <2>3. QED
    BY <1>4, <2>1, <2>2
<1>6. StackedOnce'
  <2> SUFFICES ASSUME NEW d \in CPUs, NEW e \in CPUs, NEW i \in 1 .. Len(stack'[d]),
                      NEW j \in 1 .. Len(stack'[e]), stack'[d][i] = stack'[e][j]
               PROVE  d = e /\ i = j
    BY DEF StackedOnce
  <2>1. CASE stack'[d][i] = f
    <3>1. d = c /\ i = n + 1
      BY <1>4, <2>1
    <3>2. stack'[e][j] = f
      BY <2>1
    <3>3. e = c /\ j = n + 1
      BY <1>4, <3>2
    <3>4. QED
      BY <3>1, <3>3
  <2>2. CASE stack'[d][i] # f
    <3>1. /\ i \in 1 .. Len(stack[d]) /\ stack'[d][i] = stack[d][i]
          /\ j \in 1 .. Len(stack[e]) /\ stack'[e][j] = stack[e][j]
      BY <1>4, <2>2
    <3>2. stack[d][i] = stack[e][j]
      BY <3>1, Zenon
    <3>3. QED
      BY <3>1, <3>2 DEF StackedOnce
  <2>3. QED
    BY <2>1, <2>2
<1>7. \A i \in 1 .. n : Rank[Kind(stack[c][i])] < Rank[Kind(f)]
  <2> SUFFICES ASSUME NEW i \in 1 .. n
               PROVE  Rank[Kind(stack[c][i])] < Rank[Kind(f)]
    OBVIOUS
  <2>1. stack[c] # <<>>
    BY <1>1, EmptySeq DEF n
  <2>2. Rank[Kind(stack[c][n])] < Rank[Kind(f)]
    BY <2>1 DEF Enter, CanEnter, Top, n
  <2>3. \A g \in Functions : Rank[Kind(g)] \in Nat
    BY ProgramFacts DEF TypeOK, Rank
  <2>4. CASE i = n
    BY <2>2, <2>4
  <2>5. CASE i < n
    <3>1. Rank[Kind(stack[c][i])] < Rank[Kind(stack[c][n])]
      BY <1>1, <2>5 DEF HigherRank, n
    <3>2. /\ Rank[Kind(stack[c][i])] \in Nat /\ Rank[Kind(stack[c][n])] \in Nat
          /\ Rank[Kind(f)] \in Nat
      BY <1>1, <2>3, <2>5 DEF n
    <3>3. QED
      BY <2>2, <3>1, <3>2
  <2>6. QED
    BY <1>1, <2>4, <2>5
<1>8. HigherRank'
  <2> SUFFICES ASSUME NEW d \in CPUs, NEW i \in 1 .. Len(stack'[d]),
                      NEW j \in 1 .. Len(stack'[d]), i < j
               PROVE  Rank[Kind(stack'[d][i])] < Rank[Kind(stack'[d][j])]
    BY <1>2 DEF HigherRank, Kind
  <2>1. CASE j \in 1 .. Len(stack[d]) /\ stack'[d][j] = stack[d][j]
    <3>1. i \in 1 .. Len(stack[d]) /\ stack'[d][i] = stack[d][i]
      <4>1. d = c => j <= n
        BY <2>1 DEF n
      <4>2. ~(d = c /\ i = n + 1)
        BY <1>1, <2>1, <4>1
      <4>3. QED
        BY <1>4, <4>2
    <3>2. QED
      BY <2>1, <3>1 DEF HigherRank
  <2>2. CASE d = c /\ j = n + 1 /\ stack'[d][j] = f
    BY <1>1, <1>4, <1>7, <2>2 DEF n
  <2>3. QED
    BY <1>4, <2>1, <2>2
<1>9. \A i \in 1 .. n : at[stack[c][i]] \in Contending => Kind(f) \notin program.masks
  BY DEF Enter, CanEnter, Masked, n
<1>10. MaskedStayOut'
  <2> SUFFICES ASSUME NEW d \in CPUs, NEW i \in 1 .. Len(stack'[d]),
                      NEW j \in 1 .. Len(stack'[d]), i < j,
                      at'[stack'[d][i]] \in Contending
               PROVE  Kind(stack'[d][j]) \notin program.masks
    BY <1>2 DEF MaskedStayOut, Kind
  <2>1. at' \in [Functions -> {"off", "enter", "leave"} \cup Contending] /\ at'[f] \notin Contending
    BY <1>2 DEF TypeOK, Contending
  <2>2. i \in 1 .. Len(stack[d]) /\ stack'[d][i] = stack[d][i] /\ at[stack[d][i]] \in Contending
    BY <1>2, <1>4, <2>1 DEF TypeOK
  <2>3. CASE j \in 1 .. Len(stack[d]) /\ stack'[d][j] = stack[d][j]
    BY <2>2, <2>3 DEF MaskedStayOut
  <2>4. CASE d = c /\ j = n + 1 /\ stack'[d][j] = f
    BY <1>1, <1>9, <2>2, <2>4 DEF n
  <2>5. QED
    BY <1>4, <2>3, <2>4
<1>11. QED
  BY <1>5, <1>6, <1>8, <1>10

(* So does one that goes on: it is on top of its stack.                    *)
LEMMA RunsKeepsStackInv ==
  ASSUME TypeOK, StackInv, NEW f \in Functions, NEW from, NEW to,
         Runs(f, from, to), to # "off", stack' = stack, program' = program
  PROVE  StackInv'
<1> USE DEF StackInv
<1>1. /\ at \in [Functions -> {"off", "enter", "leave"} \cup Contending]
      /\ at' = [at EXCEPT ![f] = to]
      /\ \A d \in CPUs : \A i \in 1 .. Len(stack[d]) : stack[d][i] \in Functions
  BY ElementOfSeq DEF TypeOK, Runs
<1>2. \A d \in CPUs : \A i, j \in 1 .. Len(stack[d]) : i < j => stack[d][i] # f
  <2> SUFFICES ASSUME NEW d \in CPUs, NEW i \in 1 .. Len(stack[d]),
                      NEW j \in 1 .. Len(stack[d]), i < j, stack[d][i] = f
               PROVE  FALSE
    OBVIOUS
  <2>1. PICK c \in CPUs : stack[c] # <<>> /\ stack[c][Len(stack[c])] = f
    BY DEF Runs, Top
  <2>2. Len(stack[c]) \in 1 .. Len(stack[c]) /\ Len(stack[d]) \in Nat
    BY <2>1, EmptySeq, LenProperties DEF TypeOK
  <2>3. d = c /\ i = Len(stack[c])
    BY <2>1, <2>2 DEF StackedOnce
  <2>4. QED
    BY <2>2, <2>3
<1>3. StackedRun'
  <2> SUFFICES ASSUME NEW d \in CPUs, NEW i \in 1 .. Len(stack[d])
               PROVE  at'[stack[d][i]] # "off"
    BY DEF StackedRun
  <2>1. QED
    BY <1>1 DEF StackedRun
<1>4. StackedOnce' /\ HigherRank'
  BY DEF StackedOnce, HigherRank, Kind
<1>5. MaskedStayOut'
  <2> SUFFICES ASSUME NEW d \in CPUs, NEW i \in 1 .. Len(stack[d]),
                      NEW j \in 1 .. Len(stack[d]), i < j,
                      at'[stack[d][i]] \in Contending
               PROVE  Kind(stack[d][j]) \notin program.masks
    BY DEF MaskedStayOut, Kind
  <2>1. stack[d][i] \in Functions \ {f}
    BY <1>1, <1>2
  <2>2. at[stack[d][i]] \in Contending
    BY <1>1, <2>1
  <2>3. QED
    BY <2>2 DEF MaskedStayOut
<1>6. QED
  BY <1>3, <1>4, <1>5

(* And one that returns: the others are where they were.                   *)
LEMMA LeaveKeepsStackInv ==
  ASSUME TypeOK, StackInv, NEW f \in Functions, Leave(f)
  PROVE  StackInv'
<1> USE DEF StackInv
<1>1. /\ at \in [Functions -> {"off", "enter", "leave"} \cup Contending]
      /\ at' = [at EXCEPT ![f] = "off"]
      /\ \A d \in CPUs : \A i \in 1 .. Len(stack[d]) : stack[d][i] \in Functions
      /\ program' = program
  BY ElementOfSeq DEF TypeOK, Leave, Runs, moduleVars
<1>2. PICK c \in CPUs : /\ stack[c] # <<>> /\ stack[c][Len(stack[c])] = f
                        /\ stack' = [stack EXCEPT ![c] = SubSeq(@, 1, Len(@) - 1)]
  BY DEF Leave, Top
<1>3. \A d \in CPUs : \A i \in 1 .. Len(stack'[d]) :
        /\ i \in 1 .. Len(stack[d])
        /\ stack'[d][i] = stack[d][i]
        /\ stack[d][i] \in Functions \ {f}
  <2> SUFFICES ASSUME NEW d \in CPUs, NEW i \in 1 .. Len(stack'[d])
               PROVE  /\ i \in 1 .. Len(stack[d])
                      /\ stack'[d][i] = stack[d][i]
                      /\ ~(d = c /\ i = Len(stack[c]))
    <3>1. Len(stack[c]) \in 1 .. Len(stack[c])
      BY <1>2, PoppedStack
    <3>2. ASSUME NEW d \in CPUs, NEW i \in 1 .. Len(stack[d]),
                 ~(d = c /\ i = Len(stack[c]))
          PROVE  stack[d][i] # f
      <4>1. stack[d][i] = stack[c][Len(stack[c])] => d = c /\ i = Len(stack[c])
        BY <3>1 DEF StackedOnce
      <4>2. QED
        BY <1>2, <3>2, <4>1, Zenon
    <3>3. QED
      BY <1>1, <3>2
  <2>1. CASE d # c
    BY <1>2, <2>1, PoppedStack
  <2>2. CASE d = c
    <3>1. /\ Len(stack[c]) \in Nat \ {0} /\ Len(stack'[c]) = Len(stack[c]) - 1
          /\ \A k \in 1 .. Len(stack[c]) - 1 : stack'[c][k] = stack[c][k]
      BY <1>2, PoppedStack
    <3>2. i \in 1 .. Len(stack[c]) - 1 /\ i \in 1 .. Len(stack[c]) /\ i # Len(stack[c])
      <4>1. \A n \in Nat : i \in 1 .. n - 1 => i \in 1 .. n /\ i # n
        OBVIOUS
      <4>2. i \in 1 .. Len(stack[c]) - 1
        BY <2>2, <3>1
      <4>3. QED
        BY <3>1, <4>1, <4>2
    <3>3. QED
      BY <2>2, <3>1, <3>2
  <2>3. QED
    BY <2>1, <2>2
<1>4. StackedRun'
  <2> SUFFICES ASSUME NEW d \in CPUs, NEW i \in 1 .. Len(stack'[d])
               PROVE  at'[stack'[d][i]] # "off"
    BY DEF StackedRun
  <2>1. QED
    BY <1>1, <1>3 DEF StackedRun
<1>5. StackedOnce'
  <2> SUFFICES ASSUME NEW d \in CPUs, NEW e \in CPUs, NEW i \in 1 .. Len(stack'[d]),
                      NEW j \in 1 .. Len(stack'[e]), stack'[d][i] = stack'[e][j]
               PROVE  d = e /\ i = j
    BY DEF StackedOnce
  <2>1. /\ i \in 1 .. Len(stack[d]) /\ stack'[d][i] = stack[d][i]
        /\ j \in 1 .. Len(stack[e]) /\ stack'[e][j] = stack[e][j]
    BY <1>3
  <2>2. stack[d][i] = stack[e][j]
    BY <2>1, Zenon
  <2>3. QED
    BY <2>1, <2>2 DEF StackedOnce
<1>6. HigherRank'
  <2> SUFFICES ASSUME NEW d \in CPUs, NEW i \in 1 .. Len(stack'[d]),
                      NEW j \in 1 .. Len(stack'[d]), i < j
               PROVE  Rank[Kind(stack'[d][i])] < Rank[Kind(stack'[d][j])]
    BY <1>1 DEF HigherRank, Kind
  <2>1. QED
    BY <1>3 DEF HigherRank
<1>7. MaskedStayOut'
  <2> SUFFICES ASSUME NEW d \in CPUs, NEW i \in 1 .. Len(stack'[d]),
                      NEW j \in 1 .. Len(stack'[d]), i < j,
                      at'[stack'[d][i]] \in Contending
               PROVE  Kind(stack'[d][j]) \notin program.masks
    BY <1>1 DEF MaskedStayOut, Kind
  <2>1. at[stack[d][i]] \in Contending
    BY <1>1, <1>3
  <2>2. QED
    BY <1>3, <2>1 DEF MaskedStayOut
<1>8. QED
  BY <1>4, <1>5, <1>6, <1>7

(* Every step keeps the order in which code interrupts other code.         *)
LEMMA StackInvKept ==
  ASSUME TypeOK, StackInv, [Next]_vars
  PROVE  StackInv'
<1>1. CASE UNCHANGED <<stack, at, spinlock, countVars>>
  BY <1>1, StepKinds DEF StackInv, StackedRun, StackedOnce, HigherRank, MaskedStayOut, Kind
<1>2. ASSUME NEW f \in Functions, Body(f)
      PROVE  StackInv'
  <2>1. CASE Leave(f)
    BY <2>1, LeaveKeepsStackInv
  <2>2. ASSUME NEW from, NEW to, Runs(f, from, to), to # "off", stack' = stack
        PROVE  StackInv'
    <3>1. program' = program
      BY StepKinds
    <3>2. QED
      BY <2>2, <3>1, RunsKeepsStackInv
  <2>3. CASE Spin(f)
    BY <2>2, <2>3 DEF Spin
  <2>4. CASE Acquire(f)
    BY <2>2, <2>4 DEF Acquire
  <2>5. CASE Load(f)
    BY <2>2, <2>5 DEF Load
  <2>6. CASE Store(f)
    BY <2>2, <2>6 DEF Store
  <2>7. CASE Unlock(f)
    BY <2>2, <2>7 DEF Unlock
  <2>8. QED
    BY <1>2, <2>1, <2>3, <2>4, <2>5, <2>6, <2>7 DEF Body
<1>3. QED
  BY <1>1, <1>2, StepKinds, EnterKeepsStackInv

(* The lock's queue is in order after a step that leaves it alone.         *)
LEMMA MoveKeepsLockInv ==
  ASSUME TypeOK, LockInv, NEW f \in Functions, NEW to,
         at' = [at EXCEPT ![f] = to], spinlock' = spinlock,
         at[f] \in Contending <=> to \in Contending,
         to \in Holding => Head(spinlock) = f
  PROVE  LockInv'
<1> USE DEF LockInv
<1>1. at \in [Functions -> {"off", "enter", "leave"} \cup Contending]
  BY DEF TypeOK
<1>2. QueueHoldsContenders'
  <2> SUFFICES ASSUME NEW g \in Functions
               PROVE  at'[g] \in Contending <=> \E i \in 1 .. Len(spinlock) : spinlock[i] = g
    BY DEF QueueHoldsContenders
  <2>1. at'[g] \in Contending <=> at[g] \in Contending
    BY <1>1
  <2>2. QED
    BY <2>1 DEF QueueHoldsContenders
<1>3. HeadHolds'
  <2> SUFFICES ASSUME NEW g \in Functions, at'[g] \in Holding
               PROVE  Head(spinlock) = g
    BY DEF HeadHolds
  <2>1. CASE g = f
    BY <1>1, <2>1
  <2>2. CASE g # f
    BY <1>1, <2>2 DEF HeadHolds
  <2>3. QED
    BY <2>1, <2>2
<1>4. QED
  BY <1>2, <1>3 DEF QueuedOnce

(* Who comes for the lock queues once, behind all others.                  *)
LEMMA SpinKeepsLockInv ==
  ASSUME TypeOK, LockInv, NEW f \in Functions, Spin(f)
  PROVE  LockInv'
<1> USE DEF LockInv
<1> DEFINE n == Len(spinlock)
<1>1. /\ at \in [Functions -> {"off", "enter", "leave"} \cup Contending]
      /\ at[f] = "enter" /\ at' = [at EXCEPT ![f] = "spin"]
      /\ spinlock \in Seq(Functions) /\ spinlock' = Append(spinlock, f)
  BY DEF TypeOK, Spin, Runs
<1>2. /\ n \in Nat /\ Len(spinlock') = n + 1
      /\ \A i \in 1 .. n : spinlock'[i] = spinlock[i]
      /\ spinlock'[n + 1] = f
      /\ Head(spinlock') = IF spinlock = <<>> THEN f ELSE Head(spinlock)
  BY <1>1, LenProperties, AppendProperties, HeadTailAppend
<1>3. \A i \in 1 .. n : spinlock[i] # f
  BY <1>1 DEF QueueHoldsContenders, Contending
<1> HIDE DEF n
<1>4. QueueHoldsContenders'
  <2> SUFFICES ASSUME NEW g \in Functions
               PROVE  at'[g] \in Contending <=> \E i \in 1 .. n + 1 : spinlock'[i] = g
    BY <1>2 DEF QueueHoldsContenders
  <2>1. CASE g = f
    BY <1>1, <1>2, <2>1 DEF Contending
  <2>2. CASE g # f
    <3>1. at'[g] \in Contending <=> at[g] \in Contending
      BY <1>1, <2>2
    <3>2. at[g] \in Contending <=> \E i \in 1 .. n : spinlock[i] = g
      BY DEF QueueHoldsContenders, n
    <3>3. (\E i \in 1 .. n : spinlock[i] = g) <=> \E i \in 1 .. n + 1 : spinlock'[i] = g
      BY <1>2, <2>2
    <3>4. QED
      BY <3>1, <3>2, <3>3
  <2>3. QED
    BY <2>1, <2>2
<1>5. QueuedOnce'
  <2> SUFFICES ASSUME NEW i \in 1 .. n + 1, NEW j \in 1 .. n + 1, spinlock'[i] = spinlock'[j]
               PROVE  i = j
    BY <1>2 DEF QueuedOnce
  <2>1. CASE i \in 1 .. n /\ j \in 1 .. n
    BY <1>2, <2>1 DEF QueuedOnce, n
  <2>2. QED
    BY <1>2, <1>3, <2>1
<1>6. HeadHolds'
  <2> SUFFICES ASSUME NEW g \in Functions, at'[g] \in Holding
               PROVE  Head(spinlock') = g
    BY DEF HeadHolds
  <2>1. g # f /\ at[g] \in Holding
    BY <1>1 DEF Holding
  <2>2. \E i \in 1 .. n : spinlock[i] = g
    BY <2>1 DEF QueueHoldsContenders, Holding, Contending, n
  <2>3. spinlock # <<>>
    BY <1>2, <2>2, EmptySeq DEF n
  <2>4. QED
    BY <1>2, <2>1, <2>3 DEF HeadHolds
<1>7. QED
  BY <1>4, <1>5, <1>6

(* Who releases the lock leaves it to the next in the queue.               *)
LEMMA UnlockKeepsLockInv ==
  ASSUME TypeOK, LockInv, NEW f \in Functions, Unlock(f)
  PROVE  LockInv' /\ spinlock' \in Seq(Functions)
<1> USE DEF LockInv
<1> DEFINE n == Len(spinlock)
<1>1. /\ at \in [Functions -> {"off", "enter", "leave"} \cup Contending]
      /\ at[f] = "unlock" /\ at' = [at EXCEPT ![f] = "leave"]
      /\ spinlock \in Seq(Functions) /\ spinlock' = Tail(spinlock)
  BY DEF TypeOK, Unlock, Runs
<1>2. n \in Nat /\ n # 0 /\ spinlock # <<>> /\ spinlock[1] = f
  <2>1. PICK i \in 1 .. n : spinlock[i] = f
    BY <1>1 DEF QueueHoldsContenders, Contending
  <2>2. n \in Nat /\ n # 0 /\ spinlock # <<>>
    BY <1>1, <2>1, LenProperties, EmptySeq
  <2>3. Head(spinlock) = f
    BY <1>1 DEF HeadHolds, Holding
  <2>4. QED
    BY <2>2, <2>3, <1>1
<1>3. /\ spinlock' \in Seq(Functions) /\ Len(spinlock') = n - 1
      /\ \A i \in 1 .. n - 1 : spinlock'[i] = spinlock[i + 1]
  BY <1>1, <1>2, HeadTailProperties
<1> HIDE DEF n
<1>4. QueueHoldsContenders'
  <2> SUFFICES ASSUME NEW g \in Functions
               PROVE  at'[g] \in Contending <=> \E i \in 1 .. n - 1 : spinlock'[i] = g
    BY <1>3 DEF QueueHoldsContenders
  <2>1. CASE g = f
    <3>1. at'[g] \notin Contending
      BY <1>1, <2>1 DEF Contending
    <3>2. ASSUME NEW i \in 1 .. n - 1
          PROVE  spinlock'[i] # f
      <4>1. i + 1 \in 1 .. n /\ i + 1 # 1 /\ 1 \in 1 .. n
        BY <1>2
      <4>2. spinlock[i + 1] # f
        BY <1>2, <4>1 DEF QueuedOnce, n
      <4>3. QED
        BY <1>3, <4>2
    <3>3. QED
      BY <2>1, <3>1, <3>2
  <2>2. CASE g # f
    <3>1. at'[g] \in Contending <=> at[g] \in Contending
      BY <1>1, <2>2
    <3>2. at[g] \in Contending <=> \E i \in 1 .. n : spinlock[i] = g
      BY DEF QueueHoldsContenders, n
    <3>3. ASSUME NEW i \in 1 .. n, spinlock[i] = g
          PROVE  \E j \in 1 .. n - 1 : spinlock'[j] = g
      <4>1. i - 1 \in 1 .. n - 1 /\ (i - 1) + 1 = i
        BY <1>2, <2>2, <3>3
      <4>2. spinlock'[i - 1] = g
        BY <1>3, <3>3, <4>1
      <4>3. QED
        BY <4>1, <4>2
    <3>4. ASSUME NEW j \in 1 .. n - 1, spinlock'[j] = g
          PROVE  \E i \in 1 .. n : spinlock[i] = g
      <4>1. j + 1 \in 1 .. n
        BY <1>2
      <4>2. QED
        BY <1>3, <3>4, <4>1
    <3>5. QED
      BY <3>1, <3>2, <3>3, <3>4
  <2>3. QED
    BY <2>1, <2>2
<1>5. QueuedOnce'
  <2> SUFFICES ASSUME NEW i \in 1 .. n - 1, NEW j \in 1 .. n - 1, spinlock'[i] = spinlock'[j]
               PROVE  i = j
    BY <1>3 DEF QueuedOnce
  <2>1. i + 1 \in 1 .. n /\ j + 1 \in 1 .. n
    BY <1>2
  <2>2. spinlock[i + 1] = spinlock[j + 1]
    BY <1>3
  <2>3. i + 1 = j + 1
    BY <2>1, <2>2 DEF QueuedOnce, n
  <2>4. QED
    BY <2>3
<1>6. HeadHolds'
  <2> SUFFICES ASSUME NEW g \in Functions, at'[g] \in Holding
               PROVE  FALSE
    BY DEF HeadHolds
  <2>1. g # f /\ at[g] \in Holding
    BY <1>1 DEF Holding
  <2>2. QED
    BY <1>1, <2>1 DEF HeadHolds, Holding
<1>7. QED
  BY <1>3, <1>4, <1>5, <1>6

(* Every step keeps the queue of the lock to those that spin and hold.     *)
LEMMA LockInvKept ==
  ASSUME TypeOK, LockInv, [Next]_vars
  PROVE  LockInv'
<1>1. CASE UNCHANGED <<stack, at, spinlock, countVars>>
  BY <1>1 DEF LockInv, QueueHoldsContenders, QueuedOnce, HeadHolds
<1>2. ASSUME NEW f \in Functions, NEW c \in CPUs, Enter(f, c)
      PROVE  LockInv'
  <2>1. /\ at' = [at EXCEPT ![f] = "enter"] /\ spinlock' = spinlock
        /\ at[f] \notin Contending /\ "enter" \notin Contending /\ "enter" \notin Holding
    BY <1>2 DEF Enter, CanEnter, Contending, Holding
  <2>2. QED
    BY <2>1, MoveKeepsLockInv
<1>3. ASSUME NEW f \in Functions, Acquire(f)
      PROVE  LockInv'
  <2>1. /\ at' = [at EXCEPT ![f] = "load"] /\ spinlock' = spinlock /\ Head(spinlock) = f
        /\ at[f] \in Contending /\ "load" \in Contending
    BY <1>3 DEF Acquire, Runs, Contending
  <2>2. QED
    BY <2>1, MoveKeepsLockInv
<1>4. ASSUME NEW f \in Functions, NEW to \in {"store", "unlock"}, Load(f) \/ Store(f),
             at' = [at EXCEPT ![f] = to]
      PROVE  LockInv'
  <2>1. at[f] \in {"load", "store"} /\ spinlock' = spinlock
    BY <1>4 DEF Load, Store, Runs
  <2>2. Head(spinlock) = f /\ at[f] \in Contending /\ to \in Contending
    BY <2>1 DEF LockInv, HeadHolds, Holding, Contending
  <2>3. QED
    BY <1>4, <2>1, <2>2, MoveKeepsLockInv
<1>5. ASSUME NEW f \in Functions, Leave(f)
      PROVE  LockInv'
  <2>1. /\ at' = [at EXCEPT ![f] = "off"] /\ spinlock' = spinlock
        /\ at[f] \notin Contending /\ "off" \notin Contending /\ "off" \notin Holding
    BY <1>5 DEF Leave, Runs, Contending, Holding
  <2>2. QED
    BY <2>1, MoveKeepsLockInv
<1>6. ASSUME NEW f \in Functions, Body(f)
      PROVE  LockInv'
  <2>1. CASE Load(f) \/ Store(f)
    BY <1>4, <2>1 DEF Load, Store, Runs
  <2>2. QED
    BY <1>3, <1>5, <1>6, <2>1, SpinKeepsLockInv, UnlockKeepsLockInv DEF Body
<1>7. QED
  BY <1>1, <1>2, <1>6, StepKinds

-----------------------------------------------------------------------------
(* The types of the module's life, of the contexts and of the integers.    *)
LifeTypes ==
  /\ program \in Programs
  /\ phase \in {"init", "live", "exit", "gone", "failed", "oops"}
  /\ step \in Functions
  /\ alive \subseteq Functions
  /\ should_stop \subseteq Functions
  /\ queued \in [Functions -> SUBSET CPUs]
  /\ presses \in 0 .. MaxPresses

(* The next step of init or exit is one of the program's.                  *)
LEMMA GoOnTypes ==
  ASSUME LifeTypes, GoOn("live") \/ GoOn("gone")
  PROVE  /\ phase' \in {"init", "live", "exit", "gone", "failed", "oops"}
         /\ step' \in Functions
BY DEF LifeTypes, GoOn, Functions

(* Every step keeps the types of the module's life.                        *)
LEMMA LifeTypesKept ==
  ASSUME TypeOK, [Next]_vars
  PROVE  LifeTypes'
<1> USE DEF LifeTypes
<1>1. LifeTypes
  BY DEF TypeOK
<1>2. Ending \in Functions
  BY <1>1, ProgramFacts DEF Ending, Functions
<1>3. CASE SetUp
  <2>1. alive' \subseteq Functions
    BY <1>1, <1>3 DEF SetUp
  <2>2. queued' \in [Functions -> SUBSET CPUs]
    <3>1. CASE step \in program.scheduled
      <4>1. PICK c \in CPUs : queued' = [queued EXCEPT ![step] = {c}]
        BY <1>3, <3>1 DEF SetUp
      <4>2. QED
        BY <1>1, <4>1
    <3>2. CASE step \notin program.scheduled
      BY <1>1, <1>3, <3>2 DEF SetUp
    <3>3. QED
      BY <3>1, <3>2
  <2>3. GoOn("live") /\ UNCHANGED <<program, should_stop, presses>>
    BY <1>3 DEF SetUp
  <2>4. QED
    BY <1>1, <2>1, <2>2, <2>3, GoOnTypes
<1>4. CASE SetUpFails \/ CallExit
  BY <1>1, <1>4 DEF SetUpFails, CallExit
<1>5. CASE StopThread
  BY <1>1, <1>2, <1>5 DEF StopThread
<1>6. CASE ThreadStopped \/ Kill
  <2>1. /\ GoOn("gone") /\ alive' \subseteq Functions
        /\ UNCHANGED <<program, should_stop, queued, presses>>
    BY <1>1, <1>6 DEF ThreadStopped, Kill
  <2>2. QED
    BY <1>1, <2>1, GoOnTypes
<1>7. ASSUME NEW f \in Functions, EnterThread(f) \/ EnterTasklet(f) \/ Press(f)
      PROVE  LifeTypes'
  BY <1>1, <1>7 DEF EnterThread, EnterTasklet, Press, Enter, moduleVars
<1>8. ASSUME NEW f \in Functions, ThreadExits(f)
      PROVE  LifeTypes'
  BY <1>1, <1>8 DEF ThreadExits
<1>9. ASSUME NEW f \in Functions, Body(f)
      PROVE  LifeTypes'
  <2>1. CASE Leave(f)
    <3>1. PICK c \in CPUs : queued' = IF Kind(f) = "irq" /\ queued[2] = {}
                                        THEN [queued EXCEPT ![2] = {c}] ELSE queued
      BY <2>1 DEF Leave
    <3>2. queued' \in [Functions -> SUBSET CPUs]
      BY <1>1, <3>1
    <3>3. QED
      BY <1>1, <2>1, <3>2 DEF Leave, moduleVars
  <2>2. CASE Spin(f) \/ Acquire(f) \/ Load(f) \/ Store(f) \/ Unlock(f)
    BY <1>1, <2>2 DEF Spin, Acquire, Load, Store, Unlock, moduleVars
  <2>3. QED
    BY <1>9, <2>1, <2>2 DEF Body
<1>10. CASE UNCHANGED vars
  BY <1>1, <1>10 DEF vars, moduleVars
<1>11. QED
  BY <1>3, <1>4, <1>5, <1>6, <1>7, <1>8, <1>9, <1>10 DEF Next, ModuleStep

(* A step may store a value the holder loaded a while ago: nobody else has *)
(* stored since.                                                           *)
LEMMA CountsKept ==
  ASSUME TypeOK, LockInv, LoadedIsCurrent, NoLostUpdate, [Next]_vars
  PROVE  /\ LoadedIsCurrent' /\ NoLostUpdate'
         /\ value' \in 0 .. Wrap - 1 /\ increments' \in 0 .. Wrap - 1
         /\ reg' \in [Functions -> 0 .. Wrap - 1]
<1> USE DEF LoadedIsCurrent, NoLostUpdate
<1>1. /\ value \in 0 .. Wrap - 1 /\ increments \in 0 .. Wrap - 1
      /\ reg \in [Functions -> 0 .. Wrap - 1]
      /\ at \in [Functions -> {"off", "enter", "leave"} \cup Contending]
  BY DEF TypeOK
<1>2. \A x \in 0 .. Wrap - 1 : (x + 1) % Wrap \in 0 .. Wrap - 1
  OBVIOUS
<1>3. CASE UNCHANGED <<stack, at, spinlock, countVars>>
  BY <1>1, <1>3 DEF countVars
<1>4. ASSUME NEW f \in Functions, NEW to, to # "store", at' = [at EXCEPT ![f] = to],
             UNCHANGED countVars
      PROVE  /\ LoadedIsCurrent' /\ NoLostUpdate'
             /\ value' \in 0 .. Wrap - 1 /\ increments' \in 0 .. Wrap - 1
             /\ reg' \in [Functions -> 0 .. Wrap - 1]
  BY <1>1, <1>4 DEF countVars
<1>5. ASSUME NEW f \in Functions, NEW c \in CPUs, Enter(f, c)
      PROVE  at' = [at EXCEPT ![f] = "enter"] /\ UNCHANGED countVars
  BY <1>5 DEF Enter
<1>6. ASSUME NEW f \in Functions, Spin(f) \/ Acquire(f) \/ Unlock(f) \/ Leave(f)
      PROVE  \E to \in {"spin", "load", "leave", "off"} :
               at' = [at EXCEPT ![f] = to] /\ UNCHANGED countVars
  BY <1>6 DEF Spin, Acquire, Unlock, Leave, Runs
<1>7. ASSUME NEW f \in Functions, Load(f)
      PROVE  /\ LoadedIsCurrent' /\ NoLostUpdate'
             /\ value' \in 0 .. Wrap - 1 /\ increments' \in 0 .. Wrap - 1
             /\ reg' \in [Functions -> 0 .. Wrap - 1]
  BY <1>1, <1>7 DEF Load, Runs
<1>8. ASSUME NEW f \in Functions, Store(f)
      PROVE  /\ LoadedIsCurrent' /\ NoLostUpdate'
             /\ value' \in 0 .. Wrap - 1 /\ increments' \in 0 .. Wrap - 1
             /\ reg' \in [Functions -> 0 .. Wrap - 1]
  <2>1. /\ at[f] = "store" /\ at' = [at EXCEPT ![f] = "unlock"] /\ reg' = reg
        /\ value' = (reg[f] + 1) % Wrap /\ increments' = (increments + 1) % Wrap
    BY <1>8 DEF Store, Runs
  <2>2. reg[f] = value /\ value = increments
    BY <2>1
  <2>3. value' = increments' /\ value' \in 0 .. Wrap - 1
    BY <1>1, <1>2, <2>1, <2>2
  <2>4. \A g \in Functions : at'[g] # "store"
    BY <1>1, <2>1 DEF LockInv, HeadHolds, Holding
  <2>5. QED
    BY <1>1, <2>1, <2>3, <2>4
<1>9. ASSUME NEW f \in Functions, Body(f)
      PROVE  /\ LoadedIsCurrent' /\ NoLostUpdate'
             /\ value' \in 0 .. Wrap - 1 /\ increments' \in 0 .. Wrap - 1
             /\ reg' \in [Functions -> 0 .. Wrap - 1]
  <2>1. CASE Spin(f) \/ Acquire(f) \/ Unlock(f) \/ Leave(f)
    BY <1>4, <1>6, <2>1
  <2>2. QED
    BY <1>7, <1>8, <1>9, <2>1 DEF Body
<1>10. QED
  BY <1>3, <1>4, <1>5, <1>9, StepKinds

(* Every step keeps the types.                                             *)
LEMMA TypeOKKept ==
  ASSUME TypeOK, LockInv, LoadedIsCurrent, NoLostUpdate, [Next]_vars
  PROVE  TypeOK'
<1>1. /\ at \in [Functions -> {"off", "enter", "leave"} \cup Contending]
      /\ stack \in [CPUs -> Seq(Functions)] /\ spinlock \in Seq(Functions)
  BY DEF TypeOK
<1> DEFINE ContextTypes ==
      /\ at' \in [Functions -> {"off", "enter", "leave"} \cup Contending]
      /\ stack' \in [CPUs -> Seq(Functions)] /\ spinlock' \in Seq(Functions)
<1>2. ASSUME UNCHANGED <<stack, at, spinlock, countVars>>
      PROVE  ContextTypes
  BY <1>1, <1>2
<1>3. ASSUME NEW f \in Functions, NEW c \in CPUs, Enter(f, c)
      PROVE  ContextTypes
  BY <1>1, <1>3, PushedStack DEF Enter
<1>4. ASSUME NEW f \in Functions, Body(f)
      PROVE  ContextTypes
  <2>1. CASE Spin(f)
    <3>1. spinlock' \in Seq(Functions)
      BY <1>1, <2>1, AppendProperties DEF Spin
    <3>2. QED
      BY <1>1, <2>1, <3>1 DEF Spin, Runs, Contending
  <2>2. CASE Acquire(f)
    BY <1>1, <2>2 DEF Acquire, Runs, Contending
  <2>3. CASE Load(f)
    BY <1>1, <2>3 DEF Load, Runs, Contending
  <2>4. CASE Store(f)
    BY <1>1, <2>4 DEF Store, Runs, Contending
  <2>5. CASE Unlock(f)
    BY <1>1, <2>5, UnlockKeepsLockInv DEF Unlock, Runs
  <2>6. CASE Leave(f)
    <3>1. stack' \in [CPUs -> Seq(Functions)]
      BY <2>6, PoppedStack DEF Leave
    <3>2. QED
      BY <1>1, <2>6, <3>1 DEF Leave, Runs
  <2>7. QED
    BY <1>4, <2>1, <2>2, <2>3, <2>4, <2>5, <2>6 DEF Body
<1>5. ContextTypes
  BY <1>2, <1>3, <1>4, StepKinds
<1>6. QED
  BY <1>5, LifeTypesKept, CountsKept DEF TypeOK, LifeTypes

-----------------------------------------------------------------------------
(* What the contexts' own steps do to queued and at, when they leave the   *)
(* module's life alone.                                                    *)
LEMMA EnterKeepsLifeInv ==
  ASSUME TypeOK, LifeInv, NEW f \in Functions,
         EnterThread(f) \/ EnterTasklet(f) \/ Press(f)
  PROVE  LifeInv'
<1> USE DEF LifeInv
<1>1. /\ queued \in [Functions -> SUBSET CPUs]
      /\ at \in [Functions -> {"off", "enter", "leave"} \cup Contending]
  BY DEF TypeOK
<1>2. \E c \in CPUs : Enter(f, c)
  <2>1. CASE EnterTasklet(f)
    BY <1>1, <2>1 DEF EnterTasklet
  <2>2. QED
    BY <2>1 DEF EnterThread, Press
<1>3. /\ at' = [at EXCEPT ![f] = "enter"]
      /\ UNCHANGED <<program, phase, step, alive>>
  BY <1>2 DEF Enter, moduleVars
<1>4. queued' = queued \/ queued' = [queued EXCEPT ![f] = {}]
  BY DEF EnterThread, EnterTasklet, Press
<1>5. f \in alive \/ (program = IrqAndTasklet /\ f = 2)
  <2>1. CASE EnterTasklet(f)
    <3>1. queued[f] # {}
      BY <2>1 DEF EnterTasklet
    <3>2. QED
      BY <3>1 DEF DeadAreQuiet
  <2>2. QED
    BY <2>1 DEF EnterThread, Press
<1>6. \A g \in Functions : queued[g] = {} => queued'[g] = {}
  BY <1>1, <1>4
<1>7. OnlyTaskletsQueue'
  BY <1>3, <1>6 DEF OnlyTaskletsQueue, Kind
<1>8. DeadAreQuiet'
  <2> SUFFICES ASSUME NEW g \in Functions, g \notin alive, ~(program = IrqAndTasklet /\ g = 2)
               PROVE  at'[g] = "off" /\ queued'[g] = {}
    BY <1>3, Zenon DEF DeadAreQuiet
  <2>1. g # f
    BY <1>5
  <2>2. at[g] = "off" /\ queued[g] = {}
    BY DEF DeadAreQuiet
  <2>3. QED
    BY <1>1, <1>3, <1>6, <2>1, <2>2
<1>9. LifeFollowsPhase'
  BY <1>3 DEF LifeFollowsPhase
<1>10. QED
  BY <1>7, <1>8, <1>9

(* What a program does in its body keeps LifeInv.                          *)
LEMMA BodyKeepsLifeInv ==
  ASSUME TypeOK, LifeInv, NEW f \in Functions, Body(f)
  PROVE  LifeInv'
<1> USE DEF LifeInv
<1>1. /\ queued \in [Functions -> SUBSET CPUs]
      /\ at \in [Functions -> {"off", "enter", "leave"} \cup Contending]
  BY DEF TypeOK
<1>2. /\ at[f] # "off"
      /\ \A g \in Functions \ {f} : at'[g] = at[g]
      /\ UNCHANGED <<program, phase, step, alive>>
  BY <1>1 DEF Body, Spin, Acquire, Load, Store, Unlock, Leave, Runs, moduleVars
<1>3. \A g \in Functions :
        queued'[g] = queued[g] \/ (program = IrqAndTasklet /\ g = 2)
  <2>1. CASE Leave(f)
    <3>1. PICK c \in CPUs : queued' = IF Kind(f) = "irq" /\ queued[2] = {}
                                        THEN [queued EXCEPT ![2] = {c}] ELSE queued
      BY <2>1 DEF Leave
    <3>2. Kind(f) = "irq" => program = IrqAndTasklet
      BY ProgramFacts DEF TypeOK
    <3>3. QED
      BY <1>1, <3>1, <3>2
  <2>2. CASE ~Leave(f)
    BY <2>2 DEF Body, Spin, Acquire, Load, Store, Unlock
  <2>3. QED
    BY <2>1, <2>2
<1>4. OnlyTaskletsQueue'
  <2> SUFFICES ASSUME NEW g \in Functions, Kind(g) # "tasklet"
               PROVE  queued'[g] = {}
    BY <1>2 DEF OnlyTaskletsQueue, Kind
  <2>1. program = IrqAndTasklet => Kind(2) = "tasklet"
    BY ProgramFacts DEF TypeOK
  <2>2. QED
    BY <1>3, <2>1 DEF OnlyTaskletsQueue
<1>5. DeadAreQuiet'
  <2> SUFFICES ASSUME NEW g \in Functions, g \notin alive, ~(program = IrqAndTasklet /\ g = 2)
               PROVE  at'[g] = "off" /\ queued'[g] = {}
    BY <1>2, Zenon DEF DeadAreQuiet
  <2>1. at[g] = "off" /\ queued[g] = {}
    BY DEF DeadAreQuiet
  <2>2. QED
    BY <1>2, <1>3, <2>1
<1>6. LifeFollowsPhase'
  BY <1>2 DEF LifeFollowsPhase
<1>7. QED
  BY <1>4, <1>5, <1>6

(* What init sets up is known to exit.                                     *)
LEMMA SetUpKeepsLifeInv ==
  ASSUME TypeOK, LifeInv, SetUp
  PROVE  LifeInv'
<1> USE DEF LifeInv
<1>1. /\ queued \in [Functions -> SUBSET CPUs] /\ step \in Functions
      /\ \A f \in program.scheduled : Kind(f) = "tasklet"
  BY ProgramFacts DEF TypeOK
<1>2. /\ alive' = alive \cup {step} \/ (Kind(step) = "thread" /\ alive' = alive)
      /\ phase = "init" /\ GoOn("live")
      /\ program' = program /\ at' = at
  BY DEF SetUp
<1>3. \A g \in Functions :
        queued'[g] = queued[g] \/ (g = step /\ Kind(g) = "tasklet")
  <2>1. CASE step \in program.scheduled
    <3>1. PICK c \in CPUs : queued' = [queued EXCEPT ![step] = {c}]
      BY <2>1 DEF SetUp
    <3>2. QED
      BY <1>1, <2>1, <3>1
  <2>2. CASE step \notin program.scheduled
    BY <2>2 DEF SetUp
  <2>3. QED
    BY <2>1, <2>2
<1>4. OnlyTaskletsQueue'
  <2> SUFFICES ASSUME NEW g \in Functions, Kind(g) # "tasklet"
               PROVE  queued'[g] = {}
    BY <1>2 DEF OnlyTaskletsQueue, Kind
  <2>1. QED
    BY <1>3 DEF OnlyTaskletsQueue
<1>5. DeadAreQuiet'
  <2> SUFFICES ASSUME NEW g \in Functions, g \notin alive', ~(program = IrqAndTasklet /\ g = 2)
               PROVE  at[g] = "off" /\ queued'[g] = {}
    BY <1>2, Zenon DEF DeadAreQuiet
  <2>1. g \notin alive /\ ~(g = step /\ Kind(g) = "tasklet")
    BY <1>2
  <2>2. QED
    BY <1>3, <2>1 DEF DeadAreQuiet
<1>6. LifeFollowsPhase'
  <2>1. CASE step = 1
    BY <1>2, <2>1 DEF LifeFollowsPhase, GoOn
  <2>2. CASE step = 2
    BY <1>2, <2>2 DEF LifeFollowsPhase, GoOn
  <2>3. QED
    BY <1>1, <2>1, <2>2 DEF Functions
<1>7. QED
  BY <1>4, <1>5, <1>6

(* Tearing down leaves nothing running behind it.                          *)
LEMMA EndKeepsLifeInv ==
  ASSUME TypeOK, LifeInv, ThreadStopped \/ Kill
  PROVE  LifeInv'
<1> USE DEF LifeInv
<1>1. /\ step \in Functions /\ alive \subseteq Functions
      /\ program.exit[1] \in Functions /\ program.exit[2] \in Functions
      /\ program.exit[1] # program.exit[2]
  BY ProgramFacts DEF TypeOK
<1>2. /\ phase = "exit" /\ GoOn("gone")
      /\ alive' = alive \ {Ending}
      /\ program' = program /\ at' = at /\ queued' = queued
  BY DEF ThreadStopped, Kill
<1>3. OnlyTaskletsQueue'
  BY <1>2 DEF OnlyTaskletsQueue, Kind
<1>4. DeadAreQuiet'
  <2> SUFFICES ASSUME NEW g \in Functions, g \notin alive', ~(program = IrqAndTasklet /\ g = 2)
               PROVE  at[g] = "off" /\ queued[g] = {}
    BY <1>2, Zenon DEF DeadAreQuiet
  <2>1. CASE g \notin alive
    BY <2>1 DEF DeadAreQuiet
  <2>2. CASE g \in alive
    <3>1. g = Ending /\ Kill
      BY <1>2, <2>2 DEF ThreadStopped
    <3>2. QED
      BY <3>1 DEF Kill
  <2>3. QED
    BY <2>1, <2>2
<1>5. LifeFollowsPhase'
  <2>1. CASE step = 1
    <3>1. phase' = "exit" /\ step' = 2 /\ program.exit[1] \notin alive'
      BY <1>2, <2>1 DEF GoOn, Ending
    <3>2. QED
      BY <1>2, <3>1 DEF LifeFollowsPhase
  <2>2. CASE step = 2
    <3>1. phase' = "gone" /\ step' = 1
      BY <1>2, <2>2 DEF GoOn
    <3>2. program.exit[1] \notin alive' /\ program.exit[2] \notin alive'
      BY <1>2, <2>2 DEF LifeFollowsPhase, Ending
    <3>3. alive' = {}
      <4>1. \A g \in Functions : g = program.exit[1] \/ g = program.exit[2]
        BY <1>1 DEF Functions
      <4>2. QED
        BY <1>1, <1>2, <3>2, <4>1
    <3>4. QED
      BY <3>1, <3>3 DEF LifeFollowsPhase
  <2>3. QED
    BY <1>1, <2>1, <2>2 DEF Functions
<1>6. QED
  BY <1>3, <1>4, <1>5

(* Every step keeps what runs in step with the module's life.              *)
LEMMA LifeInvKept ==
  ASSUME TypeOK, LifeInv, [Next]_vars
  PROVE  LifeInv'
<1> USE DEF LifeInv
<1>1. CASE SetUpFails \/ CallExit \/ StopThread \/ UNCHANGED vars
  <2>1. UNCHANGED <<program, alive, at, queued>>
    BY <1>1 DEF SetUpFails, CallExit, StopThread, vars, moduleVars
  <2>2. OnlyTaskletsQueue' /\ DeadAreQuiet'
    BY <2>1 DEF OnlyTaskletsQueue, DeadAreQuiet, Kind
  <2>3. LifeFollowsPhase'
    BY <1>1, <2>1 DEF LifeFollowsPhase, SetUpFails, CallExit, StopThread, vars, moduleVars
  <2>4. QED
    BY <2>2, <2>3
<1>2. ASSUME NEW f \in Functions, ThreadExits(f)
      PROVE  LifeInv'
  <2>1. /\ Kind(f) = "thread" /\ at[f] = "off" /\ alive' = alive \ {f}
        /\ UNCHANGED <<program, phase, step, at, queued>>
    BY <1>2 DEF ThreadExits
  <2>2. queued[f] = {}
    BY <2>1 DEF OnlyTaskletsQueue
  <2>3. OnlyTaskletsQueue' /\ LifeFollowsPhase'
    BY <2>1 DEF OnlyTaskletsQueue, LifeFollowsPhase, Kind
  <2>4. DeadAreQuiet'
    <3> SUFFICES ASSUME NEW g \in Functions, g \notin alive', ~(program = IrqAndTasklet /\ g = 2)
                 PROVE  at[g] = "off" /\ queued[g] = {}
      BY <2>1, Zenon DEF DeadAreQuiet
    <3>1. CASE g = f
      BY <2>1, <2>2, <3>1
    <3>2. CASE g # f
      BY <2>1, <3>2 DEF DeadAreQuiet
    <3>3. QED
      BY <3>1, <3>2
  <2>5. QED
    BY <2>3, <2>4
<1>3. QED
  BY <1>1, <1>2, SetUpKeepsLifeInv, EndKeepsLifeInv, EnterKeepsLifeInv, BodyKeepsLifeInv
     DEF Next, ModuleStep

(* The invariant is inductive.                                             *)
LEMMA IInvInductive == Spec => []IInv
<1>1. Init => IInv
  <2> SUFFICES ASSUME Init
               PROVE  IInv
    OBVIOUS
  <2>1. /\ stack = [c \in CPUs |-> <<>>] /\ spinlock = <<>>
        /\ <<>> \in Seq(Functions) /\ Len(<<>>) = 0
    BY EmptySeq DEF Init
  <2>2. TypeOK
    <3>1. stack \in [CPUs -> Seq(Functions)] /\ spinlock \in Seq(Functions)
      BY <2>1
    <3>2. value \in 0 .. Wrap - 1 /\ increments \in 0 .. Wrap - 1 /\ presses \in 0 .. MaxPresses
          /\ reg \in [Functions -> 0 .. Wrap - 1]
      BY DEF Init
    <3>3. /\ queued \in [Functions -> SUBSET CPUs]
          /\ at \in [Functions -> {"off", "enter", "leave"} \cup Contending]
      BY DEF Init
    <3>4. QED
      BY <3>1, <3>2, <3>3 DEF Init, TypeOK, Functions
  <2>3. StackInv
    BY <2>1 DEF StackInv, StackedRun, StackedOnce, HigherRank, MaskedStayOut
  <2>4. at = [f \in Functions |-> "off"]
    BY DEF Init
  <2>5. LockInv /\ LoadedIsCurrent /\ NoLostUpdate
    BY <2>1, <2>4 DEF Init, LockInv, QueueHoldsContenders, QueuedOnce, HeadHolds, Holding,
                      Contending, LoadedIsCurrent, NoLostUpdate
  <2>6. LifeInv
    BY <2>4 DEF Init, LifeInv, OnlyTaskletsQueue, DeadAreQuiet, LifeFollowsPhase
  <2>7. QED
    BY <2>2, <2>3, <2>5, <2>6 DEF IInv
<1>2. IInv /\ [Next]_vars => IInv'
  BY TypeOKKept, StackInvKept, LockInvKept, CountsKept, LifeInvKept DEF IInv
<1>3. QED
  BY <1>1, <1>2, PTL DEF Spec

-----------------------------------------------------------------------------
(* Every variable of SpinPrograms keeps its type: value stays an int.      *)
THEOREM SpinTypeCorrect == Spec => []TypeOK
<1>1. IInv => TypeOK
  BY DEF IInv
<1>2. QED
  BY <1>1, IInvInductive, PTL

(* Whatever contexts increment value, and on how many CPUs, the lock loses *)
(* none of the increments.                                                 *)
THEOREM SpinLosesNoUpdate == Spec => []NoLostUpdate
<1>1. IInv => NoLostUpdate
  BY DEF IInv
<1>2. QED
  BY <1>1, IInvInductive, PTL

(* Nobody spins for the lock on top of a context of its own CPU that holds *)
(* it or waits for it: what could come on top is masked by the lock's      *)
(* variant before the function spins.                                      *)
THEOREM LockFitsContexts == Spec => []NoSelfDeadlock
<1>1. IInv => NoSelfDeadlock
  <2> SUFFICES ASSUME IInv, NEW c \in CPUs,
                      NEW i \in 1 .. Len(stack[c]), NEW j \in 1 .. Len(stack[c]),
                      i < j, at[stack[c][i]] \in Contending
               PROVE  FALSE
    BY DEF NoSelfDeadlock
  <2>1. stack[c][i] \in Functions /\ stack[c][j] \in Functions
    BY ElementOfSeq DEF IInv, TypeOK
  <2>2. Rank[Kind(stack[c][i])] < Rank[Kind(stack[c][j])]
    BY DEF IInv, StackInv, HigherRank
  <2>3. Kind(stack[c][j]) \in program.masks
    BY <2>1, <2>2, ProgramFacts DEF IInv, TypeOK
  <2>4. QED
    BY <2>3 DEF IInv, StackInv, MaskedStayOut
<1>2. QED
  BY <1>1, IInvInductive, PTL

(* What is left after rmmod, or after an init that failed, is only what    *)
(* the first program leaves.                                               *)
THEOREM NothingSpinsWhenGone == Spec => []QuiescentWhenGone
<1>1. IInv => QuiescentWhenGone
  <2> SUFFICES ASSUME IInv, phase \in {"gone", "failed"}, NEW f \in Functions, ~MayRemain(f)
               PROVE  f \notin alive /\ at[f] = "off" /\ queued[f] = {}
    BY DEF QuiescentWhenGone
  <2> USE DEF IInv, LifeInv
  <2>1. /\ step \in Functions /\ alive \subseteq Functions
        /\ \A g \in program.fails : g = 1 \/ (program = IrqAndTasklet /\ g = 2)
        /\ program = IrqAndTasklet => Kind(2) = "tasklet"
    BY ProgramFacts DEF TypeOK
  <2>2. ~(program = IrqAndTasklet /\ f = 2)
    BY <2>1 DEF MayRemain
  <2>3. f \notin alive
    <3>1. CASE phase = "gone"
      BY <3>1 DEF LifeFollowsPhase
    <3>2. CASE phase = "failed"
      <4>1. step = 1
        BY <2>1, <3>2 DEF LifeFollowsPhase, MayRemain
      <4>2. QED
        BY <3>2, <4>1 DEF LifeFollowsPhase
    <3>3. QED
      BY <3>1, <3>2
  <2>4. QED
    BY <2>2, <2>3 DEF DeadAreQuiet
<1>2. QED
  BY <1>1, IInvInductive, PTL

=============================================================================
