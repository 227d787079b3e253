--------------------------- MODULE PollDeviceProofs ---------------------------
(***************************************************************************)
(* The poll device of A_CHAR_DRIVER/08_POLL: types, what is left after     *)
(* exit, wake-ups and the end of file, for every number of processes, and  *)
(* every length of the message and of the reads.                           *)
(***************************************************************************)
EXTENDS PollDevice, TLAPS

USE SizeAssumption

(* What one read() takes never goes past the end of the message.           *)
LEMMA ReadStaysInside ==
  ASSUME offset \in [Apps -> 0 .. Length], NEW a \in Apps, NEW n \in ReadLens
  PROVE  offset[a] + ReadLen(a, n) \in 0 .. Length
BY DEF ReadLen, Least

(* Every variable of PollDevice keeps its type; no offset leaves the       *)
(* message.                                                                *)
THEOREM PollTypeCorrect == Spec => []TypeOK
<1>1. Init => TypeOK
  <2> SUFFICES ASSUME Init
               PROVE  TypeOK
    OBVIOUS
  <2>1. armed \in BOOLEAN
    BY DEF Init
  <2>2. /\ phase \in Phases /\ callback \in {"idle", "set", "wake"}
        /\ data \in {0, 1}
    BY DEF Init, Phases
  <2>3. my_queue \subseteq Apps /\ triggered \subseteq Apps
    BY DEF Init
  <2>4. app \in [Apps -> AppStates] /\ result \in [Apps -> Results]
    BY DEF Init, AppStates, Results
  <2>5. /\ offset \in [Apps -> 0 .. Length] /\ got \in [Apps -> Nat]
        /\ asked \in [Apps -> ReadLens \cup {0}]
    BY DEF Init
  <2>6. QED
    BY <2>1, <2>2, <2>3, <2>4, <2>5 DEF TypeOK
<1>2. TypeOK /\ [Next]_vars => TypeOK'
  <2> SUFFICES ASSUME TypeOK, [Next]_vars
               PROVE  TypeOK'
    OBVIOUS
  <2> USE DEF TypeOK, Phases, AppStates, Results, timerVars, pollVars, readVars, Goto
  <2>1. CASE InitStep \/ CallExit \/ Exit
    BY <2>1 DEF InitStep, CallExit, Exit
  <2>2. CASE Expire \/ TimerStep
    BY <2>2 DEF Expire, TimerStep, SetData, WakePollers
  <2>3. ASSUME NEW a \in Apps, Open(a) \/ StartTimer(a)
        PROVE  TypeOK'
    <3>1. CASE Open(a)
      BY <3>1 DEF Open
    <3>2. CASE StartTimer(a)
      <4>1. armed' \in BOOLEAN
        BY <3>2 DEF StartTimer
      <4>2. app' \in [Apps -> AppStates]
        BY <3>2 DEF StartTimer
      <4>3. UNCHANGED <<phase, callback, data, pollVars, readVars>>
        BY <3>2 DEF StartTimer
      <4>4. QED
        BY <4>1, <4>2, <4>3
    <3>3. QED
      BY <2>3, <3>1, <3>2
  <2>4. ASSUME NEW a \in Apps, PollWait(a) \/ PollData(a) \/ PollAgain(a) \/ Close(a)
        PROVE  TypeOK'
    BY <2>4 DEF PollWait, PollData, PollAgain, Close
  <2>5. ASSUME NEW a \in Apps, Read(a)
        PROVE  TypeOK'
    <3>1. PICK n \in ReadLens :
            /\ asked' = [asked EXCEPT ![a] = n]
            /\ \/ \E error \in {"again", "fault"} : Fails(a, error)
               \/ Returns(a, 0)
               \/ Returns(a, ReadLen(a, n))
      BY <2>5 DEF Read
    <3>2. offset[a] + ReadLen(a, n) \in 0 .. Length /\ ReadLen(a, n) \in Nat
      <4>1. ReadLen(a, n) \in Nat
        BY DEF ReadLen, Least
      <4>2. QED
        BY <4>1, ReadStaysInside
    <3>3. ASSUME NEW m \in {0, ReadLen(a, n)}, Returns(a, m)
          PROVE  /\ offset' \in [Apps -> 0 .. Length] /\ got' \in [Apps -> Nat]
                 /\ result' \in [Apps -> Results]
      <4>1. offset[a] + m \in 0 .. Length /\ m \in Nat
        BY <3>2
      <4>2. QED
        BY <3>3, <4>1 DEF Returns
    <3>4. ASSUME NEW error \in {"again", "fault"}, Fails(a, error)
          PROVE  /\ offset' \in [Apps -> 0 .. Length] /\ got' \in [Apps -> Nat]
                 /\ result' \in [Apps -> Results]
      BY <3>4 DEF Fails
    <3>5. asked' \in [Apps -> ReadLens \cup {0}]
      BY <3>1
    <3>6. QED
      BY <2>5, <3>1, <3>3, <3>4, <3>5 DEF Read
  <2>6. CASE UNCHANGED vars
    BY <2>6 DEF vars
  <2>7. QED
    BY <2>1, <2>2, <2>3, <2>4, <2>5, <2>6 DEF Next, PollStep
<1>3. QED
  BY <1>1, <1>2, PTL DEF Spec

-----------------------------------------------------------------------------
(* What QuiescentWhenGone rests on: the timer is armed while the module is *)
(* up, and once rmmod has begun no file is open.                           *)
RemovalInv ==
  /\ armed \/ callback # "idle" => phase \in {"live", "exit"}
  /\ phase \in {"exit", "gone"} => \A a \in Apps : app[a] = "closed"

(* After exit no timer is pending, no callback runs and no process is in   *)
(* the driver: open files pin the module, and the timer is deleted.        *)
THEOREM NothingPollsWhenGone == Spec => []QuiescentWhenGone
<1>1. Init => RemovalInv
  BY DEF Init, RemovalInv
<1>2. TypeOK /\ RemovalInv /\ [Next]_vars => RemovalInv'
  <2> SUFFICES ASSUME TypeOK, RemovalInv, [Next]_vars
               PROVE  RemovalInv'
    OBVIOUS
  <2>1. app \in [Apps -> AppStates] /\ phase \in Phases
    BY DEF TypeOK
  <2> USE DEF RemovalInv, Phases, timerVars, pollVars, readVars, Goto
  <2>2. CASE InitStep \/ CallExit \/ Exit
    BY <2>1, <2>2 DEF InitStep, CallExit, Exit
  <2>3. CASE Expire \/ TimerStep
    BY <2>1, <2>3 DEF Expire, TimerStep, SetData, WakePollers
  <2>4. ASSUME NEW a \in Apps,
               Open(a) \/ PollWait(a) \/ PollStep(a) \/ Read(a) \/ Close(a)
        PROVE  RemovalInv'
    <3>1. CASE Open(a)
      BY <2>1, <3>1 DEF Open
    <3>2. CASE StartTimer(a)
      <4>1. phase \notin {"exit", "gone"}
        BY <3>2 DEF StartTimer
      <4>2. (armed' => phase = "live") /\ UNCHANGED <<phase, callback>>
        BY <3>2 DEF StartTimer
      <4>3. QED
        BY <4>1, <4>2
    <3>3. CASE PollWait(a) \/ PollData(a) \/ PollAgain(a) \/ Read(a) \/ Close(a)
      BY <2>1, <3>3 DEF PollWait, PollData, PollAgain, Read, Close
    <3>4. QED
      BY <2>4, <3>1, <3>2, <3>3 DEF PollStep
  <2>5. CASE UNCHANGED vars
    BY <2>5 DEF vars
  <2>6. QED
    BY <2>2, <2>3, <2>4, <2>5 DEF Next
<1>3. RemovalInv => QuiescentWhenGone
  BY DEF RemovalInv, QuiescentWhenGone
<1>4. QED
  BY <1>1, <1>2, <1>3, PollTypeCorrect, PTL DEF Spec

-----------------------------------------------------------------------------
(* What NoLostPollWakeup rests on: who is in poll() is on the queue.       *)
PollersQueued == \A a \in Apps : app[a] \in {"scan", "sleep"} => a \in my_queue

(* No process sleeps in poll(), unwoken, while data is available, unless   *)
(* the callback that set data is about to wake it: poll_wait comes before  *)
(* the test of data, and the callback sets data before it wakes.           *)
THEOREM NoPollWakeupLost == Spec => []NoLostPollWakeup
<1>1. Init => PollersQueued /\ NoLostPollWakeup
  BY DEF Init, PollersQueued, NoLostPollWakeup
<1>2. TypeOK /\ PollersQueued /\ NoLostPollWakeup /\ [Next]_vars
        => PollersQueued' /\ NoLostPollWakeup'
  <2> SUFFICES ASSUME TypeOK, PollersQueued, NoLostPollWakeup, [Next]_vars
               PROVE  PollersQueued' /\ NoLostPollWakeup'
    OBVIOUS
  <2>1. app \in [Apps -> AppStates] /\ data \in {0, 1}
    BY DEF TypeOK
  <2> USE DEF PollersQueued, NoLostPollWakeup, timerVars, pollVars, readVars, Goto
  <2>2. CASE InitStep \/ CallExit \/ Exit
    BY <2>1, <2>2 DEF InitStep, CallExit, Exit
  <2>3. CASE Expire \/ TimerStep
    BY <2>1, <2>3 DEF Expire, TimerStep, SetData, WakePollers
  <2>4. ASSUME NEW a \in Apps,
               Open(a) \/ PollWait(a) \/ PollStep(a) \/ Read(a) \/ Close(a)
        PROVE  PollersQueued' /\ NoLostPollWakeup'
    <3>1. CASE Open(a)
      BY <2>1, <3>1 DEF Open
    <3>2. CASE PollWait(a)
      BY <2>1, <3>2 DEF PollWait
    <3>3. CASE PollData(a)
      BY <2>1, <3>3 DEF PollData
    <3>4. CASE PollAgain(a)
      BY <2>1, <3>4 DEF PollAgain
    <3>5. CASE Close(a)
      BY <2>1, <3>5 DEF Close
    <3>6. CASE StartTimer(a) \/ Read(a)
      BY <2>1, <3>6 DEF StartTimer, Read
    <3>7. QED
      BY <2>4, <3>1, <3>2, <3>3, <3>4, <3>5, <3>6 DEF PollStep
  <2>5. CASE UNCHANGED vars
    BY <2>5 DEF vars
  <2>6. QED
    BY <2>2, <2>3, <2>4, <2>5 DEF Next
<1>3. QED
  BY <1>1, <1>2, PollTypeCorrect, PTL DEF Spec

-----------------------------------------------------------------------------
(* What EndMeansAll rests on: a process has received what its file's       *)
(* offset says.                                                            *)
GotIsOffset == \A a \in Apps : got[a] = offset[a]

(* read() returns 0 to a process that asked for at least one byte only     *)
(* once it has received the whole message, in whatever pieces.             *)
THEOREM EndComesLast == Spec => []EndMeansAll
<1>1. Init => GotIsOffset /\ EndMeansAll
  BY DEF Init, GotIsOffset, EndMeansAll
<1>2. TypeOK /\ GotIsOffset /\ EndMeansAll /\ [Next]_vars => GotIsOffset' /\ EndMeansAll'
  <2> SUFFICES ASSUME TypeOK, GotIsOffset, EndMeansAll, [Next]_vars
               PROVE  GotIsOffset' /\ EndMeansAll'
    OBVIOUS
  <2>1. /\ offset \in [Apps -> 0 .. Length] /\ got \in [Apps -> Nat]
        /\ result \in [Apps -> Results] /\ asked \in [Apps -> ReadLens \cup {0}]
    BY DEF TypeOK
  <2> USE DEF GotIsOffset, EndMeansAll, readVars
  <2>2. ASSUME NEW a \in Apps, Open(a)
        PROVE  GotIsOffset' /\ EndMeansAll'
    BY <2>1, <2>2 DEF Open
  <2>3. ASSUME NEW a \in Apps, Read(a)
        PROVE  GotIsOffset' /\ EndMeansAll'
    <3>1. PICK n \in ReadLens :
            /\ asked' = [asked EXCEPT ![a] = n]
            /\ \/ \E error \in {"again", "fault"} : Fails(a, error)
               \/ AtEnd(a) /\ Returns(a, 0)
               \/ ~AtEnd(a) /\ Returns(a, ReadLen(a, n))
      BY <2>3 DEF Read
    <3>2. CASE \E error \in {"again", "fault"} : Fails(a, error)
      BY <2>1, <3>1, <3>2 DEF Fails, Results
    <3>3. CASE AtEnd(a) /\ Returns(a, 0)
      <4>1. offset' = offset /\ got' = got
        BY <2>1, <3>3 DEF Returns
      <4>2. got[a] = Length
        BY <2>1, <3>3 DEF AtEnd
      <4>3. QED
        BY <2>1, <3>1, <3>3, <4>1, <4>2 DEF Returns
    <3>4. CASE ~AtEnd(a) /\ Returns(a, ReadLen(a, n))
      <4>1. ReadLen(a, n) \in Nat /\ (ReadLen(a, n) = 0 => n = 0)
        BY <2>1, <3>4 DEF ReadLen, Least, AtEnd
      <4>2. GotIsOffset'
        BY <2>1, <3>4, <4>1 DEF Returns
      <4>3. \A b \in Apps \ {a} : /\ result'[b] = result[b] /\ asked'[b] = asked[b]
                                  /\ got'[b] = got[b]
        BY <2>1, <3>1, <3>4 DEF Returns, TypeOK
      <4>4. result'[a] = "zero" => asked'[a] = 0
        BY <2>1, <3>1, <3>4, <4>1 DEF Returns, TypeOK
      <4>5. QED
        BY <4>2, <4>3, <4>4
    <3>5. QED
      BY <3>1, <3>2, <3>3, <3>4
  <2>4. CASE UNCHANGED readVars
    BY <2>4
  <2>5. CASE InitStep \/ CallExit \/ Exit \/ Expire \/ TimerStep
    BY <2>4, <2>5 DEF InitStep, CallExit, Exit, Expire, TimerStep, SetData, WakePollers
  <2>6. ASSUME NEW a \in Apps, PollWait(a) \/ PollStep(a) \/ Close(a)
        PROVE  GotIsOffset' /\ EndMeansAll'
    BY <2>4, <2>6 DEF PollWait, PollStep, StartTimer, PollData, PollAgain, Close
  <2>7. CASE UNCHANGED vars
    BY <2>4, <2>7 DEF vars
  <2>8. QED
    BY <2>2, <2>3, <2>5, <2>6, <2>7 DEF Next
<1>3. QED
  BY <1>1, <1>2, PollTypeCorrect, PTL DEF Spec

=============================================================================
