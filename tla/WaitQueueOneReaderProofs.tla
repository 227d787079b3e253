---------------------- MODULE WaitQueueOneReaderProofs ----------------------
(***************************************************************************)
(* With one reading process the wait-queue device implements EventFlag,    *)
(* whatever the number of writers, the buffer's size and the lengths.      *)
(***************************************************************************)
EXTENDS WaitQueueOneReader, WaitQueueProofs

(* The only process that lowers the flag is the one that passed the wait:  *)
(* while it copies, the flag it saw is still up.                           *)
FlagStaysUp == pc[Reader] = "copy" => data_available = 1

(* No step lowers the flag under a reader that copies.                     *)
LEMMA FlagInvariant == Spec => []FlagStaysUp
<1>1. Init => FlagStaysUp
  BY OneReaderAssumption DEF Init, FlagStaysUp
<1>2. TypeOK /\ FlagStaysUp /\ [Next]_vars => FlagStaysUp'
  <2> SUFFICES ASSUME TypeOK, FlagStaysUp, [Next]_vars
               PROVE  FlagStaysUp'
    OBVIOUS
  <2>1. pc \in [Readers \cup Writers -> ReadPCs \cup WritePCs]
    BY DEF TypeOK
  <2> USE OneReaderAssumption DEF FlagStaysUp, Goto
  <2>2. ASSUME NEW r \in Readers, ReadCall(r) \/ ReadStep(r) \/ Signal(r)
        PROVE  FlagStaysUp'
    <3>1. CASE ReadCall(r) \/ WaitCheck(r) \/ PrepareToWait(r) \/ WaitRecheck(r)
      BY <2>1, <3>1 DEF ReadCall, WaitCheck, PrepareToWait, WaitRecheck
    <3>2. CASE \/ WakeFromSchedule(r) \/ CopyToUser(r) \/ CopyToUserFault(r)
               \/ ReadReturn(r) \/ Signal(r)
      BY <2>1, <3>2 DEF WakeFromSchedule, CopyToUser, CopyToUserFault, ReadReturn,
                        Signal
    <3>3. QED
      BY <2>2, <3>1, <3>2 DEF ReadStep
  <2>3. ASSUME NEW w \in Writers, WriteCall(w) \/ WriteStep(w)
        PROVE  FlagStaysUp'
    BY <2>1, <2>3 DEF WriteCall, WriteStep, CopyFromUser, CopyFromUserFault,
                      WriteTerminate, SetDataAvailable, WakeUp
  <2>4. CASE UNCHANGED vars
    BY <2>4 DEF vars
  <2>5. QED
    BY <2>2, <2>3, <2>4 DEF Next
<1>3. QED
  BY <1>1, <1>2, WaitQueueTypeCorrect, PTL DEF Spec

(* Setting data_available is a Publish, a successful read is a Serve, and  *)
(* every other step leaves the flag and the number of servings alone.      *)
THEOREM ImplementsEventFlag == Spec => IsEventFlag
<1>1. Init => Flag!Init
  BY OneReaderAssumption DEF Init, Flag!Init
<1>2. TypeOK /\ FlagStaysUp /\ [Next]_vars
        => [Flag!Next]_<<data_available = 1, published, served[Reader]>>
  <2> SUFFICES ASSUME TypeOK, FlagStaysUp, [Next]_vars
               PROVE  [Flag!Next]_<<data_available = 1, published, served[Reader]>>
    OBVIOUS
  <2>1. served \in [Readers -> Nat]
    BY DEF TypeOK
  <2>2. CASE ReadReturn(Reader)
    BY <2>1, <2>2, OneReaderAssumption
    DEF ReadReturn, Goto, writeVars, FlagStaysUp, Flag!Next, Flag!Serve
  <2>3. ASSUME NEW w \in Writers, SetDataAvailable(w)
        PROVE  Flag!Next
    BY <2>3 DEF SetDataAvailable, readVars, Flag!Next, Flag!Publish
  <2>4. CASE \/ ReadCall(Reader) \/ WaitCheck(Reader) \/ PrepareToWait(Reader)
             \/ WaitRecheck(Reader) \/ WakeFromSchedule(Reader)
             \/ CopyToUser(Reader) \/ CopyToUserFault(Reader) \/ Signal(Reader)
    BY <2>4 DEF ReadCall, WaitCheck, PrepareToWait, WaitRecheck, WakeFromSchedule,
                CopyToUser, CopyToUserFault, Signal, readVars, writeVars
  <2>5. ASSUME NEW w \in Writers,
               \/ WriteCall(w) \/ CopyFromUser(w) \/ CopyFromUserFault(w)
               \/ WriteTerminate(w) \/ WakeUp(w)
        PROVE  UNCHANGED <<data_available, published, served>>
    BY <2>5 DEF WriteCall, CopyFromUser, CopyFromUserFault, WriteTerminate, WakeUp,
                readVars, writeVars
  <2>6. CASE UNCHANGED vars
    BY <2>6 DEF vars, readVars, writeVars
  <2>7. QED
    BY <2>2, <2>3, <2>4, <2>5, <2>6, OneReaderAssumption
    DEF Next, ReadStep, WriteStep
<1>3. QED
  BY <1>1, <1>2, FlagInvariant, WaitQueueTypeCorrect, PTL
  DEF Spec, IsEventFlag, Flag!Spec

=============================================================================
