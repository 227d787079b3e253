--------------------------- MODULE WaitQueueProofs ---------------------------
(***************************************************************************)
(* WaitQueueDevice keeps its types, its buffer's terminator, every wake-up *)
(* and never serves a reader twice from one publication, for every number  *)
(* of readers and writers, every buffer size and every length asked for.   *)
(***************************************************************************)
EXTENDS WaitQueueDevice, TLAPS

USE ProcessAssumption, SizeAssumption DEF Cells, Msgs, Nul

LEMMA ClampInCells == \A n \in Nat : Clamp(n) \in Cells
BY DEF Clamp

LEMMA LenInNat ==
  ASSUME TypeOK, NEW r \in Readers
  PROVE  len[r] \in Nat
<1>1. len \in [Readers -> ReadLens \cup {0}]
  BY ZenonT(20) DEF TypeOK
<1>2. ReadLens \cup {0} \subseteq Nat
  OBVIOUS
<1>3. QED
  BY <1>1, <1>2

(* Every variable of WaitQueueDevice keeps its type.                       *)
THEOREM WaitQueueTypeCorrect == Spec => []TypeOK
<1>1. Init => TypeOK
  <2> SUFFICES ASSUME Init
               PROVE  TypeOK
    OBVIOUS
  <2>1. EmptyBuffer \in [Cells -> Msgs \cup {Nul}]
    BY DEF EmptyBuffer
  <2>2. user_buffer \in [Readers -> [Cells -> Msgs \cup {Nul}]]
    BY <2>1 DEF Init
  <2>3. /\ pc \in [Readers \cup Writers -> ReadPCs \cup WritePCs]
        /\ \A r \in Readers : pc[r] \in ReadPCs
        /\ \A w \in Writers : pc[w] \in WritePCs
    BY DEF Init, ReadPCs, WritePCs
  <2>4. /\ leng \in [Writers -> Cells] /\ wpos \in [Writers -> Cells]
        /\ wmsg \in [Writers -> Msgs \cup {Nul}]
        /\ len \in [Readers -> ReadLens \cup {0}]
        /\ rpos \in [Readers -> 0 .. Cap] /\ served \in [Readers -> Nat]
    BY DEF Init
  <2>5. written \in 0 .. MaxWrites /\ published \in Nat /\ lastLen \in Cells
    BY DEF Init
  <2>6. /\ mixed \in BOOLEAN /\ data_available \in {0, 1}
        /\ wait_queue \subseteq Readers /\ signalled \subseteq Readers
    BY DEF Init
  <2>7. kernel_buffer \in [Cells -> Msgs \cup {Nul}]
    BY <2>1 DEF Init
  <2>8. QED
    BY <2>2, <2>3, <2>4, <2>5, <2>6, <2>7 DEF TypeOK
<1>2. TypeOK /\ [Next]_vars => TypeOK'
  <2> SUFFICES ASSUME TypeOK, [Next]_vars
               PROVE  TypeOK'
    OBVIOUS
  <2> USE DEF TypeOK, ReadPCs, WritePCs, Goto, readVars, writeVars
  <2>1. ASSUME NEW r \in Readers, ReadCall(r) \/ ReadStep(r) \/ Signal(r)
        PROVE  TypeOK'
    <3>1. CASE ReadCall(r)
      <4>1. /\ pc' \in [Readers \cup Writers -> ReadPCs \cup WritePCs]
            /\ \A q \in Readers : pc'[q] \in ReadPCs
            /\ \A w \in Writers : pc'[w] \in WritePCs
        BY <3>1 DEF ReadCall
      <4>2. /\ len' \in [Readers -> ReadLens \cup {0}]
            /\ rpos' \in [Readers -> 0 .. Cap]
        BY <3>1 DEF ReadCall
      <4>3. user_buffer' \in [Readers -> [Cells -> Msgs \cup {Nul}]]
        BY <3>1 DEF ReadCall, EmptyBuffer
      <4>4. UNCHANGED <<kernel_buffer, data_available, wait_queue, signalled,
                        served, writeVars>>
        BY <3>1 DEF ReadCall
      <4>5. QED
        BY <4>1, <4>2, <4>3, <4>4
    <3>2. CASE WaitCheck(r)
      <4>1. PICK to \in {"copy", "prepare"} : Goto(r, "check", to)
        BY <3>2 DEF WaitCheck
      <4>2. /\ pc' \in [Readers \cup Writers -> ReadPCs \cup WritePCs]
            /\ \A q \in Readers : pc'[q] \in ReadPCs
            /\ \A w \in Writers : pc'[w] \in WritePCs
        BY <4>1
      <4>3. UNCHANGED <<kernel_buffer, data_available, wait_queue, readVars,
                        writeVars>>
        BY <3>2 DEF WaitCheck
      <4>4. QED
        BY <4>2, <4>3
    <3>3. CASE PrepareToWait(r)
      <4>1. PICK to \in {"recheck", "interrupted"} : Goto(r, "prepare", to)
        BY <3>3 DEF PrepareToWait
      <4>2. /\ pc' \in [Readers \cup Writers -> ReadPCs \cup WritePCs]
            /\ \A q \in Readers : pc'[q] \in ReadPCs
            /\ \A w \in Writers : pc'[w] \in WritePCs
        BY <4>1
      <4>3. wait_queue' \subseteq Readers
        BY <3>3 DEF PrepareToWait
      <4>4. UNCHANGED <<kernel_buffer, data_available, readVars, writeVars>>
        BY <3>3 DEF PrepareToWait
      <4>5. QED
        BY <4>2, <4>3, <4>4
    <3>4. CASE WaitRecheck(r)
      <4>1. PICK from \in {"recheck", "interrupted"}, to \in {"copy", "sleep", "idle"} :
              Goto(r, from, to)
        BY <3>4 DEF WaitRecheck
      <4>2. /\ pc' \in [Readers \cup Writers -> ReadPCs \cup WritePCs]
            /\ \A q \in Readers : pc'[q] \in ReadPCs
            /\ \A w \in Writers : pc'[w] \in WritePCs
        BY <4>1
      <4>3. wait_queue' \subseteq Readers /\ signalled' \subseteq Readers
        BY <3>4 DEF WaitRecheck
      <4>4. UNCHANGED <<kernel_buffer, data_available, len, rpos, user_buffer,
                        served, writeVars>>
        BY <3>4 DEF WaitRecheck
      <4>5. QED
        BY <4>2, <4>3, <4>4
    <3>5. CASE WakeFromSchedule(r)
      BY <3>5 DEF WakeFromSchedule
    <3>6. CASE CopyToUser(r)
      <4>1. len[r] \in Nat
        BY LenInNat
      <4>2. rpos[r] \in Cells /\ rpos[r] + 1 \in 0 .. Cap
        BY <3>6, <4>1 DEF CopyToUser
      <4>3. user_buffer' \in [Readers -> [Cells -> Msgs \cup {Nul}]]
        BY <3>6, <4>2 DEF CopyToUser
      <4>4. QED
        BY <3>6, <4>2, <4>3 DEF CopyToUser
    <3>7. CASE CopyToUserFault(r)
      BY <3>7 DEF CopyToUserFault
    <3>8. CASE ReadReturn(r)
      BY <3>8 DEF ReadReturn
    <3>9. CASE Signal(r)
      BY <3>9 DEF Signal
    <3>10. QED
      BY <2>1, <3>1, <3>2, <3>3, <3>4, <3>5, <3>6, <3>7, <3>8, <3>9 DEF ReadStep
  <2>2. ASSUME NEW w \in Writers, WriteCall(w) \/ WriteStep(w)
        PROVE  TypeOK'
    <3>1. CASE WriteCall(w)
      <4>1. leng' \in [Writers -> Cells] /\ lastLen' \in Cells
        <5>1. PICK n \in WriteLens : /\ leng' = [leng EXCEPT ![w] = Clamp(n)]
                                     /\ lastLen' = Clamp(n)
          BY <3>1 DEF WriteCall
        <5>2. Clamp(n) \in Cells
          BY ClampInCells
        <5>3. leng \in [Writers -> Cells]
          OBVIOUS
        <5>4. QED
          BY <5>1, <5>2, <5>3
      <4>2. written' \in 0 .. MaxWrites /\ wmsg' \in [Writers -> Msgs \cup {Nul}]
        BY <3>1 DEF WriteCall
      <4>3. /\ pc' \in [Readers \cup Writers -> ReadPCs \cup WritePCs]
            /\ \A q \in Readers : pc'[q] \in ReadPCs
            /\ \A v \in Writers : pc'[v] \in WritePCs
        BY <3>1 DEF WriteCall
      <4>4. /\ wpos' \in [Writers -> Cells]
            /\ UNCHANGED <<kernel_buffer, data_available, wait_queue, readVars,
                           published>>
        BY <3>1 DEF WriteCall
      <4>5. mixed' \in BOOLEAN
        BY <3>1 DEF WriteCall
      <4>6. QED
        BY <4>1, <4>2, <4>3, <4>4, <4>5
    <3>2. CASE CopyFromUser(w)
      BY <3>2 DEF CopyFromUser
    <3>3. CASE CopyFromUserFault(w)
      BY <3>3 DEF CopyFromUserFault
    <3>4. CASE WriteTerminate(w)
      BY <3>4 DEF WriteTerminate
    <3>5. CASE SetDataAvailable(w)
      BY <3>5 DEF SetDataAvailable
    <3>6. CASE WakeUp(w)
      BY <3>6 DEF WakeUp
    <3>7. QED
      BY <2>2, <3>1, <3>2, <3>3, <3>4, <3>5, <3>6 DEF WriteStep
  <2>3. CASE UNCHANGED vars
    BY <2>3 DEF vars
  <2>4. QED
    BY <2>1, <2>2, <2>3 DEF Next
<1>3. QED
  BY <1>1, <1>2, PTL DEF Spec

-----------------------------------------------------------------------------
(* The last cell of kernel_buffer is '\0' in every state: copies of a      *)
(* clamped message never reach it, and no other statement writes it.       *)
THEOREM AlwaysTerminated == Spec => []BufferTerminated
<1>1. Init => BufferTerminated
  BY DEF Init, EmptyBuffer, BufferTerminated
<1>2. TypeOK /\ BufferTerminated /\ [Next]_vars => BufferTerminated'
  <2> SUFFICES ASSUME TypeOK, BufferTerminated, [Next]_vars
               PROVE  BufferTerminated'
    OBVIOUS
  <2> USE DEF BufferTerminated
  <2>1. ASSUME NEW w \in Writers,
               CopyFromUser(w) \/ CopyFromUserFault(w) \/ WriteTerminate(w)
        PROVE  BufferTerminated'
    <3>1. /\ kernel_buffer \in [Cells -> Msgs \cup {Nul}]
          /\ leng[w] \in Cells /\ wpos[w] \in Cells
      BY DEF TypeOK
    <3>2. QED
      BY <2>1, <3>1 DEF CopyFromUser, CopyFromUserFault, WriteTerminate
  <2>2. ASSUME UNCHANGED kernel_buffer
        PROVE  BufferTerminated'
    BY <2>2
  <2>3. ASSUME NEW r \in Readers, ReadCall(r) \/ ReadStep(r) \/ Signal(r)
        PROVE  UNCHANGED kernel_buffer
    BY <2>3 DEF ReadCall, ReadStep, Signal, WaitCheck, PrepareToWait, WaitRecheck,
                WakeFromSchedule, CopyToUser, CopyToUserFault, ReadReturn
  <2>4. ASSUME NEW w \in Writers, WriteCall(w) \/ SetDataAvailable(w) \/ WakeUp(w)
        PROVE  UNCHANGED kernel_buffer
    BY <2>4 DEF WriteCall, SetDataAvailable, WakeUp
  <2>5. QED
    BY <2>1, <2>2, <2>3, <2>4 DEF Next, WriteStep, vars
<1>3. QED
  BY <1>1, <1>2, WaitQueueTypeCorrect, PTL DEF Spec

-----------------------------------------------------------------------------
(* A reader asleep on the queue while data is available is about to be     *)
(* woken: the reader queues itself before it tests data_available again,   *)
(* and driver_write sets the flag before it empties the queue.             *)
THEOREM NoWakeupLost == Spec => []NoLostWakeup
<1>1. Init => NoLostWakeup
  BY DEF Init, NoLostWakeup
<1>2. TypeOK /\ NoLostWakeup /\ [Next]_vars => NoLostWakeup'
  <2> SUFFICES ASSUME TypeOK, NoLostWakeup, [Next]_vars
               PROVE  NoLostWakeup'
    OBVIOUS
  <2> DEFINE pcs == pc \in [Readers \cup Writers -> ReadPCs \cup WritePCs]
  <2>1. pcs
    BY DEF TypeOK
  <2> USE DEF NoLostWakeup, Goto
  <2>2. ASSUME NEW r \in Readers, ReadCall(r) \/ ReadStep(r) \/ Signal(r)
        PROVE  NoLostWakeup'
    <3>1. CASE ReadCall(r) \/ WaitCheck(r) \/ PrepareToWait(r) \/ WaitRecheck(r)
      BY <2>1, <3>1 DEF ReadCall, WaitCheck, PrepareToWait, WaitRecheck
    <3>2. CASE \/ WakeFromSchedule(r) \/ CopyToUser(r) \/ CopyToUserFault(r)
               \/ ReadReturn(r) \/ Signal(r)
      BY <2>1, <3>2 DEF WakeFromSchedule, CopyToUser, CopyToUserFault, ReadReturn,
                        Signal
    <3>3. QED
      BY <2>2, <3>1, <3>2 DEF ReadStep
  <2>3. ASSUME NEW w \in Writers, WriteCall(w) \/ WriteStep(w)
        PROVE  NoLostWakeup'
    BY <2>1, <2>3 DEF WriteCall, WriteStep, CopyFromUser, CopyFromUserFault,
                      WriteTerminate, SetDataAvailable, WakeUp
  <2>4. CASE UNCHANGED vars
    BY <2>4 DEF vars
  <2>5. QED
    BY <2>2, <2>3, <2>4 DEF Next
<1>3. QED
  BY <1>1, <1>2, WaitQueueTypeCorrect, PTL DEF Spec

-----------------------------------------------------------------------------
(* What NoReplay rests on: a reader that has passed the wait, or could     *)
(* pass it now, has not been served since data_available was last set.     *)
ServingInv ==
  /\ TypeOK
  /\ NoReplay
  /\ data_available = 1 => \A r \in Readers : served[r] < published
  /\ \A r \in Readers : pc[r] = "copy" => served[r] < published

(* No reader is served twice from one publication of data.                 *)
THEOREM NoReaderReplays == Spec => []NoReplay
<1>1. Init /\ TypeOK => ServingInv
  BY DEF Init, ServingInv, NoReplay
<1>2. TypeOK' /\ ServingInv /\ [Next]_vars => ServingInv'
  <2> SUFFICES ASSUME TypeOK', ServingInv, [Next]_vars
               PROVE  ServingInv'
    OBVIOUS
  <2>1. /\ pc \in [Readers \cup Writers -> ReadPCs \cup WritePCs]
        /\ served \in [Readers -> Nat] /\ published \in Nat
    BY DEF ServingInv, TypeOK
  <2> USE DEF ServingInv, NoReplay, Goto
  <2>2. ASSUME NEW r \in Readers, ReadCall(r) \/ ReadStep(r) \/ Signal(r)
        PROVE  ServingInv'
    <3>1. CASE ReadReturn(r)
      BY <2>1, <3>1 DEF ReadReturn, writeVars
    <3>2. CASE ReadCall(r) \/ WaitCheck(r) \/ PrepareToWait(r) \/ WaitRecheck(r)
      BY <2>1, <3>2 DEF ReadCall, WaitCheck, PrepareToWait, WaitRecheck, readVars,
                        writeVars
    <3>3. CASE WakeFromSchedule(r) \/ CopyToUser(r) \/ CopyToUserFault(r) \/ Signal(r)
      BY <2>1, <3>3 DEF WakeFromSchedule, CopyToUser, CopyToUserFault, Signal,
                        readVars, writeVars
    <3>4. QED
      BY <2>2, <3>1, <3>2, <3>3 DEF ReadStep
  <2>3. ASSUME NEW w \in Writers, WriteCall(w) \/ WriteStep(w)
        PROVE  ServingInv'
    <3>1. CASE SetDataAvailable(w)
      BY <2>1, <3>1 DEF SetDataAvailable, readVars
    <3>2. CASE \/ WriteCall(w) \/ CopyFromUser(w) \/ CopyFromUserFault(w)
               \/ WriteTerminate(w) \/ WakeUp(w)
      BY <2>1, <3>2 DEF WriteCall, CopyFromUser, CopyFromUserFault, WriteTerminate,
                        WakeUp, readVars, writeVars
    <3>3. QED
      BY <2>3, <3>1, <3>2 DEF WriteStep
  <2>4. CASE UNCHANGED vars
    BY <2>4 DEF vars, readVars, writeVars
  <2>5. QED
    BY <2>2, <2>3, <2>4 DEF Next
<1>3. ServingInv => NoReplay
  BY DEF ServingInv
<1>4. QED
  BY <1>1, <1>2, <1>3, WaitQueueTypeCorrect, PTL DEF Spec

-----------------------------------------------------------------------------
(* While the last write overlaps no other and has not failed, it is the    *)
(* only one that copies, and what it has copied is what stands there.      *)
CopiesAlone ==
  ~mixed => \A w \in Writers : pc[w] = "copyin" =>
    /\ wmsg[w] = written /\ leng[w] = lastLen /\ wpos[w] <= leng[w]
    /\ \A i \in 0 .. wpos[w] - 1 : kernel_buffer[i] = written
    /\ \A v \in Writers \ {w} : pc[v] # "copyin"

LastWriteInv == CopiesAlone /\ BufferHoldsLastWrite

(* Steps that copy nothing, nor begin or end a copy.                       *)
LEMMA OthersKeepLastWrite ==
  ASSUME LastWriteInv, UNCHANGED <<kernel_buffer, leng, wpos, wmsg, written, lastLen, mixed>>,
         \A w \in Writers : pc'[w] = "copyin" <=> pc[w] = "copyin"
  PROVE  LastWriteInv'
<1>1. CopiesAlone'
  <2> SUFFICES ASSUME ~mixed, NEW w \in Writers, pc'[w] = "copyin"
               PROVE  /\ wmsg[w] = written /\ leng[w] = lastLen /\ wpos[w] <= leng[w]
                      /\ \A i \in 0 .. wpos[w] - 1 : kernel_buffer[i] = written
                      /\ \A v \in Writers \ {w} : pc'[v] # "copyin"
    BY DEF CopiesAlone
  <2>1. pc[w] = "copyin"
    OBVIOUS
  <2>2. QED
    BY <2>1 DEF LastWriteInv, CopiesAlone
<1>2. BufferHoldsLastWrite'
  BY DEF LastWriteInv, BufferHoldsLastWrite
<1>3. QED
  BY <1>1, <1>2 DEF LastWriteInv

LEMMA WritesKeepLastWrite ==
  ASSUME TypeOK, LastWriteInv, NEW w \in Writers,
         WriteCall(w) \/ CopyFromUser(w) \/ CopyFromUserFault(w) \/ WriteTerminate(w)
  PROVE  LastWriteInv'
<1>1. /\ pc \in [Readers \cup Writers -> ReadPCs \cup WritePCs]
      /\ kernel_buffer \in [Cells -> Msgs \cup {Nul}]
      /\ leng \in [Writers -> Cells] /\ wpos \in [Writers -> Cells]
      /\ wmsg \in [Writers -> Msgs \cup {Nul}]
      /\ written \in Nat /\ lastLen \in Cells
  BY DEF TypeOK
<1>2. CASE WriteCall(w)
  <2>1. PICK n \in WriteLens : leng' = [leng EXCEPT ![w] = Clamp(n)] /\ lastLen' = Clamp(n)
    BY <1>2 DEF WriteCall
  <2>2. /\ pc' = [pc EXCEPT ![w] = "copyin"]
        /\ wpos' = [wpos EXCEPT ![w] = 0]
        /\ wmsg' = [wmsg EXCEPT ![w] = written + 1]
        /\ written' = written + 1
        /\ ~mixed' => \A v \in Writers \ {w} : pc[v] # "copyin"
    BY <1>2 DEF WriteCall, Goto
  <2>3. pc'[w] = "copyin" /\ \A v \in Writers \ {w} : pc'[v] = pc[v]
    BY <1>1, <2>2
  <2>4. Clamp(n) \in Nat
    BY ClampInCells DEF Cells
  <2>5. wmsg'[w] = written' /\ leng'[w] = lastLen' /\ wpos'[w] = 0 /\ wpos'[w] <= leng'[w]
    BY <1>1, <2>1, <2>2, <2>4
  <2>6. CopiesAlone'
    BY <2>2, <2>3, <2>5 DEF CopiesAlone
  <2>7. BufferHoldsLastWrite'
    BY <2>3 DEF BufferHoldsLastWrite
  <2>8. QED
    BY <2>6, <2>7 DEF LastWriteInv
<1>3. CASE CopyFromUser(w)
  <2>1. /\ pc[w] = "copyin" /\ wpos[w] < leng[w]
        /\ kernel_buffer' = [kernel_buffer EXCEPT ![wpos[w]] = wmsg[w]]
        /\ wpos' = [wpos EXCEPT ![w] = @ + 1]
        /\ UNCHANGED <<pc, leng, wmsg, written, lastLen, mixed>>
    BY <1>3 DEF CopyFromUser
  <2>2. CopiesAlone'
    <3> SUFFICES ASSUME ~mixed, NEW v \in Writers, pc[v] = "copyin"
                 PROVE  /\ wmsg[v] = written /\ leng[v] = lastLen /\ wpos'[v] <= leng[v]
                        /\ \A i \in 0 .. wpos'[v] - 1 : kernel_buffer'[i] = written
                        /\ \A u \in Writers \ {v} : pc[u] # "copyin"
      BY <2>1 DEF CopiesAlone
    <3>1. v = w
      BY <2>1 DEF LastWriteInv, CopiesAlone
    <3>2. /\ wmsg[w] = written /\ leng[w] = lastLen
          /\ \A i \in 0 .. wpos[w] - 1 : kernel_buffer[i] = written
          /\ \A u \in Writers \ {w} : pc[u] # "copyin"
      BY <2>1 DEF LastWriteInv, CopiesAlone
    <3>3. wpos[w] \in Nat /\ leng[w] \in Nat /\ wpos'[w] = wpos[w] + 1 /\ wpos[w] \in Cells
      BY <1>1, <2>1 DEF Cells
    <3>4. \A i \in 0 .. wpos[w] : kernel_buffer'[i] = written
      <4> SUFFICES ASSUME NEW i \in 0 .. wpos[w]
                   PROVE  kernel_buffer'[i] = written
        OBVIOUS
      <4>1. i \in Cells
        BY <3>3 DEF Cells
      <4>2. CASE i = wpos[w]
        BY <1>1, <2>1, <3>2, <4>1, <4>2
      <4>3. CASE i # wpos[w]
        BY <1>1, <2>1, <3>2, <3>3, <4>1, <4>3
      <4>4. QED
        BY <4>2, <4>3
    <3>5. QED
      BY <2>1, <3>1, <3>2, <3>3, <3>4
  <2>3. BufferHoldsLastWrite'
    BY <2>1 DEF BufferHoldsLastWrite
  <2>4. QED
    BY <2>2, <2>3 DEF LastWriteInv
<1>4. CASE CopyFromUserFault(w)
  <2>1. mixed'
    BY <1>4 DEF CopyFromUserFault
  <2>2. QED
    BY <2>1 DEF LastWriteInv, CopiesAlone, BufferHoldsLastWrite
<1>5. CASE WriteTerminate(w)
  <2>1. /\ pc[w] = "copyin" /\ wpos[w] = leng[w] /\ pc' = [pc EXCEPT ![w] = "set"]
        /\ kernel_buffer' = [kernel_buffer EXCEPT ![leng[w]] = Nul]
        /\ UNCHANGED <<leng, wpos, wmsg, written, lastLen, mixed>>
    BY <1>5 DEF WriteTerminate, Goto, writeVars
  <2>2. ~mixed => \A v \in Writers : pc'[v] # "copyin"
    BY <1>1, <2>1 DEF LastWriteInv, CopiesAlone
  <2>3. CopiesAlone'
    BY <2>1, <2>2 DEF CopiesAlone
  <2>4. BufferHoldsLastWrite'
    <3> SUFFICES ASSUME ~mixed
                 PROVE  /\ \A i \in 0 .. lastLen - 1 : kernel_buffer'[i] = written
                        /\ kernel_buffer'[lastLen] = Nul
      BY <2>1 DEF BufferHoldsLastWrite
    <3>1. /\ leng[w] = lastLen
          /\ \A i \in 0 .. lastLen - 1 : kernel_buffer[i] = written
      BY <2>1 DEF LastWriteInv, CopiesAlone
    <3>2. kernel_buffer' = [kernel_buffer EXCEPT ![lastLen] = Nul]
      BY <2>1, <3>1
    <3>3. \A i \in 0 .. lastLen - 1 : i \in Cells /\ i # lastLen
      BY <1>1 DEF Cells
    <3>4. QED
      BY <1>1, <3>1, <3>2, <3>3
  <2>5. QED
    BY <2>3, <2>4 DEF LastWriteInv
<1>6. QED
  BY <1>2, <1>3, <1>4, <1>5

(* When the last write() overlapped no other one and did not fail, the     *)
(* string in kernel_buffer is exactly its message, however many processes  *)
(* wrote and read before.                                                  *)
THEOREM LastWriteStands == Spec => []BufferHoldsLastWrite
<1>1. Init => LastWriteInv
  BY DEF Init, LastWriteInv, CopiesAlone, BufferHoldsLastWrite
<1>2. TypeOK /\ LastWriteInv /\ [Next]_vars => LastWriteInv'
  <2> SUFFICES ASSUME TypeOK, LastWriteInv, [Next]_vars
               PROVE  LastWriteInv'
    OBVIOUS
  <2>1. pc \in [Readers \cup Writers -> ReadPCs \cup WritePCs]
    BY DEF TypeOK
  <2>2. ASSUME NEW r \in Readers, ReadCall(r) \/ ReadStep(r) \/ Signal(r)
        PROVE  LastWriteInv'
    <3>1. \A w \in Writers : pc'[w] = pc[w]
      BY <2>1, <2>2, ProcessAssumption
      DEF ReadCall, ReadStep, Signal, WaitCheck, PrepareToWait, WaitRecheck,
          WakeFromSchedule, CopyToUser, CopyToUserFault, ReadReturn, Goto
    <3>2. UNCHANGED <<kernel_buffer, writeVars>>
      BY <2>2 DEF ReadCall, ReadStep, Signal, WaitCheck, PrepareToWait, WaitRecheck,
                  WakeFromSchedule, CopyToUser, CopyToUserFault, ReadReturn
    <3>3. QED
      BY <3>1, <3>2, OthersKeepLastWrite DEF writeVars
  <2>3. ASSUME NEW w \in Writers, SetDataAvailable(w) \/ WakeUp(w)
        PROVE  LastWriteInv'
    <3>1. \A v \in Writers : pc'[v] = "copyin" <=> pc[v] = "copyin"
      BY <2>1, <2>3 DEF SetDataAvailable, WakeUp, Goto
    <3>2. UNCHANGED <<kernel_buffer, leng, wpos, wmsg, written, lastLen, mixed>>
      BY <2>3 DEF SetDataAvailable, WakeUp, writeVars
    <3>3. QED
      BY <3>1, <3>2, OthersKeepLastWrite
  <2>4. CASE UNCHANGED vars
    BY <2>4, OthersKeepLastWrite DEF vars, writeVars
  <2>5. QED
    BY <2>2, <2>3, <2>4, WritesKeepLastWrite DEF Next, WriteStep
<1>3. LastWriteInv => BufferHoldsLastWrite
  BY DEF LastWriteInv
<1>4. QED
  BY <1>1, <1>2, <1>3, WaitQueueTypeCorrect, PTL DEF Spec

=============================================================================
