--------------------------- MODULE WaitQueueDevice ---------------------------
(***************************************************************************)
(* The blocking one-slot device of C_THREAD_AND_SYNCH/07_WAIT_QUEUE: one   *)
(* static kernel_buffer, one flag data_available and one wait queue, shared *)
(* without a lock by every process that calls read() or write().           *)
(*                                                                         *)
(* A call is split at each access to shared state, so calls of different   *)
(* processes interleave as they do on several CPUs.  The kernel's copy     *)
(* routines move one cell per step; a cell stands for a run of bytes.      *)
(***************************************************************************)
EXTENDS Naturals

CONSTANTS
  Readers,     \* processes that call read()
  Writers,     \* processes that call write()
  Cap,         \* sizeof(kernel_buffer), in cells
  ReadLens,    \* values of read()'s length argument
  WriteLens,   \* values of write()'s length argument
  MaxWrites    \* bound: number of write() calls in a behaviour

ASSUME ProcessAssumption == Readers \cap Writers = {}
ASSUME SizeAssumption ==
  /\ Cap \in Nat \ {0}
  /\ ReadLens \subseteq Nat
  /\ WriteLens \subseteq Nat
  /\ MaxWrites \in Nat

Cells == 0 .. Cap - 1     \* indices of kernel_buffer
Nul == 0                  \* the '\0' cell
Msgs == 1 .. MaxWrites    \* the n-th write() call writes cells of value n

VARIABLES
  kernel_buffer,    \* [Cells -> Msgs \cup {Nul}]
  data_available,   \* the wait condition, 0 or 1
  wait_queue,       \* readers queued on it in state TASK_INTERRUPTIBLE
  signalled,        \* readers with a pending signal
  pc,               \* where each process is in its call
  len,              \* driver_read's len
  rpos,             \* cells copied to user space by the current read
  user_buffer,      \* what the current or last read copied out
  leng,             \* driver_write's leng after its clamp
  wpos,             \* cells copied from user space by the current write
  wmsg,             \* the message the current write carries
  \* History variables, read by no action's guard but the bound's:
  written,          \* number of write() calls so far
  published,        \* number of times data_available was set
  served,           \* number of successful reads of each reader
  lastLen,          \* leng of the last write() call
  mixed             \* the last write() overlapped another one, or failed

readVars == <<len, rpos, user_buffer, served, signalled>>
writeVars == <<leng, wpos, wmsg, written, published, lastLen, mixed>>
vars == <<kernel_buffer, data_available, wait_queue, pc, readVars, writeVars>>

ReadPCs == {"idle", "check", "prepare", "recheck", "interrupted", "sleep", "copy"}
WritePCs == {"idle", "copyin", "set", "wake"}

TypeOK ==
  /\ kernel_buffer \in [Cells -> Msgs \cup {Nul}]
  /\ data_available \in {0, 1}
  /\ wait_queue \subseteq Readers
  /\ signalled \subseteq Readers
  /\ pc \in [Readers \cup Writers -> ReadPCs \cup WritePCs]
  /\ \A r \in Readers : pc[r] \in ReadPCs
  /\ \A w \in Writers : pc[w] \in WritePCs
  /\ len \in [Readers -> ReadLens \cup {0}]
  /\ rpos \in [Readers -> 0 .. Cap]
  /\ user_buffer \in [Readers -> [Cells -> Msgs \cup {Nul}]]
  /\ leng \in [Writers -> Cells]
  /\ wpos \in [Writers -> Cells]
  /\ wmsg \in [Writers -> Msgs \cup {Nul}]
  /\ written \in 0 .. MaxWrites
  /\ published \in Nat
  /\ served \in [Readers -> Nat]
  /\ lastLen \in Cells
  /\ mixed \in BOOLEAN

EmptyBuffer == [i \in Cells |-> Nul]

Init ==
  /\ kernel_buffer = EmptyBuffer
  /\ data_available = 0
  /\ wait_queue = {}
  /\ signalled = {}
  /\ pc = [p \in Readers \cup Writers |-> "idle"]
  /\ len = [r \in Readers |-> 0]
  /\ rpos = [r \in Readers |-> 0]
  /\ user_buffer = [r \in Readers |-> EmptyBuffer]
  /\ leng = [w \in Writers |-> 0]
  /\ wpos = [w \in Writers |-> 0]
  /\ wmsg = [w \in Writers |-> Nul]
  /\ written = 0
  /\ published = 0
  /\ served = [r \in Readers |-> 0]
  /\ lastLen = 0
  /\ mixed = FALSE

Goto(p, from, to) ==
  /\ pc[p] = from
  /\ pc' = [pc EXCEPT ![p] = to]

-----------------------------------------------------------------------------
(* driver_read *)

ReadCall(r) ==
  /\ Goto(r, "idle", "check")
  /\ \E n \in ReadLens : len' = [len EXCEPT ![r] = n]
  /\ rpos' = [rpos EXCEPT ![r] = 0]
  /\ user_buffer' = [user_buffer EXCEPT ![r] = EmptyBuffer]
  /\ UNCHANGED <<kernel_buffer, data_available, wait_queue, signalled, served,
                 writeVars>>

(* wait_event_interruptible tests its condition before it queues anyone.   *)
WaitCheck(r) ==
  /\ Goto(r, "check", IF data_available = 1 THEN "copy" ELSE "prepare")
  /\ UNCHANGED <<kernel_buffer, data_available, wait_queue, readVars, writeVars>>

(* prepare_to_wait_event: queue the task, unless a signal is pending.      *)
PrepareToWait(r) ==
  /\ \/ /\ r \notin signalled
        /\ Goto(r, "prepare", "recheck")
        /\ wait_queue' = wait_queue \cup {r}
     \/ /\ r \in signalled
        /\ Goto(r, "prepare", "interrupted")
        /\ wait_queue' = wait_queue \ {r}
  /\ UNCHANGED <<kernel_buffer, data_available, readVars, writeVars>>

(* The condition is tested again once the task is queued: finish_wait if   *)
(* it holds, -ERESTARTSYS to the caller if a signal had come, else sleep.  *)
WaitRecheck(r) ==
  /\ \/ /\ data_available = 1
        /\ \E from \in {"recheck", "interrupted"} : Goto(r, from, "copy")
        /\ wait_queue' = wait_queue \ {r}
        /\ UNCHANGED signalled
     \/ /\ data_available # 1
        /\ Goto(r, "recheck", "sleep")
        /\ UNCHANGED <<wait_queue, signalled>>
     \/ /\ data_available # 1
        /\ Goto(r, "interrupted", "idle")
        /\ signalled' = signalled \ {r}
        /\ UNCHANGED wait_queue
  /\ UNCHANGED <<kernel_buffer, data_available, len, rpos, user_buffer, served,
                 writeVars>>

(* schedule() returns once a wake-up or a signal made the task runnable.   *)
WakeFromSchedule(r) ==
  /\ r \notin wait_queue \/ r \in signalled
  /\ Goto(r, "sleep", "prepare")
  /\ UNCHANGED <<kernel_buffer, data_available, wait_queue, readVars, writeVars>>

(* copy_to_user, cell by cell; a length above the object's size is refused *)
(* as a whole, see CopyToUserFault.                                        *)
CopyToUser(r) ==
  /\ pc[r] = "copy"
  /\ len[r] <= Cap
  /\ rpos[r] < len[r]
  /\ user_buffer' = [user_buffer EXCEPT ![r][rpos[r]] = kernel_buffer[rpos[r]]]
  /\ rpos' = [rpos EXCEPT ![r] = @ + 1]
  /\ UNCHANGED <<kernel_buffer, data_available, wait_queue, pc, len, served,
                 signalled, writeVars>>

(* copy_to_user left something uncopied: -EFAULT, the flag is not cleared. *)
CopyToUserFault(r) ==
  /\ rpos[r] < len[r]
  /\ Goto(r, "copy", "idle")
  /\ signalled' = signalled \ {r}
  /\ UNCHANGED <<kernel_buffer, data_available, wait_queue, len, rpos,
                 user_buffer, served, writeVars>>

(* Mutant: driver_read returns without clearing data_available.            *)
ReadReturnKeepsFlag(r) ==
  /\ rpos[r] = len[r]
  /\ Goto(r, "copy", "idle")
  /\ served' = [served EXCEPT ![r] = @ + 1]
  /\ signalled' = signalled \ {r}
  /\ UNCHANGED <<kernel_buffer, data_available, wait_queue, len, rpos,
                 user_buffer, writeVars>>

(* The copy is complete: clear the flag and return len.                    *)
ReadReturn(r) ==
  /\ rpos[r] = len[r]
  /\ Goto(r, "copy", "idle")
  /\ data_available' = 0
  /\ served' = [served EXCEPT ![r] = @ + 1]
  /\ signalled' = signalled \ {r}
  /\ UNCHANGED <<kernel_buffer, wait_queue, len, rpos, user_buffer, writeVars>>

(* A signal is sent to a process that is inside read().                    *)
Signal(r) ==
  /\ pc[r] # "idle"
  /\ r \notin signalled
  /\ signalled' = signalled \cup {r}
  /\ UNCHANGED <<kernel_buffer, data_available, wait_queue, pc, len, rpos,
                 user_buffer, served, writeVars>>

-----------------------------------------------------------------------------
(* driver_write *)

(* Mutant: the clamp's comparison is off by one.                           *)
ClampOffByOne(n) == IF n > Cap THEN Cap - 1 ELSE n

(* Room for the '\0' cell: leng is at most sizeof(kernel_buffer) - 1.      *)
Clamp(n) == IF n >= Cap THEN Cap - 1 ELSE n

WriteCall(w) ==
  /\ written < MaxWrites
  /\ Goto(w, "idle", "copyin")
  /\ \E n \in WriteLens : /\ leng' = [leng EXCEPT ![w] = Clamp(n)]
                          /\ lastLen' = Clamp(n)
  /\ wpos' = [wpos EXCEPT ![w] = 0]
  /\ wmsg' = [wmsg EXCEPT ![w] = written + 1]
  /\ written' = written + 1
  /\ mixed' = (\E v \in Writers \ {w} : pc[v] = "copyin")
  /\ UNCHANGED <<kernel_buffer, data_available, wait_queue, published, readVars>>

CopyFromUser(w) ==
  /\ pc[w] = "copyin"
  /\ wpos[w] < leng[w]
  /\ kernel_buffer' = [kernel_buffer EXCEPT ![wpos[w]] = wmsg[w]]
  /\ wpos' = [wpos EXCEPT ![w] = @ + 1]
  /\ UNCHANGED <<data_available, wait_queue, pc, leng, wmsg, written, published,
                 lastLen, mixed, readVars>>

(* copy_from_user zero-fills what it could not copy; write() gives -EFAULT *)
(* and leaves the flag as it is.                                           *)
CopyFromUserFault(w) ==
  /\ wpos[w] < leng[w]
  /\ Goto(w, "copyin", "idle")
  /\ kernel_buffer' = [i \in Cells |-> IF i \in wpos[w] .. leng[w] - 1
                                         THEN Nul ELSE kernel_buffer[i]]
  /\ mixed' = TRUE
  /\ UNCHANGED <<data_available, wait_queue, leng, wpos, wmsg, written,
                 published, lastLen, readVars>>

(* Mutant: no '\0' is stored behind the message.                           *)
WriteUnterminated(w) ==
  /\ wpos[w] = leng[w]
  /\ Goto(w, "copyin", "set")
  /\ UNCHANGED <<kernel_buffer, data_available, wait_queue, readVars, writeVars>>

WriteTerminate(w) ==
  /\ wpos[w] = leng[w]
  /\ Goto(w, "copyin", "set")
  /\ kernel_buffer' = [kernel_buffer EXCEPT ![leng[w]] = Nul]
  /\ UNCHANGED <<data_available, wait_queue, readVars, writeVars>>

(* Mutant: write() returns without its wake_up_interruptible.              *)
SetDataAvailableNoWake(w) ==
  /\ Goto(w, "set", "idle")
  /\ data_available' = 1
  /\ published' = published + 1
  /\ UNCHANGED <<kernel_buffer, wait_queue, leng, wpos, wmsg, written, lastLen,
                 mixed, readVars>>

SetDataAvailable(w) ==
  /\ Goto(w, "set", "wake")
  /\ data_available' = 1
  /\ published' = published + 1
  /\ UNCHANGED <<kernel_buffer, wait_queue, leng, wpos, wmsg, written, lastLen,
                 mixed, readVars>>

(* wake_up_interruptible makes every queued reader runnable (none waits    *)
(* exclusively) and takes it off the queue; then write() returns leng.     *)
WakeUp(w) ==
  /\ Goto(w, "wake", "idle")
  /\ wait_queue' = {}
  /\ UNCHANGED <<kernel_buffer, data_available, readVars, writeVars>>

-----------------------------------------------------------------------------
(* The steps of a call already in the kernel, which the scheduler runs.    *)
ReadStep(r) ==
  \/ WaitCheck(r) \/ PrepareToWait(r) \/ WaitRecheck(r) \/ WakeFromSchedule(r)
  \/ CopyToUser(r) \/ CopyToUserFault(r) \/ ReadReturn(r)

WriteStep(w) ==
  \/ CopyFromUser(w) \/ CopyFromUserFault(w) \/ WriteTerminate(w)
  \/ SetDataAvailable(w) \/ WakeUp(w)

Next ==
  \/ \E r \in Readers : ReadCall(r) \/ ReadStep(r) \/ Signal(r)
  \/ \E w \in Writers : WriteCall(w) \/ WriteStep(w)

Spec == Init /\ [][Next]_vars

(* A process inside a call is eventually run: no step is fair that starts  *)
(* a call or sends a signal.                                               *)
Fairness ==
  /\ \A r \in Readers : WF_vars(ReadStep(r))
  /\ \A w \in Writers : WF_vars(WriteStep(w))

FairSpec == Spec /\ Fairness

-----------------------------------------------------------------------------
(* The driver prints kernel_buffer with %s: its last cell is '\0' in every *)
(* state, during overlapping and failing writes too, because driver_write  *)
(* clamps leng to sizeof(kernel_buffer) - 1.                               *)
BufferTerminated == kernel_buffer[Cap - 1] = Nul

(* When the last write() overlapped no other one and did not fail, the     *)
(* string in kernel_buffer is exactly its message: nothing of an earlier,  *)
(* longer message shows behind the new one.                                *)
BufferHoldsLastWrite ==
  written > 0 /\ ~mixed /\ (\A w \in Writers : pc[w] # "copyin")
    => /\ \A i \in 0 .. lastLen - 1 : kernel_buffer[i] = written
       /\ kernel_buffer[lastLen] = Nul

(* No lost wake-up in driver_read against driver_write: a reader asleep on *)
(* the queue while data is available is about to be woken by a writer.     *)
NoLostWakeup ==
  \A r \in Readers :
    pc[r] = "sleep" /\ r \in wait_queue /\ data_available = 1
      => \E w \in Writers : pc[w] = "wake"

(* A reader is never served the same publication of data twice, whatever   *)
(* the other readers and writers do: driver_read clears data_available.    *)
NoReplay == \A r \in Readers : served[r] <= published

(* A reader that sleeps while data is available does not sleep for ever.   *)
AvailableDataWakes ==
  \A r \in Readers :
    (pc[r] = "sleep" /\ data_available = 1) ~> (pc[r] # "sleep")

(* "Data has been read. Make the condition false again." (waitqueue.c:61): *)
(* when driver_read clears the flag and the last write() has returned      *)
(* success, the message in kernel_buffer is the one that was read.         *)
ClearsOnlyWhatWasRead ==
  [][\A r \in Readers :
       ReadReturn(r) /\ ~mixed /\ (\A w \in Writers : pc[w] = "idle")
         => \A i \in Cells : i < len[r] => user_buffer[r][i] = kernel_buffer[i]]_vars

=============================================================================
