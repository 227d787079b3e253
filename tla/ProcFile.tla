------------------------------ MODULE ProcFile ------------------------------
(***************************************************************************)
(* A_CHAR_DRIVER/06_PROCFS/procfs.c: processes read and write the name     *)
(* under /proc.  read() gives the name, and at its next call the end of    *)
(* file: which of the two is due is kept in len, one variable for every    *)
(* reader there is.                                                        *)
(*                                                                         *)
(* A cell of the name is 0 for the terminating character, 1 for any other. *)
(***************************************************************************)
EXTENDS DriverLifecycle

CONSTANTS
  NameSize,   \* sizeof(name_arr)
  MaxWrite    \* bound: the longest write()

ASSUME NameSizeAssumption == NameSize \in Nat \ {0, 1}
ASSUME MaxWriteAssumption == MaxWrite \in Nat

VARIABLES
  len,
  name_arr,
  call,     \* where each process is: what its call does next, if it is in one
  length,   \* how much a write() copies
  filled,   \* how much of it is copied
  served,   \* history: reads that returned the name, since open() or the last end
  ended,    \* history: the readers whose last read() was the end of file
  lone      \* history: readers came one after the other, and all read to the end

procVars == <<len, name_arr, call, length, filled, served, ended, lone>>

Reading == {"open", "lower", "copy", "raise"}

ProcTypeOK ==
  /\ len \in {0, 1}
  /\ name_arr \in [0 .. NameSize - 1 -> {0, 1}]
  /\ call \in [Procs -> {"closed", "fill"} \cup Reading]
  /\ length \in [Procs -> 0 .. NameSize - 1]
  /\ filled \in [Procs -> 0 .. NameSize - 1]
  /\ served \in [Procs -> 0 .. 2]
  /\ ended \subseteq Procs
  /\ lone \in BOOLEAN

(* "This is Try_Proc_Entry": one character here. *)
ProcInit ==
  /\ len = 1
  /\ name_arr = [i \in 0 .. NameSize - 1 |-> IF i = 0 THEN 1 ELSE 0]
  /\ call = [p \in Procs |-> "closed"]
  /\ length = [p \in Procs |-> 0]
  /\ filled = [p \in Procs |-> 0]
  /\ served = [p \in Procs |-> 0]
  /\ ended = {}
  /\ lone = TRUE

Entered(p, from, to) ==
  /\ driver = "Procfs"
  /\ call[p] = from
  /\ call' = [call EXCEPT ![p] = to]

(* The file is there, and the module's code with it: proc_remove lets no   *)
(* call begin, if it was given the directory the file is in.               *)
Reachable ==
  /\ "entry" \in held
  /\ phase \in {"init", "live"} \/ (phase = "exit" /\ "directory" \notin held)

-----------------------------------------------------------------------------
(* A reader: open(), file_proc_read as often as it likes, close() *)

ProcOpen(p) ==
  /\ Entered(p, "closed", "open")
  /\ Reachable
  /\ lone' = (lone /\ \A q \in Procs : call[q] \notin Reading)
  /\ UNCHANGED <<vars, len, name_arr, length, filled, served, ended>>

(* if(len): tested here, assigned in a later step.                         *)
ReadCall(p) ==
  /\ Entered(p, "open", IF len = 1 THEN "lower" ELSE "raise")
  /\ Reachable
  /\ UNCHANGED <<vars, len, name_arr, length, filled, served, ended, lone>>

LowerLen(p) ==
  /\ Entered(p, "lower", "copy")
  /\ len' = 0
  /\ UNCHANGED <<vars, name_arr, length, filled, served, ended, lone>>

(* The bound on served: nobody counts further than two.                    *)
CopyName(p) ==
  /\ Entered(p, "copy", "open")
  /\ served' = [served EXCEPT ![p] = IF p \in ended THEN 1 ELSE IF @ < 2 THEN @ + 1 ELSE @]
  /\ ended' = ended \ {p}
  /\ UNCHANGED <<vars, len, name_arr, length, filled, lone>>

(* return -1, with len left at 0.                                          *)
CopyNameFault(p) ==
  /\ Entered(p, "copy", "open")
  /\ lone' = FALSE
  /\ UNCHANGED <<vars, len, name_arr, length, filled, served, ended>>

(* Mutant: the end of file leaves len at 0.                                *)
RaiseLenForgotten(p) ==
  /\ Entered(p, "raise", "open")
  /\ ended' = ended \cup {p}
  /\ UNCHANGED <<vars, len, name_arr, length, filled, served, lone>>

(* len = 1, and the end of file.                                           *)
RaiseLen(p) ==
  /\ Entered(p, "raise", "open")
  /\ len' = 1
  /\ ended' = ended \cup {p}
  /\ UNCHANGED <<vars, name_arr, length, filled, served, lone>>

ProcClose(p) ==
  /\ Entered(p, "open", "closed")
  /\ lone' = (lone /\ (p \in ended \/ served[p] = 0))
  /\ served' = [served EXCEPT ![p] = 0]
  /\ ended' = ended \ {p}
  /\ UNCHANGED <<vars, len, name_arr, length, filled>>

-----------------------------------------------------------------------------
(* A writer: file_proc_write *)

(* Mutant: the clamp leaves no room for the terminating character.         *)
ClampOffByOne(n) == IF n > NameSize THEN NameSize ELSE n

Clamp(n) == IF n >= NameSize THEN NameSize - 1 ELSE n

ProcWrite(p) ==
  /\ Entered(p, "closed", "fill")
  /\ Reachable
  /\ \E n \in 0 .. MaxWrite : length' = [length EXCEPT ![p] = Clamp(n)]
  /\ UNCHANGED <<vars, len, name_arr, filled, served, ended, lone>>

FillName(p) ==
  /\ Entered(p, "fill", "fill")
  /\ filled[p] < length[p]
  /\ name_arr' = [name_arr EXCEPT ![filled[p]] = 1]
  /\ filled' = [filled EXCEPT ![p] = @ + 1]
  /\ UNCHANGED <<vars, len, length, served, ended, lone>>

WriteReturns(p) ==
  /\ length' = [length EXCEPT ![p] = 0]
  /\ filled' = [filled EXCEPT ![p] = 0]

(* copy_from_user zeroes what it could not copy; -EFAULT.                  *)
FillNameFault(p) ==
  /\ Entered(p, "fill", "closed")
  /\ filled[p] < length[p]
  /\ name_arr' = [i \in 0 .. NameSize - 1 |->
                    IF i \in filled[p] .. length[p] - 1 THEN 0 ELSE name_arr[i]]
  /\ WriteReturns(p)
  /\ UNCHANGED <<vars, len, served, ended, lone>>

TerminateName(p) ==
  /\ Entered(p, "fill", "closed")
  /\ filled[p] = length[p]
  /\ name_arr' = [name_arr EXCEPT ![length[p]] = 0]
  /\ WriteReturns(p)
  /\ UNCHANGED <<vars, len, served, ended, lone>>

-----------------------------------------------------------------------------
ProcInside(p) ==
  \/ LowerLen(p) \/ CopyName(p) \/ CopyNameFault(p) \/ RaiseLen(p)
  \/ FillName(p) \/ FillNameFault(p) \/ TerminateName(p)

ProcCalls(p) ==
  \/ ProcOpen(p) \/ ReadCall(p) \/ ProcClose(p) \/ ProcWrite(p) \/ ProcInside(p)

InDriver(p) == call[p] \notin {"closed", "open"}

(* Mutant: proc_remove does not look at the calls in progress.             *)
RemovedAnyTime == TRUE

(* Mutant: proc_remove waits until the file is closed.                     *)
RemovedWhenClosed ==
  Head(todo) = "directory" /\ "directory" \in held => \A p \in Procs : call[p] = "closed"

(* proc_remove(parent) waits until no call into the files' operations is   *)
(* left; proc_remove(NULL) does nothing.                                   *)
Drained ==
  Head(todo) = "directory" /\ "directory" \in held => \A p \in Procs : ~InDriver(p)

-----------------------------------------------------------------------------
(* The name always ends inside name_arr, be writers interrupted or at odds *)
(* with each other: the driver prints it with %s.                          *)
NameTerminated == name_arr[NameSize - 1] = 0

(* Where readers come one at a time, meet no fault and read to the end,    *)
(* each gets the name once before every end of file; toggling one len for  *)
(* all of them promises no more than that.                                 *)
NameOnceBeforeEnd == lone => \A p \in ended : served[p] = 1

(* Readers and writers in any order find a name in name_arr, as a whole    *)
(* and once, as far as one toggle can give it to them.                     *)
ReadersGetTheName == NameTerminated /\ NameOnceBeforeEnd

(* After rmmod no call is left in the module's code, though an open file   *)
(* does not pin the module: unless the file was never in the directory.    *)
NoCallOutlivesModule ==
  phase = "gone" /\ "entry" \notin held => \A p \in Procs : ~InDriver(p)

=============================================================================
