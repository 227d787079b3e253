---------------------------- MODULE ValueDevices ----------------------------
(***************************************************************************)
(* The drivers that keep one integer for user space: 10_IOCTL and its copy *)
(* D_PROCESS_AND_IPC/1_IOCTL, whose processes run userapp.c; the attribute *)
(* of 05_SYSFS; the parameter speed of 12_MODULE_PARAM.                    *)
(*                                                                         *)
(* An int is a function to its digits, the low one first, as copies to and *)
(* from user space go through it; two binary digits stand for its width.   *)
(***************************************************************************)
EXTENDS DriverLifecycle

CONSTANT Digits   \* the digits of an int

ASSUME DigitsAssumption == Digits \in Nat \ {0}

VARIABLES
  value,      \* value of the ioctl and sysfs drivers, speed of the parameter
  user,       \* which of its calls each process is at
  digit,      \* the digit that is copied next
  number,     \* what each process wrote, or is writing
  answer,     \* what it read back
  sound,      \* history: the processes whose numbers fit and whose copies went well
  owner       \* history: who wrote value undisturbed since its write began

valueVars == <<value, user, digit, number, answer, sound, owner>>

Ints == [1 .. Digits -> {0, 1}]

(* What a text may say, in its digits: with one digit more than an int has *)
(* room for it says as many numbers again that do not fit.                 *)
Numbers == [1 .. Digits + 1 -> {0, 1}]

Fits(n) == n[Digits + 1] = 0

(* The digits that there is room for.                                      *)
AsInt(n) == [i \in 1 .. Digits |-> n[i]]

(* 0 and 1. *)
Small(d) == [i \in 1 .. Digits + 1 |-> IF i = 1 THEN d ELSE 0]

IoctlDrivers == {"Ioctl", "ProcessIoctl"}

ValueTypeOK ==
  /\ value \in Ints
  /\ user \in [Procs -> {"start", "write", "read", "print"}]
  /\ digit \in [Procs -> 1 .. Digits + 1]
  /\ number \in [Procs -> Numbers]
  /\ answer \in [Procs -> Ints]
  /\ sound \subseteq Procs
  /\ owner \subseteq Procs

(* speed = 10: one here. *)
ValueInit ==
  /\ value = AsInt(Small(IF driver = "Param" THEN 1 ELSE 0))
  /\ user = [p \in Procs |-> "start"]
  /\ digit = [p \in Procs |-> 1]
  /\ number = [p \in Procs |-> Small(0)]
  /\ answer = [p \in Procs |-> AsInt(Small(0))]
  /\ sound = {}
  /\ owner = {}

-----------------------------------------------------------------------------
(* userapp.c: WR_VAL of a number, RD_VAL, and the printing of the answer;  *)
(* the results of both calls are ignored, and both drivers return 0 even   *)
(* when the copy fails.                                                    *)

InApp(p, from, to) ==
  /\ driver \in IoctlDrivers
  /\ p \in opened
  /\ user[p] = from
  /\ user' = [user EXCEPT ![p] = to]

EnterNumber(p) ==
  /\ InApp(p, "start", "write")
  /\ \E n \in Numbers : Fits(n) /\ number' = [number EXCEPT ![p] = n]
  /\ digit' = [digit EXCEPT ![p] = 1]
  /\ sound' = sound \cup {p}
  /\ owner' = owner \cup {p}
  /\ UNCHANGED <<vars, value, answer>>

(* copy_from_user(&value, ...)                                             *)
WriteDigit(p) ==
  /\ InApp(p, "write", "write")
  /\ digit[p] <= Digits
  /\ value' = [value EXCEPT ![digit[p]] = AsInt(number[p])[digit[p]]]
  /\ digit' = [digit EXCEPT ![p] = @ + 1]
  /\ owner' = owner \cap {p}
  /\ UNCHANGED <<vars, number, answer, sound>>

(* Mutant: one digit less is copied than value has.                        *)
WrittenEarly(p) ==
  /\ InApp(p, "write", "read")
  /\ digit[p] = Digits
  /\ digit' = [digit EXCEPT ![p] = 1]
  /\ UNCHANGED <<vars, value, number, answer, sound, owner>>

Written(p) ==
  /\ InApp(p, "write", "read")
  /\ digit[p] > Digits
  /\ digit' = [digit EXCEPT ![p] = 1]
  /\ UNCHANGED <<vars, value, number, answer, sound, owner>>

(* What could not be copied is zeroed, and 0 returned.                     *)
WriteFault(p) ==
  /\ InApp(p, "write", "read")
  /\ digit[p] <= Digits
  /\ value' = [i \in 1 .. Digits |-> IF i < digit[p] THEN value[i] ELSE 0]
  /\ digit' = [digit EXCEPT ![p] = 1]
  /\ sound' = sound \ {p}
  /\ owner' = {}
  /\ UNCHANGED <<vars, number, answer>>

(* copy_to_user(arg, &value, ...)                                         *)
ReadDigit(p) ==
  /\ InApp(p, "read", "read")
  /\ digit[p] <= Digits
  /\ answer' = [answer EXCEPT ![p][digit[p]] = value[digit[p]]]
  /\ digit' = [digit EXCEPT ![p] = @ + 1]
  /\ UNCHANGED <<vars, value, number, sound, owner>>

ReadEnds(p) ==
  /\ InApp(p, "read", "print")
  /\ digit[p] > Digits
  /\ UNCHANGED <<vars, value, digit, number, answer, sound, owner>>

(* The answer keeps what was in it; 0 is returned.                         *)
ReadFault(p) ==
  /\ InApp(p, "read", "print")
  /\ digit[p] <= Digits
  /\ sound' = sound \ {p}
  /\ UNCHANGED <<vars, value, digit, number, answer, owner>>

(* What a process knew ends with it.                                       *)
Forgets(p) ==
  /\ digit' = [digit EXCEPT ![p] = 1]
  /\ number' = [number EXCEPT ![p] = Small(0)]
  /\ answer' = [answer EXCEPT ![p] = AsInt(Small(0))]
  /\ sound' = sound \ {p}
  /\ owner' = owner \ {p}

(* main() ends, or the process does between two calls.                     *)
UserCloses(p) ==
  /\ driver \in IoctlDrivers
  /\ user[p] \in {"start", "print"} \/ digit[p] = 1
  /\ Close(p)
  /\ user' = [user EXCEPT ![p] = "start"]
  /\ Forgets(p)
  /\ UNCHANGED value

-----------------------------------------------------------------------------
(* The sysfs attribute and the parameter: a text is written to their file, *)
(* and the number read from it again; the kernel makes one call at a time. *)

InFile(p, from, to) ==
  /\ \/ driver = "Sysfs" /\ "attribute" \in held
     \/ driver = "Param" /\ phase \in {"init", "live", "exit"}
  /\ user[p] = from
  /\ user' = [user EXCEPT ![p] = to]

Stored(p, n) ==
  /\ value' = AsInt(n)
  /\ number' = [number EXCEPT ![p] = n]
  /\ owner' = {p}
  /\ UNCHANGED <<vars, digit, answer>>

(* sscanf("%d") keeps the digits there is room for.                        *)
SysfsStore(p) ==
  /\ driver = "Sysfs"
  /\ InFile(p, "start", "read")
  /\ \E n \in Numbers :
       /\ Stored(p, n)
       /\ sound' = IF Fits(n) THEN sound \cup {p} ELSE sound \ {p}

(* A text that is no number changes nothing, and the store succeeds.       *)
SysfsStoreNoNumber(p) ==
  /\ driver = "Sysfs"
  /\ InFile(p, "start", "read")
  /\ owner' = owner \ {p}
  /\ UNCHANGED <<vars, value, digit, number, answer, sound>>

(* Mutant: the setter keeps the digits there is room for.                  *)
SetSpeedUnchecked(p) ==
  /\ driver = "Param"
  /\ InFile(p, "start", "read")
  /\ \E n \in Numbers : Stored(p, n)
  /\ sound' = sound \cup {p}

(* kstrtoint refuses what is no number or does not fit, speed untouched.   *)
SetSpeed(p) ==
  /\ driver = "Param"
  /\ InFile(p, "start", "read")
  /\ \E n \in Numbers : Fits(n) /\ Stored(p, n)
  /\ sound' = sound \cup {p}

(* sysfs_show, param_get_speed.                                            *)
Show(p) ==
  /\ InFile(p, "read", "print")
  /\ answer' = [answer EXCEPT ![p] = value]
  /\ UNCHANGED <<vars, value, digit, number, sound, owner>>

Shown(p) ==
  /\ InFile(p, "print", "start")
  /\ Forgets(p)
  /\ UNCHANGED <<vars, value>>

-----------------------------------------------------------------------------
ValueCalls(p) ==
  \/ EnterNumber(p) \/ WriteDigit(p) \/ Written(p) \/ WriteFault(p)
  \/ ReadDigit(p) \/ ReadEnds(p) \/ ReadFault(p)
  \/ SysfsStore(p) \/ SysfsStoreNoNumber(p) \/ SetSpeed(p) \/ Show(p) \/ Shown(p)

(* A process that reads back after a write reads its own number, when no   *)
(* other write came in between or ran beside it.  Success is reported too  *)
(* for a copy that failed and for a sysfs text that overflows or is no     *)
(* number: the ioctl and sysfs drivers owe it to sound writes only, the    *)
(* parameter to all that it accepts.                                       *)
ReadsOwnNumber ==
  \A p \in owner :
    user[p] = "print" /\ (p \in sound \/ driver = "Param") =>
      Fits(number[p]) /\ answer[p] = AsInt(number[p])

=============================================================================
