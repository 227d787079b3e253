--------------------------- MODULE DriverLifecycle ---------------------------
(***************************************************************************)
(* insmod and rmmod of the drivers of DriverLadders: init climbs the       *)
(* ladder, any acquisition may fail, the error path and the exit function  *)
(* release one resource after the other, and processes open the device     *)
(* file as soon as it leads to the driver.                                 *)
(***************************************************************************)
EXTENDS DriverLadders, Naturals

CONSTANTS
  Drivers,   \* the drivers a run is about
  Procs      \* the processes that use them

ASSUME DriversAssumption == Drivers \subseteq DOMAIN Ladder

VARIABLES
  driver,   \* the driver this behaviour is about
  phase,    \* where the module is between insmod and rmmod
  rung,     \* init is about to acquire this rung
  todo,     \* what an error path or exit still has to release
  held,     \* the resources the module holds
  missed,   \* history: what init failed to get without noticing
  stray,    \* history: what was released though it was not held
  opened    \* the processes that have the device file open

vars == <<driver, phase, rung, todo, held, missed, stray, opened>>

Resources == {"region", "cdev", "class", "device", "page", "kobject", "attribute",
              "directory", "entry", "button", "led", "number", "irq", "tasklet",
              "thread1", "thread2"}

TypeOK ==
  /\ driver \in Drivers
  /\ phase \in {"init", "undo", "live", "exit", "failed", "gone", "oops"}
  /\ rung \in 1 .. Len(Ladder[driver].init) + 1
  /\ todo \in Seq(Resources)
  /\ held \subseteq Resources
  /\ missed \subseteq Resources
  /\ stray \subseteq Resources
  /\ opened \subseteq Procs

Init ==
  /\ driver \in Drivers
  /\ phase = "init"
  /\ rung = 1
  /\ todo = <<>>
  /\ held = {}
  /\ missed = {}
  /\ stray = {}
  /\ opened = {}

-----------------------------------------------------------------------------
(* The init functions *)

Current == Ladder[driver].init[rung]

Climbing == phase = "init" /\ rung <= Len(Ladder[driver].init)

Acquire ==
  /\ Climbing
  /\ held' = held \cup {Current.get}
  /\ rung' = rung + 1
  /\ UNCHANGED <<driver, phase, todo, missed, stray, opened>>

AcquireFails ==
  /\ Climbing
  /\ Current.checked
  /\ phase' = "undo"
  /\ todo' = Current.undo
  /\ UNCHANGED <<driver, rung, held, missed, stray, opened>>

AcquireFailsUnnoticed ==
  /\ Climbing
  /\ ~Current.checked
  /\ rung' = rung + 1
  /\ missed' = missed \cup {Current.get}
  /\ UNCHANGED <<driver, phase, todo, held, stray, opened>>

InitReturns ==
  /\ phase = "init"
  /\ rung > Len(Ladder[driver].init)
  /\ phase' = "live"
  /\ UNCHANGED <<driver, rung, todo, held, missed, stray, opened>>

-----------------------------------------------------------------------------
(* The exit functions, and what they share with the error paths *)

(* Mutant: the driver's operations have no .owner.                         *)
CallExitUnpinned ==
  /\ phase = "live"
  /\ phase' = "exit"
  /\ todo' = Ladder[driver].exit
  /\ UNCHANGED <<driver, rung, held, missed, stray, opened>>

(* .owner = THIS_MODULE: rmmod is refused while a file is open.            *)
CallExit ==
  /\ phase = "live"
  /\ opened = {}
  /\ phase' = "exit"
  /\ todo' = Ladder[driver].exit
  /\ UNCHANGED <<driver, rung, held, missed, stray, opened>>

(* What goes with a resource: proc_remove removes a directory's entries.   *)
With(r) == IF r = "directory" /\ r \in held THEN {r, "entry"} ELSE {r}

KernelThreads == {"thread1", "thread2"}

Release ==
  /\ phase \in {"undo", "exit"}
  /\ todo # <<>>
  /\ Head(todo) \notin KernelThreads \ held
  /\ held' = held \ With(Head(todo))
  /\ stray' = stray \cup ({Head(todo)} \ held)
  /\ todo' = Tail(todo)
  /\ UNCHANGED <<driver, phase, rung, missed, opened>>

(* kthread_stop of what kthread_run returned in error: it is no thread but *)
(* an error number, and the process of rmmod dies on it, inside exit.      *)
StopMissing ==
  /\ phase = "exit"
  /\ todo # <<>>
  /\ Head(todo) \in KernelThreads \ held
  /\ phase' = "oops"
  /\ stray' = stray \cup {Head(todo)}
  /\ UNCHANGED <<driver, rung, todo, held, missed, opened>>

ModuleGone ==
  /\ phase \in {"undo", "exit"}
  /\ todo = <<>>
  /\ phase' = IF phase = "undo" THEN "failed" ELSE "gone"
  /\ UNCHANGED <<driver, rung, todo, held, missed, stray, opened>>

-----------------------------------------------------------------------------
(* Processes *)

(* The drivers whose cdev has file operations.                             *)
Openable == {"FileOperations", "Poll", "Ioctl", "ProcessIoctl", "Mmap", "WaitQueue"}

(* The file under /dev leads to a live cdev, during init already; once the *)
(* module is on its way out the kernel refuses.                            *)
Open(p) ==
  /\ driver \in Openable
  /\ {"region", "device", "cdev"} \subseteq held
  /\ phase \in {"init", "undo", "live"}
  /\ p \notin opened
  /\ opened' = opened \cup {p}
  /\ UNCHANGED <<driver, phase, rung, todo, held, missed, stray>>

Close(p) ==
  /\ p \in opened
  /\ opened' = opened \ {p}
  /\ UNCHANGED <<driver, phase, rung, todo, held, missed, stray>>

-----------------------------------------------------------------------------
Next ==
  \/ Acquire \/ AcquireFails \/ AcquireFailsUnnoticed \/ InitReturns
  \/ CallExit \/ Release \/ StopMissing \/ ModuleGone
  \/ \E p \in Procs : Open(p) \/ Close(p)

Spec == Init /\ [][Next]_vars

-----------------------------------------------------------------------------
(* What the error paths and exit functions forget: the ioctl drivers' path *)
(* falls short of the number and the device, the interrupt drivers keep    *)
(* pins and, in spin.c, the interrupt; a procfs file whose directory could *)
(* not be made is not in it when the directory is removed.                 *)
Forgotten ==
  CASE driver \in {"Ioctl", "ProcessIoctl"} /\ phase = "failed" -> {"region", "device"}
    [] driver = "Tasklet" /\ phase = "failed" -> {"button", "led", "number"}
    [] driver = "Tasklet" /\ phase = "gone" -> {"led", "number"}
    [] driver = "SpinIrq" /\ phase = "failed" -> {"button", "led", "irq"}
    [] driver = "Procfs" /\ "directory" \in missed -> {"entry"}
    [] OTHER -> {}

(* A failed insmod leaves nothing else behind, whichever acquisition       *)
(* failed, and neither does rmmod: the next insmod finds the name and the  *)
(* number free.                                                            *)
NothingElseLeftBehind == phase \in {"failed", "gone"} => held \subseteq Forgotten

(* No error path and no exit function releases what the module does not    *)
(* hold, but for what init did not notice it failed to get, and the        *)
(* interrupt that tasklet.c frees when gpio_to_irq gave no number for it.  *)
ReleasesOnlyHeld ==
  stray \subseteq missed \cup (IF driver = "Tasklet" THEN {"irq"} ELSE {})

(* A resource does not outlive the one it was made in: a device its class, *)
(* a sysfs attribute its directory, a cdev its numbers.  The error path of *)
(* the ioctl drivers alone destroys the class of a device that stays.      *)
Within == {<<"device", "class">>, <<"attribute", "kobject">>, <<"cdev", "region">>}

DependenciesHeld ==
  \A pair \in Within :
    pair[1] \in held =>
      \/ pair[2] \in held \cup missed
      \/ driver \in {"Ioctl", "ProcessIoctl"} /\ phase \in {"undo", "failed"}

(* Each init and exit function undoes what it has done, in the order that  *)
(* it takes, and nothing besides, at whatever rung it fails.               *)
UndoesWhatItDid == NothingElseLeftBehind /\ ReleasesOnlyHeld /\ DependenciesHeld

(* No process has a file of the driver open once the module is gone, be it *)
(* that init failed: nothing fails after the device file leads anywhere.   *)
NoFileOutlivesModule == phase \in {"failed", "gone"} => opened = {}

=============================================================================
