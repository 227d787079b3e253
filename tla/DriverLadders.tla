---------------------------- MODULE DriverLadders ----------------------------
(***************************************************************************)
(* What the init and exit functions of the drivers acquire and release, in *)
(* the order of their statements.  A rung is an acquisition: what it gets, *)
(* and what its error path releases (the gotos followed through their      *)
(* labels) before init returns the error.                                  *)
(***************************************************************************)
EXTENDS Sequences

Rung(get, undo) == [get |-> get, checked |-> TRUE, undo |-> undo]

(* The result of the call is not tested, or tested and only printed.       *)
Unchecked(get) == [get |-> get, checked |-> FALSE, undo |-> <<>>]

(* 01_MAJ_MIN *)
MajMin == [init |-> <<Unchecked("region")>>, exit |-> <<"region">>]

(* 02_CDEV *)
Cdev ==
  [init |-> << Rung("region", <<>>), Rung("cdev", <<"region">>) >>,
   exit |-> <<"cdev", "region">>]

(* Mutant: exit destroys the class before the device that is in it.        *)
ClassDeviceExitSwapped ==
  [init |-> << Rung("region", <<>>), Rung("cdev", <<"region">>),
               Rung("class", <<"cdev", "region">>),
               Rung("device", <<"class", "cdev", "region">>) >>,
   exit |-> <<"class", "device", "cdev", "region">>]

(* 03_CLASS_DEVICE *)
ClassDevice ==
  [init |-> << Rung("region", <<>>), Rung("cdev", <<"region">>),
               Rung("class", <<"cdev", "region">>),
               Rung("device", <<"class", "cdev", "region">>) >>,
   exit |-> <<"device", "class", "cdev", "region">>]

(* Mutant: r_cdev falls to the cdev that could not be added.               *)
FileOperationsOneTooMany ==
  [init |-> << Rung("region", <<>>), Rung("class", <<"region">>),
               Rung("device", <<"class", "region">>),
               Rung("cdev", <<"cdev", "device", "class", "region">>) >>,
   exit |-> <<"cdev", "device", "class", "region">>]

(* 04_FILE_OPERATIONS: the cdev goes live last. *)
FileOperations ==
  [init |-> << Rung("region", <<>>), Rung("class", <<"region">>),
               Rung("device", <<"class", "region">>),
               Rung("cdev", <<"device", "class", "region">>) >>,
   exit |-> <<"cdev", "device", "class", "region">>]

(* 05_SYSFS *)
Sysfs ==
  [init |-> << Rung("kobject", <<>>), Rung("attribute", <<"kobject">>) >>,
   exit |-> <<"attribute", "kobject">>]

(* 06_PROCFS: proc_remove(parent) takes the file in the directory along.   *)
Procfs ==
  [init |-> << Unchecked("directory"), Unchecked("entry") >>,
   exit |-> <<"directory">>]

(* 08_POLL: the same calls in the same order, undone through labels. *)
Poll == ClassDevice

(* C_THREAD_AND_SYNCH/07_WAIT_QUEUE: the same calls again. *)
WaitQueue == ClassDevice

(* 10_IOCTL: label unreg falls through to rmcls, where class_destroy finds *)
(* an error pointer and does nothing; rmcls does not reach the region.     *)
Ioctl ==
  [init |-> << Unchecked("region"), Rung("class", <<"region">>),
               Rung("device", <<"class">>), Rung("cdev", <<"class">>) >>,
   exit |-> <<"cdev", "device", "class", "region">>]

(* D_PROCESS_AND_IPC/1_IOCTL, a copy of 10_IOCTL. *)
ProcessIoctl == Ioctl

(* Mutant: the error path forgets the page.                                *)
MmapKeepsPage ==
  [init |-> << Rung("page", <<>>), Rung("region", <<>>),
               Rung("cdev", <<"region", "page">>),
               Rung("class", <<"cdev", "region", "page">>),
               Rung("device", <<"class", "cdev", "region", "page">>) >>,
   exit |-> <<"device", "class", "cdev", "region", "page">>]

(* 11_MMAP *)
Mmap ==
  [init |-> << Rung("page", <<>>), Rung("region", <<"page">>),
               Rung("cdev", <<"region", "page">>),
               Rung("class", <<"cdev", "region", "page">>),
               Rung("device", <<"class", "cdev", "region", "page">>) >>,
   exit |-> <<"device", "class", "cdev", "region", "page">>]

(* B_INTERRUPTS/3_TASKLET: gpio_to_irq gives a number, which needs no      *)
(* release; without one, free_irq is called for what was never requested.  *)
(* Exit leaves the LED's pin behind, and every error path leaves both.     *)
Tasklet ==
  [init |-> << Unchecked("button"), Unchecked("led"), Rung("number", <<"irq">>),
               Rung("irq", <<>>), Rung("tasklet", <<"irq">>) >>,
   exit |-> <<"button", "tasklet", "irq">>]

(* C_THREAD_AND_SYNCH/03_SPIN_LOCK, first program: no error path releases  *)
(* anything.                                                               *)
SpinIrq ==
  [init |-> << Unchecked("button"), Unchecked("led"), Rung("irq", <<>>),
               Rung("tasklet", <<>>) >>,
   exit |-> <<"button", "led", "tasklet", "irq">>]

(* The second, active program. *)
SpinThreads ==
  [init |-> << Unchecked("thread1"), Unchecked("thread2") >>,
   exit |-> <<"thread1", "thread2">>]

(* The fourth program. *)
SpinMixed ==
  [init |-> << Rung("tasklet", <<>>), Unchecked("thread1") >>,
   exit |-> <<"tasklet", "thread1">>]

(* 12_MODULE_PARAM: init and exit only print. *)
Param == [init |-> <<>>, exit |-> <<>>]

Ladder ==
  [MajMin |-> MajMin, Cdev |-> Cdev, ClassDevice |-> ClassDevice,
   FileOperations |-> FileOperations, Sysfs |-> Sysfs, Procfs |-> Procfs,
   Poll |-> Poll, Ioctl |-> Ioctl, Mmap |-> Mmap, WaitQueue |-> WaitQueue,
   ProcessIoctl |-> ProcessIoctl, Tasklet |-> Tasklet, SpinIrq |-> SpinIrq,
   SpinThreads |-> SpinThreads, SpinMixed |-> SpinMixed, Param |-> Param]

=============================================================================
