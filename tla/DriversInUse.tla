---------------------------- MODULE DriversInUse ----------------------------
(***************************************************************************)
(* A driver's life (DriverLifecycle) together with what processes do       *)
(* through it meanwhile: the procfs file, the mapped page, the drivers     *)
(* that keep a number.  A behaviour is about one driver, and the state of  *)
(* the others stays as it is.                                              *)
(***************************************************************************)
EXTENDS ProcFile, MmapDevice, ValueDevices

dataVars == <<procVars, mmapVars, valueVars>>
allVars == <<vars, dataVars>>

AllTypeOK == TypeOK /\ ProcTypeOK /\ MmapTypeOK /\ ValueTypeOK

UseInit == Init /\ ProcInit /\ MmapInit /\ ValueInit

(* The open and close of the drivers whose data is not modelled here.      *)
ClosesAtWill(p) == driver \notin {"Mmap"} \cup IoctlDrivers /\ Close(p)

ExitStep == ((Release /\ Drained) \/ StopMissing \/ ModuleGone) /\ UNCHANGED dataVars

LifecycleStep ==
  /\ \/ Acquire \/ AcquireFails \/ AcquireFailsUnnoticed \/ InitReturns \/ CallExit
     \/ \E p \in Procs : Open(p) \/ ClosesAtWill(p)
  /\ UNCHANGED dataVars

ProcStep(p) == ProcCalls(p) /\ UNCHANGED <<mmapVars, valueVars>>

MmapStep(p) == (AppSteps(p) \/ AppCloses(p)) /\ UNCHANGED <<procVars, valueVars>>

ValueStep(p) == (ValueCalls(p) \/ UserCloses(p)) /\ UNCHANGED <<procVars, mmapVars>>

UseNext ==
  \/ LifecycleStep \/ ExitStep
  \/ \E p \in Procs : ProcStep(p) \/ MmapStep(p) \/ ValueStep(p)

UseSpec == UseInit /\ [][UseNext]_allVars

(* An error path and an exit function run on, and so does a call that is   *)
(* inside the procfs driver; no process has to make one, or to close.      *)
Fairness ==
  /\ WF_allVars(ExitStep)
  /\ \A p \in Procs : WF_allVars(ProcInside(p) /\ UNCHANGED <<mmapVars, valueVars>>)

FairUseSpec == UseSpec /\ Fairness

-----------------------------------------------------------------------------
(* Whatever rmmod or a failing init frees is out of use by then: no open   *)
(* file leads to the module, no call runs in it, no process has its page.  *)
NothingOutlivesModule ==
  NoFileOutlivesModule /\ NoCallOutlivesModule /\ PageHeldWhileMapped

(* rmmod returns, though processes have the procfs file open and go on     *)
(* calling the driver; so does an insmod that fails.  Where kthread_run    *)
(* failed and spin.c did not notice, rmmod does not: it stops an error     *)
(* number instead of a thread.                                             *)
UnloadEnds ==
  phase \in {"undo", "exit"} /\ missed \cap KernelThreads = {}
    ~> phase \in {"failed", "gone"}

=============================================================================
