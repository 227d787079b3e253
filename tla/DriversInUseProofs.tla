------------------------- MODULE DriversInUseProofs -------------------------
(***************************************************************************)
(* The drivers of DriverLadders and what processes do through them: what   *)
(* the ladders release, what outlives the module, what readers of the      *)
(* procfs file, of the mapped page and of the stored numbers get, for      *)
(* every number of processes and all sizes of the data.                    *)
(***************************************************************************)
EXTENDS DriversInUse, SequenceTheorems, TLAPS

USE DriversAssumption, NameSizeAssumption, MaxWriteAssumption, PageAssumption,
    DigitsAssumption

-----------------------------------------------------------------------------
(* The ladders.  What a driver has asked for on its first rungs.           *)
Gets(d, n) == {Ladder[d].init[i].get : i \in 1 .. n}

(* The drivers in their ladders.                                           *)
LEMMA LadderOf ==
  ASSUME NEW d \in DOMAIN Ladder
  PROVE  \/ d = "MajMin" /\ Ladder[d] = MajMin
         \/ d = "Cdev" /\ Ladder[d] = Cdev
         \/ d \in {"ClassDevice", "Poll", "WaitQueue"} /\ Ladder[d] = ClassDevice
         \/ d = "FileOperations" /\ Ladder[d] = FileOperations
         \/ d = "Sysfs" /\ Ladder[d] = Sysfs
         \/ d = "Procfs" /\ Ladder[d] = Procfs
         \/ d \in {"Ioctl", "ProcessIoctl"} /\ Ladder[d] = Ioctl
         \/ d = "Mmap" /\ Ladder[d] = Mmap
         \/ d = "Tasklet" /\ Ladder[d] = Tasklet
         \/ d = "SpinIrq" /\ Ladder[d] = SpinIrq
         \/ d = "SpinThreads" /\ Ladder[d] = SpinThreads
         \/ d = "SpinMixed" /\ Ladder[d] = SpinMixed
         \/ d = "Param" /\ Ladder[d] = Param
BY DEF Ladder, Poll, WaitQueue, ProcessIoctl

(* What a ladder is made of.                                               *)
Rungs == [get : Resources, checked : BOOLEAN, undo : Seq(Resources)]

(* A ladder is made of rungs, and ends in an exit function.                *)
LEMMA LadderTypes ==
  ASSUME NEW d \in DOMAIN Ladder
  PROVE  /\ Ladder[d].init \in Seq(Rungs)
         /\ Ladder[d].exit \in Seq(Resources)
<1> USE DEF Rungs, Resources, Rung, Unchecked
<1>1. CASE Ladder[d] = MajMin
  BY <1>1 DEF MajMin
<1>2. CASE Ladder[d] = Cdev
  BY <1>2 DEF Cdev
<1>3. CASE Ladder[d] = ClassDevice
  BY <1>3 DEF ClassDevice
<1>4. CASE Ladder[d] = FileOperations
  BY <1>4 DEF FileOperations
<1>5. CASE Ladder[d] = Sysfs
  BY <1>5 DEF Sysfs
<1>6. CASE Ladder[d] = Procfs
  BY <1>6 DEF Procfs
<1>7. CASE Ladder[d] = Ioctl
  BY <1>7 DEF Ioctl
<1>8. CASE Ladder[d] = Mmap
  BY <1>8 DEF Mmap
<1>9. CASE Ladder[d] = Tasklet
  BY <1>9 DEF Tasklet
<1>10. CASE Ladder[d] = SpinIrq
  BY <1>10 DEF SpinIrq
<1>11. CASE Ladder[d] = SpinThreads
  BY <1>11 DEF SpinThreads
<1>12. CASE Ladder[d] = SpinMixed
  BY <1>12 DEF SpinMixed
<1>13. CASE Ladder[d] = Param
  BY <1>13 DEF Param
<1>14. QED
  BY <1>1, <1>2, <1>3, <1>4, <1>5, <1>6, <1>7, <1>8, <1>9, <1>10, <1>11, <1>12, <1>13, LadderOf

(* The file of a driver that processes can open leads to it on the last    *)
(* rung and not before.                                                    *)
LEMMA OpenedOnLastRung ==
  ASSUME NEW d \in DOMAIN Ladder, d \in Openable,
         NEW n \in 1 .. Len(Ladder[d].init)
  PROVE  ~({"region", "device", "cdev"} \subseteq Gets(d, n - 1))
<1> USE DEF Rung, Unchecked, Gets, Openable
<1>1. CASE Ladder[d] = ClassDevice
  BY <1>1 DEF ClassDevice
<1>2. CASE Ladder[d] = FileOperations
  BY <1>2 DEF FileOperations
<1>3. CASE Ladder[d] = Ioctl
  BY <1>3 DEF Ioctl
<1>4. CASE Ladder[d] = Mmap
  BY <1>4 DEF Mmap
<1>5. QED
  BY <1>1, <1>2, <1>3, <1>4, LadderOf

(* What is released when init stops before its n-th rung, or exit is called*)
Path(d, n) ==
  IF n <= Len(Ladder[d].init) THEN Ladder[d].init[n].undo ELSE Ladder[d].exit

IsPath(d, n) ==
  /\ n \in 1 .. Len(Ladder[d].init) + 1
  /\ n <= Len(Ladder[d].init) => Ladder[d].init[n].checked

(* What stays behind though init has got it.                               *)
Stays(d, failing, r) ==
  \/ d \in {"Ioctl", "ProcessIoctl"} /\ failing /\ r \in {"region", "device"}
  \/ d = "Tasklet" /\ r \in {"led", "number"}
  \/ d = "Tasklet" /\ failing /\ r = "button"
  \/ d = "SpinIrq" /\ failing /\ r \in {"button", "led", "irq"}

(* T releases nothing of G before what was made in it.                     *)
InOrder(T, G) ==
  \A pair \in Within :
    pair[1] \in G =>
      \A j \in 1 .. Len(T) : T[j] = pair[2] => \E i \in 1 .. j - 1 : T[i] = pair[1]

(* A path T, from where init has got G, releases nothing twice, nothing    *)
(* else but G, all of it that does not stay, and nothing before what was   *)
(* made in it.                                                             *)
Releases(d, failing, T, G) ==
  /\ \A i \in 1 .. Len(T) : \A j \in 1 .. Len(T) : T[i] = T[j] => i = j
  /\ \A i \in 1 .. Len(T) :
       (T[i] \in G \/ (d = "Tasklet" /\ T[i] = "irq")) /\ T[i] # "entry"
  /\ \A r \in G :
       \/ \E i \in 1 .. Len(T) : T[i] = r
       \/ Stays(d, failing, r)
       \/ d = "Procfs" /\ r = "entry" /\ T = <<"directory">> /\ "directory" \in G
  /\ (d \in {"Ioctl", "ProcessIoctl"} /\ failing) \/ InOrder(T, G)

(* The path of an init that stops before its n-th rung, or that of exit.   *)
PathIsRight(d, n) ==
  /\ n <= Len(Ladder[d].init) => Releases(d, TRUE, Path(d, n), Gets(d, n - 1))
  /\ n > Len(Ladder[d].init) => Releases(d, FALSE, Path(d, n), Gets(d, n - 1))

(* Every error path, and every exit, releases what it should.              *)
LEMMA PathReleases ==
  ASSUME NEW d \in DOMAIN Ladder, NEW n, IsPath(d, n)
  PROVE  PathIsRight(d, n)
<1>1. CASE d = "MajMin" /\ Ladder[d] = MajMin
  <2>1. n \in {2}
    BY <1>1 DEF IsPath, MajMin, Rung, Unchecked
  <2>2. CASE n = 2
    <3>1. Path(d, n) = <<"region">> /\ Gets(d, n - 1) = {"region"}
      BY <1>1, <2>2 DEF Path, Gets, MajMin, Rung, Unchecked
    <3>2. n > Len(Ladder[d].init) /\ ~(n <= Len(Ladder[d].init))
      BY <1>1, <2>2 DEF MajMin
    <3>3. Releases(d, FALSE, <<"region">>, {"region"})
      BY <1>1 DEF Releases, Stays, InOrder, Within
    <3>4. QED
      BY <3>1, <3>2, <3>3 DEF PathIsRight
  <2>3. QED
    BY <2>1, <2>2
<1>2. CASE d = "Cdev" /\ Ladder[d] = Cdev
  <2>1. n \in {1, 2, 3}
    BY <1>2 DEF IsPath, Cdev, Rung, Unchecked
  <2>2. CASE n = 1
    <3>1. Path(d, n) = <<>> /\ Gets(d, n - 1) = {}
      BY <1>2, <2>2 DEF Path, Gets, Cdev, Rung, Unchecked
    <3>2. n <= Len(Ladder[d].init) /\ ~(n > Len(Ladder[d].init))
      BY <1>2, <2>2 DEF Cdev
    <3>3. Releases(d, TRUE, <<>>, {})
      BY <1>2 DEF Releases, Stays, InOrder, Within
    <3>4. QED
      BY <3>1, <3>2, <3>3 DEF PathIsRight
  <2>3. CASE n = 2
    <3>1. Path(d, n) = <<"region">> /\ Gets(d, n - 1) = {"region"}
      BY <1>2, <2>3 DEF Path, Gets, Cdev, Rung, Unchecked
    <3>2. n <= Len(Ladder[d].init) /\ ~(n > Len(Ladder[d].init))
      BY <1>2, <2>3 DEF Cdev
    <3>3. Releases(d, TRUE, <<"region">>, {"region"})
      BY <1>2 DEF Releases, Stays, InOrder, Within
    <3>4. QED
      BY <3>1, <3>2, <3>3 DEF PathIsRight
  <2>4. CASE n = 3
    <3>1. Path(d, n) = <<"cdev", "region">> /\ Gets(d, n - 1) = {"region", "cdev"}
      BY <1>2, <2>4 DEF Path, Gets, Cdev, Rung, Unchecked
    <3>2. n > Len(Ladder[d].init) /\ ~(n <= Len(Ladder[d].init))
      BY <1>2, <2>4 DEF Cdev
    <3>3. Releases(d, FALSE, <<"cdev", "region">>, {"region", "cdev"})
      BY <1>2 DEF Releases, Stays, InOrder, Within
    <3>4. QED
      BY <3>1, <3>2, <3>3 DEF PathIsRight
  <2>5. QED
    BY <2>1, <2>2, <2>3, <2>4
<1>3. CASE d \in {"ClassDevice", "Poll", "WaitQueue"} /\ Ladder[d] = ClassDevice
  <2>1. n \in {1, 2, 3, 4, 5}
    BY <1>3 DEF IsPath, ClassDevice, Rung, Unchecked
  <2>2. CASE n = 1
    <3>1. Path(d, n) = <<>> /\ Gets(d, n - 1) = {}
      BY <1>3, <2>2 DEF Path, Gets, ClassDevice, Rung, Unchecked
    <3>2. n <= Len(Ladder[d].init) /\ ~(n > Len(Ladder[d].init))
      BY <1>3, <2>2 DEF ClassDevice
    <3>3. Releases(d, TRUE, <<>>, {})
      BY <1>3 DEF Releases, Stays, InOrder, Within
    <3>4. QED
      BY <3>1, <3>2, <3>3 DEF PathIsRight
  <2>3. CASE n = 2
    <3>1. Path(d, n) = <<"region">> /\ Gets(d, n - 1) = {"region"}
      BY <1>3, <2>3 DEF Path, Gets, ClassDevice, Rung, Unchecked
    <3>2. n <= Len(Ladder[d].init) /\ ~(n > Len(Ladder[d].init))
      BY <1>3, <2>3 DEF ClassDevice
    <3>3. Releases(d, TRUE, <<"region">>, {"region"})
      BY <1>3 DEF Releases, Stays, InOrder, Within
    <3>4. QED
      BY <3>1, <3>2, <3>3 DEF PathIsRight
  <2>4. CASE n = 3
    <3>1. Path(d, n) = <<"cdev", "region">> /\ Gets(d, n - 1) = {"region", "cdev"}
      BY <1>3, <2>4 DEF Path, Gets, ClassDevice, Rung, Unchecked
    <3>2. n <= Len(Ladder[d].init) /\ ~(n > Len(Ladder[d].init))
      BY <1>3, <2>4 DEF ClassDevice
    <3>3. Releases(d, TRUE, <<"cdev", "region">>, {"region", "cdev"})
      BY <1>3 DEF Releases, Stays, InOrder, Within
    <3>4. QED
      BY <3>1, <3>2, <3>3 DEF PathIsRight
  <2>5. CASE n = 4
    <3>1. Path(d, n) = <<"class", "cdev", "region">> /\ Gets(d, n - 1) = {"region", "cdev", "class"}
      BY <1>3, <2>5 DEF Path, Gets, ClassDevice, Rung, Unchecked
    <3>2. n <= Len(Ladder[d].init) /\ ~(n > Len(Ladder[d].init))
      BY <1>3, <2>5 DEF ClassDevice
    <3>3. Releases(d, TRUE, <<"class", "cdev", "region">>, {"region", "cdev", "class"})
      BY <1>3 DEF Releases, Stays, InOrder, Within
    <3>4. QED
      BY <3>1, <3>2, <3>3 DEF PathIsRight
  <2>6. CASE n = 5
    <3>1. Path(d, n) = <<"device", "class", "cdev", "region">> /\ Gets(d, n - 1) = {"region", "cdev", "class", "device"}
      BY <1>3, <2>6 DEF Path, Gets, ClassDevice, Rung, Unchecked
    <3>2. n > Len(Ladder[d].init) /\ ~(n <= Len(Ladder[d].init))
      BY <1>3, <2>6 DEF ClassDevice
    <3>3. Releases(d, FALSE, <<"device", "class", "cdev", "region">>, {"region", "cdev", "class", "device"})
      BY <1>3 DEF Releases, Stays, InOrder, Within
    <3>4. QED
      BY <3>1, <3>2, <3>3 DEF PathIsRight
  <2>7. QED
    BY <2>1, <2>2, <2>3, <2>4, <2>5, <2>6
<1>4. CASE d = "FileOperations" /\ Ladder[d] = FileOperations
  <2>1. n \in {1, 2, 3, 4, 5}
    BY <1>4 DEF IsPath, FileOperations, Rung, Unchecked
  <2>2. CASE n = 1
    <3>1. Path(d, n) = <<>> /\ Gets(d, n - 1) = {}
      BY <1>4, <2>2 DEF Path, Gets, FileOperations, Rung, Unchecked
    <3>2. n <= Len(Ladder[d].init) /\ ~(n > Len(Ladder[d].init))
      BY <1>4, <2>2 DEF FileOperations
    <3>3. Releases(d, TRUE, <<>>, {})
      BY <1>4 DEF Releases, Stays, InOrder, Within
    <3>4. QED
      BY <3>1, <3>2, <3>3 DEF PathIsRight
  <2>3. CASE n = 2
    <3>1. Path(d, n) = <<"region">> /\ Gets(d, n - 1) = {"region"}
      BY <1>4, <2>3 DEF Path, Gets, FileOperations, Rung, Unchecked
    <3>2. n <= Len(Ladder[d].init) /\ ~(n > Len(Ladder[d].init))
      BY <1>4, <2>3 DEF FileOperations
    <3>3. Releases(d, TRUE, <<"region">>, {"region"})
      BY <1>4 DEF Releases, Stays, InOrder, Within
    <3>4. QED
      BY <3>1, <3>2, <3>3 DEF PathIsRight
  <2>4. CASE n = 3
    <3>1. Path(d, n) = <<"class", "region">> /\ Gets(d, n - 1) = {"region", "class"}
      BY <1>4, <2>4 DEF Path, Gets, FileOperations, Rung, Unchecked
    <3>2. n <= Len(Ladder[d].init) /\ ~(n > Len(Ladder[d].init))
      BY <1>4, <2>4 DEF FileOperations
    <3>3. Releases(d, TRUE, <<"class", "region">>, {"region", "class"})
      BY <1>4 DEF Releases, Stays, InOrder, Within
    <3>4. QED
      BY <3>1, <3>2, <3>3 DEF PathIsRight
  <2>5. CASE n = 4
    <3>1. Path(d, n) = <<"device", "class", "region">> /\ Gets(d, n - 1) = {"region", "class", "device"}
      BY <1>4, <2>5 DEF Path, Gets, FileOperations, Rung, Unchecked
    <3>2. n <= Len(Ladder[d].init) /\ ~(n > Len(Ladder[d].init))
      BY <1>4, <2>5 DEF FileOperations
    <3>3. Releases(d, TRUE, <<"device", "class", "region">>, {"region", "class", "device"})
      BY <1>4 DEF Releases, Stays, InOrder, Within
    <3>4. QED
      BY <3>1, <3>2, <3>3 DEF PathIsRight
  <2>6. CASE n = 5
    <3>1. Path(d, n) = <<"cdev", "device", "class", "region">> /\ Gets(d, n - 1) = {"region", "class", "device", "cdev"}
      BY <1>4, <2>6 DEF Path, Gets, FileOperations, Rung, Unchecked
    <3>2. n > Len(Ladder[d].init) /\ ~(n <= Len(Ladder[d].init))
      BY <1>4, <2>6 DEF FileOperations
    <3>3. Releases(d, FALSE, <<"cdev", "device", "class", "region">>, {"region", "class", "device", "cdev"})
      BY <1>4 DEF Releases, Stays, InOrder, Within
    <3>4. QED
      BY <3>1, <3>2, <3>3 DEF PathIsRight
  <2>7. QED
    BY <2>1, <2>2, <2>3, <2>4, <2>5, <2>6
<1>5. CASE d = "Sysfs" /\ Ladder[d] = Sysfs
  <2>1. n \in {1, 2, 3}
    BY <1>5 DEF IsPath, Sysfs, Rung, Unchecked
  <2>2. CASE n = 1
    <3>1. Path(d, n) = <<>> /\ Gets(d, n - 1) = {}
      BY <1>5, <2>2 DEF Path, Gets, Sysfs, Rung, Unchecked
    <3>2. n <= Len(Ladder[d].init) /\ ~(n > Len(Ladder[d].init))
      BY <1>5, <2>2 DEF Sysfs
    <3>3. Releases(d, TRUE, <<>>, {})
      BY <1>5 DEF Releases, Stays, InOrder, Within
    <3>4. QED
      BY <3>1, <3>2, <3>3 DEF PathIsRight
  <2>3. CASE n = 2
    <3>1. Path(d, n) = <<"kobject">> /\ Gets(d, n - 1) = {"kobject"}
      BY <1>5, <2>3 DEF Path, Gets, Sysfs, Rung, Unchecked
    <3>2. n <= Len(Ladder[d].init) /\ ~(n > Len(Ladder[d].init))
      BY <1>5, <2>3 DEF Sysfs
    <3>3. Releases(d, TRUE, <<"kobject">>, {"kobject"})
      BY <1>5 DEF Releases, Stays, InOrder, Within
    <3>4. QED
      BY <3>1, <3>2, <3>3 DEF PathIsRight
  <2>4. CASE n = 3
    <3>1. Path(d, n) = <<"attribute", "kobject">> /\ Gets(d, n - 1) = {"kobject", "attribute"}
      BY <1>5, <2>4 DEF Path, Gets, Sysfs, Rung, Unchecked
    <3>2. n > Len(Ladder[d].init) /\ ~(n <= Len(Ladder[d].init))
      BY <1>5, <2>4 DEF Sysfs
    <3>3. Releases(d, FALSE, <<"attribute", "kobject">>, {"kobject", "attribute"})
      BY <1>5 DEF Releases, Stays, InOrder, Within
    <3>4. QED
      BY <3>1, <3>2, <3>3 DEF PathIsRight
  <2>5. QED
    BY <2>1, <2>2, <2>3, <2>4
<1>6. CASE d = "Procfs" /\ Ladder[d] = Procfs
  <2>1. n \in {3}
    BY <1>6 DEF IsPath, Procfs, Rung, Unchecked
  <2>2. CASE n = 3
    <3>1. Path(d, n) = <<"directory">> /\ Gets(d, n - 1) = {"directory", "entry"}
      BY <1>6, <2>2 DEF Path, Gets, Procfs, Rung, Unchecked
    <3>2. n > Len(Ladder[d].init) /\ ~(n <= Len(Ladder[d].init))
      BY <1>6, <2>2 DEF Procfs
    <3>3. Releases(d, FALSE, <<"directory">>, {"directory", "entry"})
      BY <1>6 DEF Releases, Stays, InOrder, Within
    <3>4. QED
      BY <3>1, <3>2, <3>3 DEF PathIsRight
  <2>3. QED
    BY <2>1, <2>2
<1>7. CASE d \in {"Ioctl", "ProcessIoctl"} /\ Ladder[d] = Ioctl
  <2>1. n \in {2, 3, 4, 5}
    BY <1>7 DEF IsPath, Ioctl, Rung, Unchecked
  <2>2. CASE n = 2
    <3>1. Path(d, n) = <<"region">> /\ Gets(d, n - 1) = {"region"}
      BY <1>7, <2>2 DEF Path, Gets, Ioctl, Rung, Unchecked
    <3>2. n <= Len(Ladder[d].init) /\ ~(n > Len(Ladder[d].init))
      BY <1>7, <2>2 DEF Ioctl
    <3>3. Releases(d, TRUE, <<"region">>, {"region"})
      BY <1>7 DEF Releases, Stays, InOrder, Within
    <3>4. QED
      BY <3>1, <3>2, <3>3 DEF PathIsRight
  <2>3. CASE n = 3
    <3>1. Path(d, n) = <<"class">> /\ Gets(d, n - 1) = {"region", "class"}
      BY <1>7, <2>3 DEF Path, Gets, Ioctl, Rung, Unchecked
    <3>2. n <= Len(Ladder[d].init) /\ ~(n > Len(Ladder[d].init))
      BY <1>7, <2>3 DEF Ioctl
    <3>3. Releases(d, TRUE, <<"class">>, {"region", "class"})
      BY <1>7 DEF Releases, Stays, InOrder, Within
    <3>4. QED
      BY <3>1, <3>2, <3>3 DEF PathIsRight
  <2>4. CASE n = 4
    <3>1. Path(d, n) = <<"class">> /\ Gets(d, n - 1) = {"region", "class", "device"}
      BY <1>7, <2>4 DEF Path, Gets, Ioctl, Rung, Unchecked
    <3>2. n <= Len(Ladder[d].init) /\ ~(n > Len(Ladder[d].init))
      BY <1>7, <2>4 DEF Ioctl
    <3>3. Releases(d, TRUE, <<"class">>, {"region", "class", "device"})
      BY <1>7 DEF Releases, Stays, InOrder, Within
    <3>4. QED
      BY <3>1, <3>2, <3>3 DEF PathIsRight
  <2>5. CASE n = 5
    <3>1. Path(d, n) = <<"cdev", "device", "class", "region">> /\ Gets(d, n - 1) = {"region", "class", "device", "cdev"}
      BY <1>7, <2>5 DEF Path, Gets, Ioctl, Rung, Unchecked
    <3>2. n > Len(Ladder[d].init) /\ ~(n <= Len(Ladder[d].init))
      BY <1>7, <2>5 DEF Ioctl
    <3>3. Releases(d, FALSE, <<"cdev", "device", "class", "region">>, {"region", "class", "device", "cdev"})
      BY <1>7 DEF Releases, Stays, InOrder, Within
    <3>4. QED
      BY <3>1, <3>2, <3>3 DEF PathIsRight
  <2>6. QED
    BY <2>1, <2>2, <2>3, <2>4, <2>5
<1>8. CASE d = "Mmap" /\ Ladder[d] = Mmap
  <2>1. n \in {1, 2, 3, 4, 5, 6}
    BY <1>8 DEF IsPath, Mmap, Rung, Unchecked
  <2>2. CASE n = 1
    <3>1. Path(d, n) = <<>> /\ Gets(d, n - 1) = {}
      BY <1>8, <2>2 DEF Path, Gets, Mmap, Rung, Unchecked
    <3>2. n <= Len(Ladder[d].init) /\ ~(n > Len(Ladder[d].init))
      BY <1>8, <2>2 DEF Mmap
    <3>3. Releases(d, TRUE, <<>>, {})
      BY <1>8 DEF Releases, Stays, InOrder, Within
    <3>4. QED
      BY <3>1, <3>2, <3>3 DEF PathIsRight
  <2>3. CASE n = 2
    <3>1. Path(d, n) = <<"page">> /\ Gets(d, n - 1) = {"page"}
      BY <1>8, <2>3 DEF Path, Gets, Mmap, Rung, Unchecked
    <3>2. n <= Len(Ladder[d].init) /\ ~(n > Len(Ladder[d].init))
      BY <1>8, <2>3 DEF Mmap
    <3>3. Releases(d, TRUE, <<"page">>, {"page"})
      BY <1>8 DEF Releases, Stays, InOrder, Within
    <3>4. QED
      BY <3>1, <3>2, <3>3 DEF PathIsRight
  <2>4. CASE n = 3
    <3>1. Path(d, n) = <<"region", "page">> /\ Gets(d, n - 1) = {"page", "region"}
      BY <1>8, <2>4 DEF Path, Gets, Mmap, Rung, Unchecked
    <3>2. n <= Len(Ladder[d].init) /\ ~(n > Len(Ladder[d].init))
      BY <1>8, <2>4 DEF Mmap
    <3>3. Releases(d, TRUE, <<"region", "page">>, {"page", "region"})
      BY <1>8 DEF Releases, Stays, InOrder, Within
    <3>4. QED
      BY <3>1, <3>2, <3>3 DEF PathIsRight
  <2>5. CASE n = 4
    <3>1. Path(d, n) = <<"cdev", "region", "page">> /\ Gets(d, n - 1) = {"page", "region", "cdev"}
      BY <1>8, <2>5 DEF Path, Gets, Mmap, Rung, Unchecked
    <3>2. n <= Len(Ladder[d].init) /\ ~(n > Len(Ladder[d].init))
      BY <1>8, <2>5 DEF Mmap
    <3>3. Releases(d, TRUE, <<"cdev", "region", "page">>, {"page", "region", "cdev"})
      BY <1>8 DEF Releases, Stays, InOrder, Within
    <3>4. QED
      BY <3>1, <3>2, <3>3 DEF PathIsRight
  <2>6. CASE n = 5
    <3>1. Path(d, n) = <<"class", "cdev", "region", "page">> /\ Gets(d, n - 1) = {"page", "region", "cdev", "class"}
      BY <1>8, <2>6 DEF Path, Gets, Mmap, Rung, Unchecked
    <3>2. n <= Len(Ladder[d].init) /\ ~(n > Len(Ladder[d].init))
      BY <1>8, <2>6 DEF Mmap
    <3>3. Releases(d, TRUE, <<"class", "cdev", "region", "page">>, {"page", "region", "cdev", "class"})
      BY <1>8 DEF Releases, Stays, InOrder, Within
    <3>4. QED
      BY <3>1, <3>2, <3>3 DEF PathIsRight
  <2>7. CASE n = 6
    <3>1. Path(d, n) = <<"device", "class", "cdev", "region", "page">> /\ Gets(d, n - 1) = {"page", "region", "cdev", "class", "device"}
      BY <1>8, <2>7 DEF Path, Gets, Mmap, Rung, Unchecked
    <3>2. n > Len(Ladder[d].init) /\ ~(n <= Len(Ladder[d].init))
      BY <1>8, <2>7 DEF Mmap
    <3>3. Releases(d, FALSE, <<"device", "class", "cdev", "region", "page">>, {"page", "region", "cdev", "class", "device"})
      BY <1>8 DEF Releases, Stays, InOrder, Within
    <3>4. QED
      BY <3>1, <3>2, <3>3 DEF PathIsRight
  <2>8. QED
    BY <2>1, <2>2, <2>3, <2>4, <2>5, <2>6, <2>7
<1>9. CASE d = "Tasklet" /\ Ladder[d] = Tasklet
  <2>1. n \in {3, 4, 5, 6}
    BY <1>9 DEF IsPath, Tasklet, Rung, Unchecked
  <2>2. CASE n = 3
    <3>1. Path(d, n) = <<"irq">> /\ Gets(d, n - 1) = {"button", "led"}
      BY <1>9, <2>2 DEF Path, Gets, Tasklet, Rung, Unchecked
    <3>2. n <= Len(Ladder[d].init) /\ ~(n > Len(Ladder[d].init))
      BY <1>9, <2>2 DEF Tasklet
    <3>3. Releases(d, TRUE, <<"irq">>, {"button", "led"})
      BY <1>9 DEF Releases, Stays, InOrder, Within
    <3>4. QED
      BY <3>1, <3>2, <3>3 DEF PathIsRight
  <2>3. CASE n = 4
    <3>1. Path(d, n) = <<>> /\ Gets(d, n - 1) = {"button", "led", "number"}
      BY <1>9, <2>3 DEF Path, Gets, Tasklet, Rung, Unchecked
    <3>2. n <= Len(Ladder[d].init) /\ ~(n > Len(Ladder[d].init))
      BY <1>9, <2>3 DEF Tasklet
    <3>3. Releases(d, TRUE, <<>>, {"button", "led", "number"})
      BY <1>9 DEF Releases, Stays, InOrder, Within
    <3>4. QED
      BY <3>1, <3>2, <3>3 DEF PathIsRight
  <2>4. CASE n = 5
    <3>1. Path(d, n) = <<"irq">> /\ Gets(d, n - 1) = {"button", "led", "number", "irq"}
      BY <1>9, <2>4 DEF Path, Gets, Tasklet, Rung, Unchecked
    <3>2. n <= Len(Ladder[d].init) /\ ~(n > Len(Ladder[d].init))
      BY <1>9, <2>4 DEF Tasklet
    <3>3. Releases(d, TRUE, <<"irq">>, {"button", "led", "number", "irq"})
      BY <1>9 DEF Releases, Stays, InOrder, Within
    <3>4. QED
      BY <3>1, <3>2, <3>3 DEF PathIsRight
  <2>5. CASE n = 6
    <3>1. Path(d, n) = <<"button", "tasklet", "irq">> /\ Gets(d, n - 1) = {"button", "led", "number", "irq", "tasklet"}
      BY <1>9, <2>5 DEF Path, Gets, Tasklet, Rung, Unchecked
    <3>2. n > Len(Ladder[d].init) /\ ~(n <= Len(Ladder[d].init))
      BY <1>9, <2>5 DEF Tasklet
    <3>3. Releases(d, FALSE, <<"button", "tasklet", "irq">>, {"button", "led", "number", "irq", "tasklet"})
      BY <1>9 DEF Releases, Stays, InOrder, Within
    <3>4. QED
      BY <3>1, <3>2, <3>3 DEF PathIsRight
  <2>6. QED
    BY <2>1, <2>2, <2>3, <2>4, <2>5
<1>10. CASE d = "SpinIrq" /\ Ladder[d] = SpinIrq
  <2>1. n \in {3, 4, 5}
    BY <1>10 DEF IsPath, SpinIrq, Rung, Unchecked
  <2>2. CASE n = 3
    <3>1. Path(d, n) = <<>> /\ Gets(d, n - 1) = {"button", "led"}
      BY <1>10, <2>2 DEF Path, Gets, SpinIrq, Rung, Unchecked
    <3>2. n <= Len(Ladder[d].init) /\ ~(n > Len(Ladder[d].init))
      BY <1>10, <2>2 DEF SpinIrq
    <3>3. Releases(d, TRUE, <<>>, {"button", "led"})
      BY <1>10 DEF Releases, Stays, InOrder, Within
    <3>4. QED
      BY <3>1, <3>2, <3>3 DEF PathIsRight
  <2>3. CASE n = 4
    <3>1. Path(d, n) = <<>> /\ Gets(d, n - 1) = {"button", "led", "irq"}
      BY <1>10, <2>3 DEF Path, Gets, SpinIrq, Rung, Unchecked
    <3>2. n <= Len(Ladder[d].init) /\ ~(n > Len(Ladder[d].init))
      BY <1>10, <2>3 DEF SpinIrq
    <3>3. Releases(d, TRUE, <<>>, {"button", "led", "irq"})
      BY <1>10 DEF Releases, Stays, InOrder, Within
    <3>4. QED
      BY <3>1, <3>2, <3>3 DEF PathIsRight
  <2>4. CASE n = 5
    <3>1. Path(d, n) = <<"button", "led", "tasklet", "irq">> /\ Gets(d, n - 1) = {"button", "led", "irq", "tasklet"}
      BY <1>10, <2>4 DEF Path, Gets, SpinIrq, Rung, Unchecked
    <3>2. n > Len(Ladder[d].init) /\ ~(n <= Len(Ladder[d].init))
      BY <1>10, <2>4 DEF SpinIrq
    <3>3. Releases(d, FALSE, <<"button", "led", "tasklet", "irq">>, {"button", "led", "irq", "tasklet"})
      BY <1>10 DEF Releases, Stays, InOrder, Within
    <3>4. QED
      BY <3>1, <3>2, <3>3 DEF PathIsRight
  <2>5. QED
    BY <2>1, <2>2, <2>3, <2>4
<1>11. CASE d = "SpinThreads" /\ Ladder[d] = SpinThreads
  <2>1. n \in {3}
    BY <1>11 DEF IsPath, SpinThreads, Rung, Unchecked
  <2>2. CASE n = 3
    <3>1. Path(d, n) = <<"thread1", "thread2">> /\ Gets(d, n - 1) = {"thread1", "thread2"}
      BY <1>11, <2>2 DEF Path, Gets, SpinThreads, Rung, Unchecked
    <3>2. n > Len(Ladder[d].init) /\ ~(n <= Len(Ladder[d].init))
      BY <1>11, <2>2 DEF SpinThreads
    <3>3. Releases(d, FALSE, <<"thread1", "thread2">>, {"thread1", "thread2"})
      BY <1>11 DEF Releases, Stays, InOrder, Within
    <3>4. QED
      BY <3>1, <3>2, <3>3 DEF PathIsRight
  <2>3. QED
    BY <2>1, <2>2
<1>12. CASE d = "SpinMixed" /\ Ladder[d] = SpinMixed
  <2>1. n \in {1, 3}
    BY <1>12 DEF IsPath, SpinMixed, Rung, Unchecked
  <2>2. CASE n = 1
    <3>1. Path(d, n) = <<>> /\ Gets(d, n - 1) = {}
      BY <1>12, <2>2 DEF Path, Gets, SpinMixed, Rung, Unchecked
    <3>2. n <= Len(Ladder[d].init) /\ ~(n > Len(Ladder[d].init))
      BY <1>12, <2>2 DEF SpinMixed
    <3>3. Releases(d, TRUE, <<>>, {})
      BY <1>12 DEF Releases, Stays, InOrder, Within
    <3>4. QED
      BY <3>1, <3>2, <3>3 DEF PathIsRight
  <2>3. CASE n = 3
    <3>1. Path(d, n) = <<"tasklet", "thread1">> /\ Gets(d, n - 1) = {"tasklet", "thread1"}
      BY <1>12, <2>3 DEF Path, Gets, SpinMixed, Rung, Unchecked
    <3>2. n > Len(Ladder[d].init) /\ ~(n <= Len(Ladder[d].init))
      BY <1>12, <2>3 DEF SpinMixed
    <3>3. Releases(d, FALSE, <<"tasklet", "thread1">>, {"tasklet", "thread1"})
      BY <1>12 DEF Releases, Stays, InOrder, Within
    <3>4. QED
      BY <3>1, <3>2, <3>3 DEF PathIsRight
  <2>4. QED
    BY <2>1, <2>2, <2>3
<1>13. CASE d = "Param" /\ Ladder[d] = Param
  <2>1. n \in {1}
    BY <1>13 DEF IsPath, Param, Rung, Unchecked
  <2>2. CASE n = 1
    <3>1. Path(d, n) = <<>> /\ Gets(d, n - 1) = {}
      BY <1>13, <2>2 DEF Path, Gets, Param, Rung, Unchecked
    <3>2. n > Len(Ladder[d].init) /\ ~(n <= Len(Ladder[d].init))
      BY <1>13, <2>2 DEF Param
    <3>3. Releases(d, FALSE, <<>>, {})
      BY <1>13 DEF Releases, Stays, InOrder, Within
    <3>4. QED
      BY <3>1, <3>2, <3>3 DEF PathIsRight
  <2>3. QED
    BY <2>1, <2>2
<1>14. QED
  BY <1>1, <1>2, <1>3, <1>4, <1>5, <1>6, <1>7, <1>8, <1>9, <1>10, <1>11, <1>12, <1>13, LadderOf

(* Init gets nothing before that in which it is made.                      *)
LEMMA GetsInOrder ==
  ASSUME NEW d \in DOMAIN Ladder, NEW n \in 0 .. Len(Ladder[d].init),
         NEW pair \in Within, pair[1] \in Gets(d, n)
  PROVE  pair[2] \in Gets(d, n)
<1> USE DEF Gets, Within, Rung, Unchecked
<1>1. CASE Ladder[d] = MajMin
  BY <1>1 DEF MajMin
<1>2. CASE Ladder[d] = Cdev
  BY <1>2 DEF Cdev
<1>3. CASE Ladder[d] = ClassDevice
  BY <1>3 DEF ClassDevice
<1>4. CASE Ladder[d] = FileOperations
  BY <1>4 DEF FileOperations
<1>5. CASE Ladder[d] = Sysfs
  BY <1>5 DEF Sysfs
<1>6. CASE Ladder[d] = Procfs
  BY <1>6 DEF Procfs
<1>7. CASE Ladder[d] = Ioctl
  BY <1>7 DEF Ioctl
<1>8. CASE Ladder[d] = Mmap
  BY <1>8 DEF Mmap
<1>9. CASE Ladder[d] = Tasklet
  BY <1>9 DEF Tasklet
<1>10. CASE Ladder[d] = SpinIrq
  BY <1>10 DEF SpinIrq
<1>11. CASE Ladder[d] = SpinThreads
  BY <1>11 DEF SpinThreads
<1>12. CASE Ladder[d] = SpinMixed
  BY <1>12 DEF SpinMixed
<1>13. CASE Ladder[d] = Param
  BY <1>13 DEF Param
<1>14. QED
  BY <1>1, <1>2, <1>3, <1>4, <1>5, <1>6, <1>7, <1>8, <1>9, <1>10, <1>11, <1>12, <1>13, LadderOf

-----------------------------------------------------------------------------
(* The inductive invariant: a driver's life                                *)

(* Init has asked for what its rungs so far get, and holds it but for what *)
(* it missed; whatever has begun to be released was on a path.             *)
Climbed ==
  /\ held \subseteq Gets(driver, rung - 1)
  /\ missed \subseteq Gets(driver, rung - 1)
  /\ phase \in {"init", "live"} =>
       held \cup missed = Gets(driver, rung - 1) /\ stray = {} /\ todo = <<>>
  /\ phase \in {"live", "exit", "gone", "oops"} => rung = Len(Ladder[driver].init) + 1
  /\ phase \in {"undo", "failed"} => rung <= Len(Ladder[driver].init)
  /\ driver = "Mmap" => missed = {}

(* A file is open only where nothing can fail any more and rmmod is        *)
(* refused.                                                                *)
OpenedAtTheTop ==
  opened # {} =>
    driver \in Openable /\ phase \in {"init", "live"} /\ rung = Len(Ladder[driver].init) + 1

Releasing == phase \in {"undo", "exit", "failed", "gone", "oops"}

(* What is still to be released is there, and named once; what is there is *)
(* still to be released, stays, or goes with its directory.                *)
TodoIsHeld ==
  /\ \A i \in 1 .. Len(todo) : \A j \in 1 .. Len(todo) : todo[i] = todo[j] => i = j
  /\ \A i \in 1 .. Len(todo) :
       /\ todo[i] \in held \cup missed \/ (driver = "Tasklet" /\ todo[i] = "irq")
       /\ todo[i] # "entry"

HeldIsTodo ==
  \A r \in held :
    \/ \E i \in 1 .. Len(todo) : todo[i] = r
    \/ Stays(driver, phase \in {"undo", "failed"}, r)
    \/ /\ driver = "Procfs" /\ r = "entry"
       /\ "directory" \in missed \/ (todo = <<"directory">> /\ "directory" \in held)

(* What was made in a resource comes before it.                            *)
TodoInOrder ==
  \/ driver \in {"Ioctl", "ProcessIoctl"} /\ phase \in {"undo", "failed"}
  \/ \A pair \in Within :
       pair[1] \in held =>
         /\ pair[2] \in held \cup missed
         /\ \A j \in 1 .. Len(todo) :
              todo[j] = pair[2] => \E i \in 1 .. j - 1 : todo[i] = pair[1]

Undone ==
  /\ Releasing => TodoIsHeld /\ HeldIsTodo /\ TodoInOrder
  /\ phase \in {"failed", "gone"} => todo = <<>>
  /\ ReleasesOnlyHeld

LifeInv == TypeOK /\ Climbed /\ OpenedAtTheTop /\ Undone

-----------------------------------------------------------------------------
(* The inductive invariant: what processes do                              *)

(* A call in the procfs driver keeps proc_remove from taking its file.     *)
FileWhileCalled == "entry" \notin held => \A p \in Procs : ~InDriver(p)

(* What a lone reader has got and what len says of it are in step.         *)
NameDue(p) == (served[p] = 0 /\ p \notin ended) \/ (served[p] = 1 /\ p \in ended)
EndDue(p) == served[p] = 1 /\ p \notin ended

LenInStep(p) ==
  /\ call[p] = "open" => (len = 1 /\ NameDue(p)) \/ (len = 0 /\ EndDue(p))
  /\ call[p] = "lower" => len = 1 /\ NameDue(p)
  /\ call[p] = "copy" => len = 0 /\ NameDue(p)
  /\ call[p] = "raise" => len = 0 /\ EndDue(p)

ReadInv ==
  /\ \A p \in Procs : call[p] \notin Reading => served[p] = 0 /\ p \notin ended
  /\ lone =>
       /\ \A p \in Procs : \A q \in Procs :
            call[p] \in Reading /\ call[q] \in Reading => p = q
       /\ (\A p \in Procs : call[p] \notin Reading) => len = 1
       /\ \A p \in Procs : LenInStep(p)

ProcInv == ProcTypeOK /\ FileWhileCalled /\ NameTerminated /\ ReadInv

(* A cell of the page is its text's or cleared.                            *)
PageIsText ==
  \A i \in 1 .. PageCells : kernel_buffer[i] = 0 \/ (kernel_buffer[i] = i /\ i <= TextCells)

PrintFollows ==
  \A p \in Procs : app[p] = "print" => Len(printed[p]) = cursor[p] - 1

(* Who has the page to itself finds there what it wrote.                   *)
Wrote(p, n) == \A i \in 1 .. TextCells : i < n => kernel_buffer[i] = i

SoleInv ==
  \A p \in sole :
    /\ app[p] \in Mapped => \A q \in Procs : app[q] \in Mapped => q = p
    /\ app[p] = "strcpy" => Wrote(p, cursor[p])
    /\ app[p] \in {"notify", "print", "munmap"} => Wrote(p, PageCells)
    /\ app[p] = "munmap" => Len(printed[p]) = TextCells

AppHasItOpen == \A p \in Procs : app[p] # "open" => driver = "Mmap" /\ p \in opened

MmapInv ==
  MmapTypeOK /\ PageIsText /\ PrintFollows /\ PrintsTextFromItsStart /\ SoleInv /\ AppHasItOpen

(* An owner's number is where its calls have brought it.                   *)
Owns(p) ==
  /\ Fits(number[p])
  /\ user[p] = "write" => \A i \in 1 .. Digits : i < digit[p] => value[i] = number[p][i]
  /\ user[p] = "read" => value = AsInt(number[p])
  /\ user[p] = "read" /\ driver \in IoctlDrivers =>
       \A i \in 1 .. Digits : i < digit[p] => answer[p][i] = value[i]
  /\ user[p] = "print" => answer[p] = AsInt(number[p])

NumberInv ==
  /\ \A p \in owner \cap sound : Owns(p)
  /\ driver = "Param" => owner \subseteq sound

ValueInv == ValueTypeOK /\ NumberInv

IInv == LifeInv /\ ProcInv /\ MmapInv /\ ValueInv

-----------------------------------------------------------------------------
(* A driver's life keeps its invariant                                     *)

(* Every acquisition of the mmap driver is checked.                        *)
LEMMA MmapChecked ==
  \A i \in 1 .. Len(Ladder["Mmap"].init) : Ladder["Mmap"].init[i].checked
BY DEF Ladder, Mmap, Rung

(* One rung further, init has asked for one resource more.                 *)
LEMMA GetsOneMore ==
  ASSUME TypeOK, Climbing
  PROVE  /\ Gets(driver, rung) = Gets(driver, rung - 1) \cup {Current.get}
         /\ Current.get \in Resources
         /\ Current.undo \in Seq(Resources)
         /\ Current.checked \in BOOLEAN
<1>1. driver \in DOMAIN Ladder /\ rung \in Nat \ {0} /\ rung <= Len(Ladder[driver].init)
  BY LadderTypes DEF TypeOK, Climbing
<1>2. Current \in Rungs
  BY <1>1, LadderTypes DEF Current
<1>3. 1 .. rung = (1 .. rung - 1) \cup {rung}
  BY <1>1
<1>4. QED
  BY <1>2, <1>3 DEF Gets, Current, Rungs

(* Every step of a driver's life keeps the types.                          *)
LEMMA TypeStep ==
  ASSUME TypeOK, [Next]_vars
  PROVE  TypeOK'
<1>1. /\ driver \in DOMAIN Ladder /\ rung \in Nat \ {0}
      /\ Len(Ladder[driver].init) \in Nat /\ Ladder[driver].exit \in Seq(Resources)
      /\ driver \in Drivers
  BY LadderTypes DEF TypeOK
<1>2. CASE Acquire
  BY <1>1, <1>2, GetsOneMore DEF TypeOK, Acquire, Climbing
<1>3. CASE AcquireFails
  BY <1>1, <1>3, GetsOneMore DEF TypeOK, AcquireFails, Climbing
<1>4. CASE AcquireFailsUnnoticed
  BY <1>1, <1>4, GetsOneMore DEF TypeOK, AcquireFailsUnnoticed, Climbing
<1>5. CASE InitReturns
  BY <1>1, <1>5 DEF TypeOK, InitReturns
<1>6. CASE CallExit
  BY <1>1, <1>6 DEF TypeOK, CallExit
<1>7. CASE Release
  <2>1. Head(todo) \in Resources /\ Tail(todo) \in Seq(Resources)
    BY <1>7 DEF TypeOK, Release
  <2>2. QED
    BY <1>1, <1>7, <2>1 DEF TypeOK, Release
<1>8. CASE ModuleGone
  BY <1>1, <1>8 DEF TypeOK, ModuleGone
<1>9. CASE \E p \in Procs : Open(p) \/ Close(p)
  BY <1>1, <1>9 DEF TypeOK, Open, Close
<1>10. CASE UNCHANGED vars
  BY <1>10 DEF TypeOK, vars
<1>11. CASE StopMissing
  <2>1. Head(todo) \in Resources
    BY <1>11 DEF TypeOK, StopMissing
  <2>2. QED
    BY <1>1, <1>11, <2>1 DEF TypeOK, StopMissing
<1>12. QED
  BY <1>2, <1>3, <1>4, <1>5, <1>6, <1>7, <1>8, <1>9, <1>10, <1>11 DEF Next

(* Init gets and misses one resource after the other, and exit none.       *)
LEMMA ClimbedStep ==
  ASSUME TypeOK, Climbed, [Next]_vars
  PROVE  Climbed'
<1>1. /\ driver \in DOMAIN Ladder /\ rung \in Nat \ {0} /\ (rung + 1) - 1 = rung
      /\ rung <= Len(Ladder[driver].init) + 1 /\ Len(Ladder[driver].init) \in Nat
  BY LadderTypes DEF TypeOK
<1>2. CASE Acquire
  BY <1>1, <1>2, GetsOneMore DEF Climbed, Acquire, Climbing
<1>3. CASE AcquireFails
  BY <1>1, <1>3 DEF Climbed, AcquireFails, Climbing
<1>4. CASE AcquireFailsUnnoticed
  <2>1. driver # "Mmap"
    BY <1>1, <1>4, MmapChecked DEF AcquireFailsUnnoticed, Climbing, Current
  <2>2. QED
    BY <1>1, <1>4, <2>1, GetsOneMore DEF Climbed, AcquireFailsUnnoticed, Climbing
<1>5. CASE InitReturns
  BY <1>1, <1>5 DEF Climbed, InitReturns
<1>6. CASE CallExit
  BY <1>1, <1>6 DEF Climbed, CallExit
<1>7. CASE Release
  BY <1>1, <1>7 DEF Climbed, Release
<1>8. CASE ModuleGone
  BY <1>1, <1>8 DEF Climbed, ModuleGone
<1>9. CASE \E p \in Procs : Open(p) \/ Close(p)
  BY <1>1, <1>9 DEF Climbed, Open, Close
<1>10. CASE UNCHANGED vars
  BY <1>10 DEF Climbed, vars
<1>11. CASE StopMissing
  BY <1>1, <1>11 DEF Climbed, StopMissing
<1>12. QED
  BY <1>2, <1>3, <1>4, <1>5, <1>6, <1>7, <1>8, <1>9, <1>10, <1>11 DEF Next

(* Nobody opens the file before the last rung, or as long as exit runs.    *)
LEMMA OpenedStep ==
  ASSUME TypeOK, Climbed, OpenedAtTheTop, [Next]_vars
  PROVE  OpenedAtTheTop'
<1>1. /\ driver \in DOMAIN Ladder /\ rung \in Nat \ {0}
      /\ rung <= Len(Ladder[driver].init) + 1 /\ Len(Ladder[driver].init) \in Nat
  BY LadderTypes DEF TypeOK
<1>2. CASE Acquire \/ AcquireFails \/ AcquireFailsUnnoticed
  BY <1>1, <1>2 DEF OpenedAtTheTop, Acquire, AcquireFails, AcquireFailsUnnoticed, Climbing
<1>3. CASE InitReturns
  BY <1>3 DEF OpenedAtTheTop, InitReturns
<1>4. CASE CallExit
  BY <1>4 DEF OpenedAtTheTop, CallExit
<1>5. CASE Release \/ StopMissing \/ ModuleGone
  BY <1>5 DEF OpenedAtTheTop, Release, StopMissing, ModuleGone
<1>6. ASSUME NEW p \in Procs, Open(p)
      PROVE  OpenedAtTheTop'
  <2>1. {"region", "device", "cdev"} \subseteq Gets(driver, rung - 1)
    BY <1>6 DEF Open, Climbed
  <2>2. ~(rung <= Len(Ladder[driver].init))
    BY <1>1, <1>6, <2>1, OpenedOnLastRung DEF Open
  <2>3. QED
    BY <1>1, <1>6, <2>2 DEF Open, Climbed, OpenedAtTheTop
<1>7. ASSUME NEW p \in Procs, Close(p)
      PROVE  OpenedAtTheTop'
  BY <1>7 DEF OpenedAtTheTop, Close
<1>8. CASE UNCHANGED vars
  BY <1>8 DEF OpenedAtTheTop, vars
<1>9. QED
  BY <1>2, <1>3, <1>4, <1>5, <1>6, <1>7, <1>8 DEF Next

(* An error path, or exit, begins with everything it is for.               *)
LEMMA PathBegins ==
  ASSUME TypeOK, Climbed, phase \in {"init", "live"}, IsPath(driver, rung),
         phase' \in {"undo", "exit"},
         phase' = "undo" <=> rung <= Len(Ladder[driver].init),
         todo' = Path(driver, rung),
         UNCHANGED <<driver, rung, held, missed, stray>>
  PROVE  Undone'
<1> DEFINE G == Gets(driver, rung - 1)
<1>1. /\ driver \in DOMAIN Ladder /\ rung \in Nat \ {0}
      /\ rung <= Len(Ladder[driver].init) + 1 /\ Len(Ladder[driver].init) \in Nat
  BY LadderTypes DEF TypeOK
<1>2. held \cup missed = G /\ held \subseteq G /\ stray = {}
  BY DEF Climbed
<1>3. PathIsRight(driver, rung)
  BY <1>1, PathReleases
<1>4. \A pair \in Within : pair[1] \in G => pair[2] \in G
  BY <1>1, GetsInOrder
<1> HIDE DEF G
<1>5. CASE phase' = "undo"
  <2>1. Releases(driver, TRUE, todo', G)
    BY <1>1, <1>3, <1>5 DEF PathIsRight, G
  <2>2. TodoIsHeld'
    BY <1>2, <2>1 DEF Releases, TodoIsHeld
  <2>3. HeldIsTodo'
    BY <1>2, <1>5, <2>1 DEF Releases, HeldIsTodo, Stays
  <2>4. TodoInOrder'
    BY <1>2, <1>4, <1>5, <2>1 DEF Releases, InOrder, TodoInOrder
  <2>5. QED
    BY <1>2, <1>5, <2>2, <2>3, <2>4 DEF Undone, ReleasesOnlyHeld
<1>6. CASE phase' = "exit"
  <2>0. rung > Len(Ladder[driver].init)
    BY <1>1, <1>6
  <2>1. Releases(driver, FALSE, todo', G)
    BY <1>3, <2>0 DEF PathIsRight, G
  <2>2. TodoIsHeld'
    BY <1>2, <2>1 DEF Releases, TodoIsHeld
  <2>3. HeldIsTodo'
    BY <1>2, <1>6, <2>1 DEF Releases, HeldIsTodo, Stays
  <2>4. TodoInOrder'
    BY <1>2, <1>4, <1>6, <2>1 DEF Releases, InOrder, TodoInOrder
  <2>5. QED
    BY <1>2, <1>6, <2>2, <2>3, <2>4 DEF Undone, ReleasesOnlyHeld
<1>7. QED
  BY <1>5, <1>6

(* One release takes away what was named first, and nothing else that is   *)
(* still named.                                                            *)
LEMMA ReleaseKeepsUndone ==
  ASSUME TypeOK, Undone, Release
  PROVE  Undone'
<1> DEFINE h == Head(todo)
<1>1. /\ TodoIsHeld /\ HeldIsTodo /\ TodoInOrder /\ ReleasesOnlyHeld
      /\ phase \in {"undo", "exit"} /\ todo \in Seq(Resources) /\ todo # <<>>
  BY DEF Undone, Release, Releasing, TypeOK
<1>2. /\ h = todo[1] /\ Len(todo) \in Nat \ {0} /\ Len(todo') = Len(todo) - 1
      /\ \A i \in 1 .. Len(todo') : i + 1 \in 1 .. Len(todo) /\ todo'[i] = todo[i + 1]
      /\ 1 \in 1 .. Len(todo)
  BY <1>1 DEF Release
<1>3. /\ held' = held \ With(h) /\ stray' = stray \cup ({h} \ held)
      /\ UNCHANGED <<driver, phase, missed>>
  BY DEF Release
<1>4. With(h) \subseteq {h, "entry"} /\ h \in With(h)
  BY DEF With
<1>5. \A i \in 1 .. Len(todo') : todo'[i] # h /\ todo'[i] # "entry"
  BY <1>1, <1>2 DEF TodoIsHeld
<1>6. \A i \in 2 .. Len(todo) : i - 1 \in 1 .. Len(todo') /\ todo'[i - 1] = todo[i]
  <2>1. \A i \in 2 .. Len(todo) : i - 1 \in 1 .. Len(todo') /\ (i - 1) + 1 = i
    BY <1>2
  <2>2. QED
    BY <1>2, <2>1
<1> HIDE DEF h
<1>7. TodoIsHeld'
  <2>1. ASSUME NEW i \in 1 .. Len(todo'), NEW j \in 1 .. Len(todo'), todo'[i] = todo'[j]
        PROVE  i = j
    <3>1. i + 1 = j + 1
      BY <1>1, <1>2, <2>1 DEF TodoIsHeld
    <3>2. QED
      BY <3>1, <1>2
  <2>2. ASSUME NEW i \in 1 .. Len(todo')
        PROVE  todo'[i] \in held' \cup missed' \/ (driver' = "Tasklet" /\ todo'[i] = "irq")
    BY <1>1, <1>2, <1>3, <1>4, <1>5 DEF TodoIsHeld
  <2>3. QED
    BY <1>5, <2>1, <2>2 DEF TodoIsHeld
<1>8. HeldIsTodo'
  <2> SUFFICES ASSUME NEW r \in held'
               PROVE  \/ \E i \in 1 .. Len(todo') : todo'[i] = r
                      \/ Stays(driver, phase \in {"undo", "failed"}, r)
                      \/ /\ driver = "Procfs" /\ r = "entry" /\ "directory" \in missed
    BY <1>3 DEF HeldIsTodo, Stays
  <2>1. r \in held /\ r # h
    BY <1>3, <1>4
  <2>2. ASSUME NEW i \in 1 .. Len(todo), todo[i] = r
        PROVE  \E k \in 1 .. Len(todo') : todo'[k] = r
    <3>1. i \in 2 .. Len(todo)
      BY <1>2, <2>1, <2>2
    <3>2. QED
      BY <1>6, <2>2, <3>1
  <2>3. ASSUME r = "entry", todo = <<"directory">>, "directory" \in held
        PROVE  FALSE
    BY <1>2, <1>3, <2>3 DEF With
  <2>4. QED
    BY <1>1, <2>1, <2>2, <2>3 DEF HeldIsTodo
<1>9. TodoInOrder'
  <2>1. CASE driver \in {"Ioctl", "ProcessIoctl"} /\ phase \in {"undo", "failed"}
    BY <1>3, <2>1 DEF TodoInOrder
  <2>2. CASE ~(driver \in {"Ioctl", "ProcessIoctl"} /\ phase \in {"undo", "failed"})
    <3> SUFFICES ASSUME NEW pair \in Within, pair[1] \in held'
                 PROVE  /\ pair[2] \in held' \cup missed'
                        /\ \A j \in 1 .. Len(todo') :
                             todo'[j] = pair[2] => \E i \in 1 .. j - 1 : todo'[i] = pair[1]
      BY DEF TodoInOrder
    <3>1. /\ pair[1] \in held /\ pair[1] # h /\ pair[2] \in held \cup missed
          /\ \A j \in 1 .. Len(todo) :
               todo[j] = pair[2] => \E i \in 1 .. j - 1 : todo[i] = pair[1]
      BY <1>1, <1>3, <1>4, <2>2 DEF TodoInOrder
    <3>2. pair[2] # h
      BY <1>2, <3>1
    <3>3. pair[2] # "entry"
      BY DEF Within
    <3>4. pair[2] \in held' \cup missed'
      BY <1>3, <1>4, <3>1, <3>2, <3>3
    <3>5. ASSUME NEW j \in 1 .. Len(todo'), todo'[j] = pair[2]
          PROVE  \E i \in 1 .. j - 1 : todo'[i] = pair[1]
      <4>1. PICK i \in 1 .. (j + 1) - 1 : todo[i] = pair[1]
        BY <1>2, <3>1, <3>5
      <4>2. i \in 2 .. Len(todo) /\ i - 1 \in 1 .. j - 1
        <5>1. i # 1 /\ j + 1 \in 1 .. Len(todo)
          BY <1>2, <3>1, <4>1
        <5>2. QED
          BY <1>2, <5>1
      <4>3. QED
        BY <1>6, <4>1, <4>2
    <3>6. QED
      BY <3>4, <3>5
  <2>3. QED
    BY <2>1, <2>2
<1>10. ReleasesOnlyHeld'
  BY <1>1, <1>2, <1>3 DEF ReleasesOnlyHeld, TodoIsHeld
<1>11. QED
  BY <1>1, <1>3, <1>7, <1>8, <1>9, <1>10 DEF Undone

(* What is released, in every step, is what was got.                       *)
LEMMA UndoneStep ==
  ASSUME TypeOK, Climbed, Undone, [Next]_vars
  PROVE  Undone'
<1>1. /\ driver \in DOMAIN Ladder /\ rung \in Nat \ {0}
      /\ Len(Ladder[driver].init) \in Nat
  BY LadderTypes DEF TypeOK
<1>2. CASE Acquire
  BY <1>2 DEF Undone, ReleasesOnlyHeld, Releasing, Acquire, Climbing
<1>3. CASE AcquireFails
  <2>1. IsPath(driver, rung) /\ todo' = Path(driver, rung)
    BY <1>1, <1>3 DEF AcquireFails, Climbing, Current, IsPath, Path
  <2>2. phase' = "undo" /\ phase = "init" /\ rung <= Len(Ladder[driver].init)
    BY <1>3 DEF AcquireFails, Climbing
  <2>3. UNCHANGED <<driver, rung, held, missed, stray>>
    BY <1>3 DEF AcquireFails
  <2>4. QED
    BY <2>1, <2>2, <2>3, PathBegins
<1>4. CASE AcquireFailsUnnoticed
  BY <1>4 DEF Undone, ReleasesOnlyHeld, Releasing, AcquireFailsUnnoticed, Climbing
<1>5. CASE InitReturns
  BY <1>5 DEF Undone, ReleasesOnlyHeld, Releasing, InitReturns
<1>6. CASE CallExit
  <2>1. rung = Len(Ladder[driver].init) + 1
    BY <1>6 DEF CallExit, Climbed
  <2>2. IsPath(driver, rung) /\ todo' = Path(driver, rung) /\ ~(rung <= Len(Ladder[driver].init))
    BY <1>1, <1>6, <2>1 DEF CallExit, IsPath, Path
  <2>3. phase' = "exit" /\ phase = "live" /\ UNCHANGED <<driver, rung, held, missed, stray>>
    BY <1>6 DEF CallExit
  <2>4. QED
    BY <2>2, <2>3, PathBegins
<1>7. CASE Release
  BY <1>7, ReleaseKeepsUndone
<1>8. CASE ModuleGone
  <2>1. UNCHANGED <<driver, todo, held, missed, stray>> /\ todo = <<>>
        /\ phase \in {"undo", "exit"} /\ phase' \in {"failed", "gone"}
        /\ (phase' \in {"undo", "failed"} <=> phase \in {"undo", "failed"})
    BY <1>8 DEF ModuleGone
  <2>2. TodoIsHeld /\ HeldIsTodo /\ TodoInOrder
    BY <2>1 DEF Undone, Releasing
  <2>3. TodoIsHeld' /\ HeldIsTodo' /\ TodoInOrder'
    BY <2>1, <2>2 DEF TodoIsHeld, HeldIsTodo, TodoInOrder, Stays
  <2>4. QED
    BY <2>1, <2>3 DEF Undone, ReleasesOnlyHeld
<1>9. CASE \E p \in Procs : Open(p) \/ Close(p)
  <2>1. UNCHANGED <<driver, phase, todo, held, missed, stray>>
    BY <1>9 DEF Open, Close
  <2>2. QED
    BY <2>1 DEF Undone, ReleasesOnlyHeld, Releasing, TodoIsHeld, HeldIsTodo, TodoInOrder, Stays
<1>10. CASE UNCHANGED vars
  BY <1>10 DEF vars, Undone, ReleasesOnlyHeld, Releasing, TodoIsHeld, HeldIsTodo, TodoInOrder, Stays
<1>11. CASE StopMissing
  <2>1. /\ UNCHANGED <<driver, todo, held, missed>> /\ phase = "exit" /\ phase' = "oops"
        /\ todo # <<>> /\ Head(todo) \notin held /\ stray' = stray \cup {Head(todo)}
        /\ Head(todo) # "irq"
    BY <1>11 DEF StopMissing, KernelThreads
  <2>2. /\ TodoIsHeld /\ HeldIsTodo /\ TodoInOrder /\ ReleasesOnlyHeld
        /\ todo \in Seq(Resources)
    BY <2>1 DEF Undone, Releasing, TypeOK
  <2>3. TodoIsHeld' /\ HeldIsTodo' /\ TodoInOrder'
    BY <2>1, <2>2 DEF TodoIsHeld, HeldIsTodo, TodoInOrder, Stays
  <2>4. Head(todo) \in missed
    <3>1. Head(todo) = todo[1] /\ 1 \in 1 .. Len(todo)
      BY <2>1, <2>2
    <3>2. QED
      BY <2>1, <2>2, <3>1 DEF TodoIsHeld
  <2>5. ReleasesOnlyHeld'
    BY <2>1, <2>2, <2>4 DEF ReleasesOnlyHeld
  <2>6. QED
    BY <2>1, <2>3, <2>5 DEF Undone
<1>12. QED
  BY <1>2, <1>3, <1>4, <1>5, <1>6, <1>7, <1>8, <1>9, <1>10, <1>11 DEF Next

(* An insmod begins with nothing.                                          *)
LEMMA LifeInit == Init => LifeInv
<1> SUFFICES ASSUME Init
             PROVE  LifeInv
  OBVIOUS
<1>1. driver \in DOMAIN Ladder /\ Len(Ladder[driver].init) \in Nat
  BY LadderTypes DEF Init
<1>2. TypeOK
  BY <1>1 DEF Init, TypeOK
<1>3. Gets(driver, rung - 1) = {}
  BY DEF Init, Gets
<1>4. Climbed /\ OpenedAtTheTop /\ Undone
  BY <1>1, <1>3 DEF Init, Climbed, OpenedAtTheTop, Undone, Releasing, ReleasesOnlyHeld
<1>5. QED
  BY <1>2, <1>4 DEF LifeInv

(* The steps of a driver's life together.                                  *)
LEMMA LifeStep == LifeInv /\ [Next]_vars => LifeInv'
BY TypeStep, ClimbedStep, OpenedStep, UndoneStep DEF LifeInv

-----------------------------------------------------------------------------
(* What a driver's life keeps: what is left is what the code forgets.      *)
LEMMA LifeUndoes == LifeInv => UndoesWhatItDid
<1> SUFFICES ASSUME LifeInv
             PROVE  UndoesWhatItDid
  OBVIOUS
<1>1. TypeOK /\ Climbed /\ Undone
  BY DEF LifeInv
<1>2. NothingElseLeftBehind
  <2> SUFFICES ASSUME phase \in {"failed", "gone"}, NEW r \in held
               PROVE  r \in Forgotten
    BY DEF NothingElseLeftBehind
  <2>1. todo = <<>> /\ HeldIsTodo
    BY <1>1 DEF Undone, Releasing
  <2>2. \/ Stays(driver, phase \in {"undo", "failed"}, r)
        \/ driver = "Procfs" /\ r = "entry" /\ "directory" \in missed
    BY <2>1 DEF HeldIsTodo
  <2>3. QED
    BY <2>2 DEF Stays, Forgotten
<1>3. ReleasesOnlyHeld
  BY <1>1 DEF Undone
<1>4. DependenciesHeld
  <2>1. CASE phase \in {"init", "live"}
    <3>1. /\ driver \in DOMAIN Ladder /\ rung - 1 \in 0 .. Len(Ladder[driver].init)
          /\ held \cup missed = Gets(driver, rung - 1)
      BY <1>1, <2>1, LadderTypes DEF TypeOK, Climbed
    <3>2. QED
      BY <3>1, GetsInOrder DEF DependenciesHeld
  <2>2. CASE Releasing
    BY <1>1, <2>2 DEF Undone, TodoInOrder, DependenciesHeld
  <2>3. QED
    BY <1>1, <2>1, <2>2 DEF TypeOK, Releasing
<1>5. QED
  BY <1>2, <1>3, <1>4 DEF UndoesWhatItDid

-----------------------------------------------------------------------------
(* What processes do is no step of a driver's life but an open and a close.*)
LEMMA ProcLeavesLife ==
  ASSUME NEW p \in Procs, ProcCalls(p)
  PROVE  UNCHANGED vars /\ driver = "Procfs"
BY DEF ProcCalls, ProcInside, ProcOpen, ReadCall, ProcClose, ProcWrite, LowerLen, CopyName,
       CopyNameFault, RaiseLen, FillName, FillNameFault, TerminateName, Entered

(* user_app.c uses the page through an open file.                          *)
LEMMA AppLeavesLife ==
  ASSUME NEW p \in Procs, AppSteps(p)
  PROVE  UNCHANGED vars /\ driver = "Mmap" /\ p \in opened
BY DEF AppSteps, MapPage, MapPageFails, Unmap, ClearCell, MemsetDone, WriteCell, StrcpyDone,
       Notify, PrintCell, PrintEnds, Put, At

(* The calls that move a number are no step of the life either.            *)
LEMMA ValueLeavesLife ==
  ASSUME NEW p \in Procs, ValueCalls(p)
  PROVE  UNCHANGED vars
BY DEF ValueCalls, EnterNumber, WriteDigit, Written, WriteFault, ReadDigit, ReadEnds, ReadFault,
       SysfsStore, SysfsStoreNoNumber, SetSpeed, Stored, Show, Shown

(* A step in use is a step of the driver's life, or none.                  *)
LEMMA UseProjects ==
  ASSUME [UseNext]_allVars
  PROVE  [Next]_vars
<1>1. CASE LifecycleStep
  BY <1>1 DEF LifecycleStep, ClosesAtWill, Next
<1>2. CASE ExitStep
  BY <1>2 DEF ExitStep, Next
<1>3. ASSUME NEW p \in Procs, ProcStep(p)
      PROVE  [Next]_vars
  BY <1>3, ProcLeavesLife DEF ProcStep
<1>4. ASSUME NEW p \in Procs, MmapStep(p)
      PROVE  [Next]_vars
  BY <1>4, AppLeavesLife DEF MmapStep, AppCloses, Next
<1>5. ASSUME NEW p \in Procs, ValueStep(p)
      PROVE  [Next]_vars
  BY <1>5, ValueLeavesLife DEF ValueStep, UserCloses, Next
<1>6. CASE UNCHANGED allVars
  BY <1>6 DEF allVars
<1>7. QED
  BY <1>1, <1>2, <1>3, <1>4, <1>5, <1>6 DEF UseNext

(* With its users, a driver lives as it does alone: they open and close    *)
(* its file, and hold up proc_remove, but take no other part in its init   *)
(* and exit.                                                               *)
LEMMA LivesAsDriver == UseSpec => Spec
<1>1. UseInit => Init
  BY DEF UseInit
<1>2. [UseNext]_allVars => [Next]_vars
  BY UseProjects
<1>3. QED
  BY <1>1, <1>2, PTL DEF UseSpec, Spec

(* A driver's life keeps its invariant, with or without users.             *)
THEOREM LifeInvariant == Spec => []LifeInv
BY LifeInit, LifeStep, PTL DEF Spec

(* At whatever rung init fails, and whenever rmmod comes, the module       *)
(* releases what it got, nothing twice, nothing before what was made in    *)
(* it, and leaves behind what Forgotten lists and no more.                 *)
THEOREM EveryPathUndoes == UseSpec => []UndoesWhatItDid
BY LivesAsDriver, LifeInvariant, LifeUndoes, PTL

-----------------------------------------------------------------------------
(* The procfs file                                                         *)

(* The file begins with a name, and with len set for the first reader.     *)
LEMMA ProcInitInv == UseInit => ProcInv
<1> SUFFICES ASSUME UseInit
             PROVE  ProcInv
  OBVIOUS
<1>1. /\ NameSize - 1 \in 0 .. NameSize - 1 /\ NameSize - 1 # 0 /\ 0 \in 0 .. NameSize - 1
      /\ 0 \in 0 .. 2
  OBVIOUS
<1>2. ProcTypeOK
  BY <1>1 DEF UseInit, ProcInit, ProcTypeOK
<1>3. FileWhileCalled /\ ReadInv
  BY DEF UseInit, ProcInit, FileWhileCalled, InDriver, ReadInv, Reading, LenInStep
<1>4. NameTerminated
  BY <1>1 DEF UseInit, ProcInit, NameTerminated
<1>5. QED
  BY <1>2, <1>3, <1>4 DEF ProcInv

(* Calls of the procfs driver keep the types: a clamped write fits.        *)
LEMMA ProcTypeStep ==
  ASSUME ProcTypeOK, NEW p \in Procs, ProcCalls(p)
  PROVE  ProcTypeOK'
<1> USE DEF ProcTypeOK, Entered, Reading
<1>1. CASE ProcOpen(p)
  <2>1. lone' \in BOOLEAN
    BY <1>1, Zenon DEF ProcOpen
  <2>2. QED
    BY <1>1, <2>1 DEF ProcOpen
<1>2. CASE ReadCall(p)
  BY <1>2 DEF ReadCall
<1>3. CASE ProcClose(p)
  <2>1. lone' \in BOOLEAN
    BY <1>3, Zenon DEF ProcClose
  <2>2. QED
    BY <1>3, <2>1 DEF ProcClose
<1>4. CASE ProcWrite(p)
  <2>1. \A n \in 0 .. MaxWrite : Clamp(n) \in 0 .. NameSize - 1
    BY DEF Clamp
  <2>2. QED
    BY <1>4, <2>1 DEF ProcWrite
<1>5. CASE LowerLen(p)
  BY <1>5 DEF LowerLen
<1>6. CASE CopyName(p)
  BY <1>6 DEF CopyName
<1>7. CASE CopyNameFault(p)
  BY <1>7 DEF CopyNameFault
<1>8. CASE RaiseLen(p)
  BY <1>8 DEF RaiseLen
<1>9. CASE FillName(p)
  BY <1>9 DEF FillName
<1>10. CASE FillNameFault(p)
  BY <1>10 DEF FillNameFault, WriteReturns
<1>11. CASE TerminateName(p)
  BY <1>11 DEF TerminateName, WriteReturns
<1>12. QED
  BY <1>1, <1>2, <1>3, <1>4, <1>5, <1>6, <1>7, <1>8, <1>9, <1>10, <1>11 DEF ProcCalls, ProcInside

(* No call begins but through the file, and no call ends later than its    *)
(* file.                                                                   *)
LEMMA FileStep ==
  ASSUME LifeInv, ProcTypeOK, FileWhileCalled, [UseNext]_allVars
  PROVE  FileWhileCalled'
<1>1. CASE LifecycleStep
  <2>1. held \subseteq held' /\ UNCHANGED call
    BY <1>1 DEF LifecycleStep, dataVars, procVars, Acquire, AcquireFails, AcquireFailsUnnoticed,
                InitReturns, CallExit, Open, ClosesAtWill, Close
  <2>2. QED
    BY <2>1 DEF FileWhileCalled, InDriver
<1>2. CASE ExitStep
  <2>1. UNCHANGED call
    BY <1>2 DEF ExitStep, dataVars, procVars
  <2>2. CASE StopMissing \/ ModuleGone
    BY <2>1, <2>2 DEF StopMissing, ModuleGone, FileWhileCalled, InDriver
  <2>3. CASE Release /\ Drained
    <3>1. Releasing /\ todo \in Seq(Resources) /\ todo # <<>>
      BY <2>3 DEF Release, Releasing, LifeInv, TypeOK
    <3>2. Head(todo) # "entry"
      BY <3>1 DEF LifeInv, Undone, TodoIsHeld
    <3>3. CASE Head(todo) = "directory" /\ "directory" \in held
      BY <2>1, <2>3, <3>3 DEF Drained, FileWhileCalled, InDriver
    <3>4. CASE ~(Head(todo) = "directory" /\ "directory" \in held)
      <4>1. "entry" \in held => "entry" \in held'
        BY <2>3, <3>2, <3>4 DEF Release, With
      <4>2. QED
        BY <2>1, <4>1 DEF FileWhileCalled, InDriver
    <3>5. QED
      BY <3>3, <3>4
  <2>4. QED
    BY <1>2, <2>2, <2>3 DEF ExitStep
<1>3. ASSUME NEW p \in Procs, ProcStep(p)
      PROVE  FileWhileCalled'
  <2>1. ProcCalls(p) /\ UNCHANGED held
    BY <1>3, ProcLeavesLife DEF ProcStep, vars
  <2>2. CASE "entry" \in held
    BY <2>1, <2>2 DEF FileWhileCalled
  <2>3. CASE "entry" \notin held
    <3>1. ~InDriver(p)
      BY <2>3 DEF FileWhileCalled
    <3>2. ~ProcInside(p)
      BY <3>1 DEF ProcInside, LowerLen, CopyName, CopyNameFault, RaiseLen, FillName,
                  FillNameFault, TerminateName, Entered, InDriver
    <3>3. ProcClose(p)
      BY <2>1, <2>3, <3>2 DEF ProcCalls, ProcOpen, ReadCall, ProcWrite, Reachable
    <3>4. QED
      BY <2>1, <3>3 DEF ProcClose, Entered, FileWhileCalled, InDriver, ProcTypeOK
  <2>4. QED
    BY <2>2, <2>3
<1>4. ASSUME NEW p \in Procs, MmapStep(p)
      PROVE  FileWhileCalled'
  BY <1>4, AppLeavesLife
  DEF MmapStep, AppCloses, Close, vars, procVars, FileWhileCalled, InDriver
<1>5. ASSUME NEW p \in Procs, ValueStep(p)
      PROVE  FileWhileCalled'
  BY <1>5, ValueLeavesLife
  DEF ValueStep, UserCloses, Close, vars, procVars, FileWhileCalled, InDriver
<1>6. CASE UNCHANGED allVars
  BY <1>6 DEF allVars, vars, dataVars, procVars, FileWhileCalled, InDriver
<1>7. QED
  BY <1>1, <1>2, <1>3, <1>4, <1>5, <1>6 DEF UseNext

(* The last cell of the name is never filled.                              *)
LEMMA NameStep ==
  ASSUME ProcTypeOK, NameTerminated, NEW p \in Procs, ProcCalls(p)
  PROVE  NameTerminated'
<1> USE DEF NameTerminated
<1>1. /\ NameSize - 1 \in 0 .. NameSize - 1 /\ length[p] \in 0 .. NameSize - 1
      /\ filled[p] \in 0 .. NameSize - 1 /\ name_arr \in [0 .. NameSize - 1 -> {0, 1}]
  BY DEF ProcTypeOK
<1>2. CASE FillName(p)
  BY <1>1, <1>2 DEF FillName
<1>3. CASE FillNameFault(p)
  BY <1>1, <1>3 DEF FillNameFault
<1>4. CASE TerminateName(p)
  BY <1>1, <1>4 DEF TerminateName
<1>5. CASE ProcOpen(p) \/ ReadCall(p) \/ ProcClose(p) \/ ProcWrite(p)
  BY <1>5 DEF ProcOpen, ReadCall, ProcClose, ProcWrite
<1>6. CASE LowerLen(p) \/ CopyName(p) \/ CopyNameFault(p) \/ RaiseLen(p)
  BY <1>6 DEF LowerLen, CopyName, CopyNameFault, RaiseLen
<1>7. QED
  BY <1>2, <1>3, <1>4, <1>5, <1>6 DEF ProcCalls, ProcInside

(* A reader that is alone leaves len where the next one expects it.        *)
LEMMA ReadStep ==
  ASSUME ProcTypeOK, ReadInv, NEW p \in Procs, ProcCalls(p)
  PROVE  ReadInv'
<1>0. /\ call \in [Procs -> {"closed", "fill"} \cup Reading] /\ served \in [Procs -> 0 .. 2]
      /\ len \in {0, 1} /\ ended \subseteq Procs /\ lone \in BOOLEAN
  BY DEF ProcTypeOK
<1> USE DEF Reading, LenInStep, NameDue, EndDue, Entered
<1>1. CASE ProcOpen(p)
  <2>1. /\ \A q \in Procs : call[q] \notin Reading => served[q] = 0 /\ q \notin ended
        /\ lone' => lone /\ \A q \in Procs : call[q] \notin Reading
    BY <1>1 DEF ProcOpen, ReadInv
  <2>2. QED
    BY <1>0, <1>1, <2>1 DEF ProcOpen, ReadInv
<1>2. CASE ReadCall(p)
  BY <1>0, <1>2 DEF ReadCall, ReadInv
<1>3. CASE ProcClose(p)
  <2>1. lone' => lone /\ (p \in ended \/ served[p] = 0)
    BY <1>3 DEF ProcClose
  <2>2. QED
    BY <1>0, <1>3, <2>1 DEF ProcClose, ReadInv
<1>4. CASE ProcWrite(p)
  BY <1>0, <1>4 DEF ProcWrite, ReadInv
<1>5. CASE LowerLen(p)
  BY <1>0, <1>5 DEF LowerLen, ReadInv
<1>6. CASE CopyName(p)
  BY <1>0, <1>6 DEF CopyName, ReadInv
<1>7. CASE CopyNameFault(p)
  <2>1. ~lone'
    BY <1>7 DEF CopyNameFault
  <2>2. QED
    BY <1>0, <1>7, <2>1 DEF CopyNameFault, ReadInv
<1>8. CASE RaiseLen(p)
  BY <1>0, <1>8 DEF RaiseLen, ReadInv
<1>9. CASE FillName(p) \/ FillNameFault(p) \/ TerminateName(p)
  <2>1. /\ UNCHANGED <<len, served, ended, lone>>
        /\ \A q \in Procs : call'[q] \in Reading <=> call[q] \in Reading
        /\ \A q \in Procs : call[q] \in Reading => call'[q] = call[q]
    BY <1>0, <1>9 DEF FillName, FillNameFault, TerminateName
  <2>2. QED
    BY <1>0, <2>1 DEF ReadInv
<1>10. QED
  BY <1>1, <1>2, <1>3, <1>4, <1>5, <1>6, <1>7, <1>8, <1>9 DEF ProcCalls, ProcInside

(* Every step keeps what is right of the procfs file.                      *)
LEMMA ProcInvStep ==
  ASSUME LifeInv, ProcInv, [UseNext]_allVars
  PROVE  ProcInv'
<1>1. FileWhileCalled'
  BY FileStep DEF ProcInv
<1>2. CASE UNCHANGED procVars
  BY <1>1, <1>2 DEF ProcInv, procVars, ProcTypeOK, NameTerminated, ReadInv, LenInStep, NameDue,
                    EndDue
<1>3. ASSUME NEW p \in Procs, ProcCalls(p)
      PROVE  ProcInv'
  BY <1>1, <1>3, ProcTypeStep, NameStep, ReadStep DEF ProcInv
<1>4. QED
  BY <1>2, <1>3
  DEF UseNext, allVars, dataVars, LifecycleStep, ExitStep, ProcStep, MmapStep, ValueStep

(* What the procfs invariant says of an end of file.                       *)
LEMMA ProcServes == ProcInv => ReadersGetTheName
<1> SUFFICES ASSUME ProcInv, lone, NEW p \in ended
             PROVE  served[p] = 1
  BY DEF ProcInv, ReadersGetTheName, NameOnceBeforeEnd
<1>1. p \in Procs /\ call[p] \in Reading /\ LenInStep(p)
  BY DEF ProcInv, ProcTypeOK, ReadInv
<1>2. QED
  BY <1>1 DEF Reading, LenInStep, NameDue, EndDue

-----------------------------------------------------------------------------
(* The mapped page                                                         *)

(* The page begins cleared, and nobody has it.                             *)
LEMMA MmapInitInv == UseInit => MmapInv
<1> SUFFICES ASSUME UseInit
             PROVE  MmapInv
  OBVIOUS
<1>1. 1 \in 1 .. PageCells + 1 /\ 0 \in 0 .. TextCells /\ TextCells \in Nat
  OBVIOUS
<1>2. MmapTypeOK
  BY <1>1 DEF UseInit, MmapInit, MmapTypeOK
<1>3. PageIsText /\ PrintFollows /\ SoleInv /\ AppHasItOpen
  BY DEF UseInit, MmapInit, PageIsText, PrintFollows, SoleInv, AppHasItOpen
<1>4. PrintsTextFromItsStart
  BY <1>1 DEF UseInit, MmapInit, PrintsTextFromItsStart
<1>5. QED
  BY <1>2, <1>3, <1>4 DEF MmapInv

(* A process has the file open as long as it runs user_app.c.              *)
LEMMA AppHasItOpenStep ==
  ASSUME MmapTypeOK, AppHasItOpen, [UseNext]_allVars
  PROVE  AppHasItOpen'
<1> USE DEF AppHasItOpen
<1>1. CASE LifecycleStep
  <2>1. UNCHANGED <<app, driver>> /\ (driver # "Mmap" \/ opened \subseteq opened')
    BY <1>1 DEF LifecycleStep, dataVars, mmapVars, Acquire, AcquireFails, AcquireFailsUnnoticed,
                InitReturns, CallExit, Open, ClosesAtWill, Close
  <2>2. QED
    BY <2>1
<1>2. CASE ExitStep
  BY <1>2 DEF ExitStep, dataVars, mmapVars, Release, StopMissing, ModuleGone
<1>3. ASSUME NEW p \in Procs, ProcStep(p)
      PROVE  AppHasItOpen'
  BY <1>3, ProcLeavesLife DEF ProcStep, vars, mmapVars
<1>4. ASSUME NEW p \in Procs, MmapStep(p)
      PROVE  AppHasItOpen'
  <2>1. CASE AppSteps(p)
    <3>1. /\ UNCHANGED <<driver, opened>> /\ driver = "Mmap" /\ p \in opened
          /\ \A q \in Procs : q # p => app'[q] = app[q]
      BY <2>1, AppLeavesLife
      DEF vars, AppSteps, MapPage, MapPageFails, Unmap, ClearCell, MemsetDone, WriteCell,
          StrcpyDone, Notify, PrintCell, PrintEnds, Put, At, MmapTypeOK
    <3>2. QED
      BY <3>1
  <2>2. CASE AppCloses(p)
    BY <2>2 DEF AppCloses, Close, MmapTypeOK
  <2>3. QED
    BY <1>4, <2>1, <2>2 DEF MmapStep
<1>5. ASSUME NEW p \in Procs, ValueStep(p)
      PROVE  AppHasItOpen'
  <2>1. UNCHANGED <<app, driver>> /\ (driver # "Mmap" \/ opened \subseteq opened')
    BY <1>5, ValueLeavesLife
    DEF ValueStep, vars, mmapVars, UserCloses, Close, IoctlDrivers
  <2>2. QED
    BY <2>1
<1>6. CASE UNCHANGED allVars
  BY <1>6 DEF allVars, vars, dataVars, mmapVars
<1>7. QED
  BY <1>1, <1>2, <1>3, <1>4, <1>5, <1>6 DEF UseNext

(* The rest of the mapped page's invariant.                                *)
PageInv ==
  MmapTypeOK /\ PageIsText /\ PrintFollows /\ PrintsTextFromItsStart /\ SoleInv

(* Every step of user_app.c keeps the page, and what is printed, its text. *)
LEMMA PageStep ==
  ASSUME PageInv, NEW p \in Procs, AppSteps(p) \/ AppCloses(p)
  PROVE  PageInv'
<1>0. /\ kernel_buffer \in [1 .. PageCells -> 0 .. TextCells]
      /\ app \in [Procs -> {"open", "close"} \cup Mapped]
      /\ cursor \in [Procs -> 1 .. PageCells + 1]
      /\ printed \in [Procs -> Seq(0 .. TextCells)]
      /\ sole \subseteq Procs
      /\ TextCells \in Nat \ {0} /\ TextCells < PageCells /\ PageCells \in Nat
      /\ 1 \in 1 .. PageCells + 1 /\ 0 \in 0 .. TextCells
  BY DEF PageInv, MmapTypeOK
<1> USE DEF PageInv, Mapped
<1>1. CASE MapPage(p)
  <2>1. MmapTypeOK'
    BY <1>0, <1>1 DEF MmapTypeOK, MapPage, At
  <2>2. PageIsText' /\ PrintFollows' /\ PrintsTextFromItsStart'
    BY <1>0, <1>1 DEF MapPage, At, PageIsText, PrintFollows, PrintsTextFromItsStart
  <2>3. SoleInv'
    BY <1>0, <1>1 DEF MapPage, At, SoleInv, Mapping, Wrote
  <2>4. QED
    BY <2>1, <2>2, <2>3
<1>2. CASE MapPageFails(p) \/ Unmap(p)
  <2>0. /\ UNCHANGED <<kernel_buffer, cursor, printed, sole>>
        /\ app' = [app EXCEPT ![p] = "close"]
    BY <1>2 DEF MapPageFails, Unmap, At
  <2>1. MmapTypeOK'
    BY <1>0, <1>2 DEF MmapTypeOK, MapPageFails, Unmap, At
  <2>2. PageIsText' /\ PrintFollows' /\ PrintsTextFromItsStart'
    BY <1>0, <1>2 DEF MapPageFails, Unmap, At, PageIsText, PrintFollows, PrintsTextFromItsStart
  <2>3. SoleInv'
    <3> SUFFICES ASSUME NEW q \in sole
                 PROVE  /\ app'[q] \in Mapped => \A r \in Procs : app'[r] \in Mapped => r = q
                        /\ app'[q] = "strcpy" => Wrote(q, cursor[q])
                        /\ app'[q] \in {"notify", "print", "munmap"} => Wrote(q, PageCells)
                        /\ app'[q] = "munmap" => Len(printed[q]) = TextCells
      BY <2>0 DEF SoleInv, Wrote
    <3>1. \A r \in Procs : app'[r] \in Mapped => app[r] = app'[r]
      BY <1>0, <2>0
    <3>2. QED
      BY <1>0, <3>1 DEF SoleInv
  <2>4. QED
    BY <2>1, <2>2, <2>3
<1>3. CASE ClearCell(p)
  <2>1. MmapTypeOK'
    BY <1>0, <1>3 DEF MmapTypeOK, ClearCell, Put, At
  <2>2. PageIsText' /\ PrintFollows' /\ PrintsTextFromItsStart'
    BY <1>0, <1>3 DEF ClearCell, Put, At, PageIsText, PrintFollows, PrintsTextFromItsStart
  <2>3. SoleInv'
    BY <1>0, <1>3 DEF ClearCell, Put, At, SoleInv, Wrote
  <2>4. QED
    BY <2>1, <2>2, <2>3
<1>4. CASE MemsetDone(p)
  <2>1. MmapTypeOK'
    BY <1>0, <1>4 DEF MmapTypeOK, MemsetDone, At
  <2>2. PageIsText' /\ PrintFollows' /\ PrintsTextFromItsStart'
    BY <1>0, <1>4 DEF MemsetDone, At, PageIsText, PrintFollows, PrintsTextFromItsStart
  <2>3. SoleInv'
    BY <1>0, <1>4 DEF MemsetDone, At, SoleInv, Wrote
  <2>4. QED
    BY <2>1, <2>2, <2>3
<1>5. CASE WriteCell(p)
  <2>1. cursor[p] \in 1 .. PageCells /\ cursor[p] + 1 \in 1 .. PageCells + 1
    BY <1>0, <1>5 DEF WriteCell
  <2>2. /\ app[p] = "strcpy" /\ UNCHANGED <<app, printed, sole>>
        /\ kernel_buffer' = [kernel_buffer EXCEPT
                               ![cursor[p]] = IF cursor[p] <= TextCells THEN cursor[p] ELSE 0]
        /\ cursor' = [cursor EXCEPT ![p] = cursor[p] + 1]
    BY <1>0, <1>5 DEF WriteCell, Put, At
  <2>3. MmapTypeOK'
    BY <1>0, <2>1, <2>2 DEF MmapTypeOK
  <2>4. PageIsText'
    BY <1>0, <2>1, <2>2 DEF PageIsText
  <2>5. PrintFollows' /\ PrintsTextFromItsStart'
    BY <1>0, <2>1, <2>2 DEF PrintFollows, PrintsTextFromItsStart
  <2>6. SoleInv'
    BY <1>0, <2>1, <2>2 DEF SoleInv, Wrote
  <2>7. QED
    BY <2>3, <2>4, <2>5, <2>6
<1>6. CASE StrcpyDone(p)
  <2>1. MmapTypeOK'
    BY <1>0, <1>6 DEF MmapTypeOK, StrcpyDone, At
  <2>2. PageIsText' /\ PrintFollows' /\ PrintsTextFromItsStart'
    BY <1>0, <1>6 DEF StrcpyDone, At, PageIsText, PrintFollows, PrintsTextFromItsStart
  <2>3. SoleInv'
    BY <1>0, <1>6 DEF StrcpyDone, At, SoleInv, Wrote
  <2>4. QED
    BY <2>1, <2>2, <2>3
<1>7. CASE Notify(p)
  <2>1. MmapTypeOK'
    BY <1>0, <1>7 DEF MmapTypeOK, Notify, At
  <2>2. PageIsText' /\ PrintFollows' /\ PrintsTextFromItsStart'
    BY <1>0, <1>7 DEF Notify, At, PageIsText, PrintFollows, PrintsTextFromItsStart
  <2>3. SoleInv'
    BY <1>0, <1>7 DEF Notify, At, SoleInv, Wrote
  <2>4. QED
    BY <2>1, <2>2, <2>3
<1>8. CASE PrintCell(p)
  <2> DEFINE c == cursor[p]
             old == printed[p]
             new == Append(old, kernel_buffer[c])
  <2>1. /\ c \in 1 .. PageCells /\ kernel_buffer[c] = c /\ c <= TextCells
        /\ old \in Seq(0 .. TextCells) /\ Len(old) = c - 1
        /\ \A i \in 1 .. Len(old) : old[i] = i
    <3>1. /\ app[p] = "print" /\ c \in 1 .. PageCells /\ kernel_buffer[c] # 0
          /\ old \in Seq(0 .. TextCells)
      BY <1>0, <1>8 DEF PrintCell, At
    <3>2. kernel_buffer[c] = c /\ c <= TextCells
      BY <3>1 DEF PageIsText
    <3>3. Len(old) = c - 1 /\ \A i \in 1 .. Len(old) : old[i] = i
      BY <3>1 DEF PrintFollows, PrintsTextFromItsStart
    <3>4. QED
      BY <3>1, <3>2, <3>3
  <2>2. /\ UNCHANGED <<kernel_buffer, app, sole>>
        /\ printed' = [printed EXCEPT ![p] = new] /\ cursor' = [cursor EXCEPT ![p] = c + 1]
        /\ app[p] = "print"
    BY <1>0, <1>8 DEF PrintCell, At
  <2>3. /\ new \in Seq(0 .. TextCells) /\ Len(new) = c
        /\ \A i \in 1 .. Len(new) : new[i] = i
    BY <1>0, <2>1
  <2> HIDE DEF c, old, new
  <2>4. MmapTypeOK'
    BY <1>0, <2>1, <2>2, <2>3 DEF MmapTypeOK
  <2>5. PageIsText' /\ PrintFollows'
    BY <1>0, <2>1, <2>2, <2>3 DEF PageIsText, PrintFollows
  <2>6. PrintsTextFromItsStart'
    BY <1>0, <2>1, <2>2, <2>3 DEF PrintsTextFromItsStart
  <2>7. SoleInv'
    BY <1>0, <2>1, <2>2 DEF SoleInv, Wrote
  <2>8. QED
    BY <2>4, <2>5, <2>6, <2>7
<1>9. CASE PrintEnds(p)
  <2>1. /\ UNCHANGED <<kernel_buffer, cursor, printed, sole>>
        /\ app' = [app EXCEPT ![p] = "munmap"] /\ app[p] = "print"
        /\ cursor[p] = PageCells + 1 \/ kernel_buffer[cursor[p]] = 0
    BY <1>9 DEF PrintEnds, At
  <2>2. Len(printed[p]) = cursor[p] - 1 /\ Len(printed[p]) <= TextCells
    BY <2>1 DEF PrintFollows, PrintsTextFromItsStart
  <2>3. MmapTypeOK'
    BY <1>0, <2>1 DEF MmapTypeOK
  <2>4. PageIsText' /\ PrintFollows' /\ PrintsTextFromItsStart'
    BY <1>0, <2>1 DEF PageIsText, PrintFollows, PrintsTextFromItsStart
  <2>5. ASSUME p \in sole
        PROVE  Len(printed[p]) = TextCells
    <3>1. \A i \in 1 .. TextCells : kernel_buffer[i] = i
      BY <1>0, <2>1, <2>5 DEF SoleInv, Wrote
    <3>2. ~(cursor[p] \in 1 .. TextCells)
      BY <1>0, <2>1, <3>1
    <3>3. cursor[p] > TextCells
      BY <1>0, <3>2
    <3>4. QED
      BY <1>0, <2>2, <3>3
  <2>6. SoleInv'
    BY <1>0, <2>1, <2>5 DEF SoleInv, Wrote
  <2>7. QED
    BY <2>3, <2>4, <2>6
<1>10. CASE AppCloses(p)
  <2>1. MmapTypeOK'
    BY <1>0, <1>10 DEF MmapTypeOK, AppCloses
  <2>2. PageIsText' /\ PrintFollows' /\ PrintsTextFromItsStart'
    BY <1>0, <1>10 DEF AppCloses, PageIsText, PrintFollows, PrintsTextFromItsStart
  <2>3. SoleInv'
    BY <1>0, <1>10 DEF AppCloses, SoleInv, Wrote
  <2>4. QED
    BY <2>1, <2>2, <2>3
<1>11. QED
  BY <1>1, <1>2, <1>3, <1>4, <1>5, <1>6, <1>7, <1>8, <1>9, <1>10 DEF AppSteps

(* Every step keeps what is right of the mapped page.                      *)
LEMMA MmapInvStep ==
  ASSUME MmapInv, [UseNext]_allVars
  PROVE  MmapInv'
<1>1. AppHasItOpen'
  BY AppHasItOpenStep DEF MmapInv
<1>2. CASE UNCHANGED mmapVars
  BY <1>1, <1>2
  DEF MmapInv, mmapVars, MmapTypeOK, PageIsText, PrintFollows, PrintsTextFromItsStart, SoleInv,
      Wrote
<1>3. ASSUME NEW p \in Procs, AppSteps(p) \/ AppCloses(p)
      PROVE  MmapInv'
  BY <1>1, <1>3, PageStep DEF MmapInv, PageInv
<1>4. QED
  BY <1>2, <1>3
  DEF UseNext, allVars, dataVars, LifecycleStep, ExitStep, ProcStep, MmapStep, ValueStep

(* The invariant says what is printed.                                     *)
LEMMA MmapPrints == MmapInv => PrintsTheText
BY DEF MmapInv, SoleInv, PrintsTheText, SolePrintIsWhole

-----------------------------------------------------------------------------
(* The drivers that keep a number                                          *)

(* The digits of a number that fit make an int.                            *)
LEMMA DigitsOfNumbers ==
  /\ \A n \in Numbers : AsInt(n) \in Ints /\ \A i \in 1 .. Digits : AsInt(n)[i] = n[i]
  /\ Small(0) \in Numbers /\ Small(1) \in Numbers
<1>1. \A i \in 1 .. Digits : i \in 1 .. Digits + 1
  OBVIOUS
<1>2. QED
  BY <1>1 DEF Numbers, Ints, AsInt, Small

(* At first nobody owns value.                                             *)
LEMMA ValueInitInv == UseInit => ValueInv
<1> SUFFICES ASSUME UseInit
             PROVE  ValueInv
  OBVIOUS
<1>1. 1 \in 1 .. Digits + 1
  OBVIOUS
<1>2. ValueTypeOK
  BY <1>1, DigitsOfNumbers DEF UseInit, ValueInit, ValueTypeOK
<1>3. NumberInv
  BY DEF UseInit, ValueInit, NumberInv
<1>4. QED
  BY <1>2, <1>3 DEF ValueInv

(* Calls that copy digits keep the types.                                  *)
LEMMA ValueTypeStep ==
  ASSUME ValueTypeOK, NEW p \in Procs, ValueCalls(p) \/ UserCloses(p)
  PROVE  ValueTypeOK'
<1> USE DEF ValueTypeOK
<1>0. 1 \in 1 .. Digits + 1 /\ \A i \in 1 .. Digits : i + 1 \in 1 .. Digits + 1
  OBVIOUS
<1>1. CASE EnterNumber(p)
  BY <1>0, <1>1 DEF EnterNumber, InApp
<1>2. CASE WriteDigit(p)
  <2>1. /\ digit[p] \in 1 .. Digits /\ AsInt(number[p]) \in Ints
        /\ digit[p] + 1 \in 1 .. Digits + 1
    BY <1>0, <1>2, DigitsOfNumbers DEF WriteDigit
  <2>2. value' \in Ints
    BY <1>2, <2>1 DEF WriteDigit, Ints
  <2>3. QED
    BY <1>2, <2>1, <2>2 DEF WriteDigit, InApp
<1>3. CASE Written(p)
  BY <1>0, <1>3 DEF Written, InApp
<1>4. CASE WriteFault(p)
  <2>1. value' \in Ints
    BY <1>4 DEF WriteFault, Ints
  <2>2. QED
    BY <1>0, <1>4, <2>1 DEF WriteFault, InApp
<1>5. CASE ReadDigit(p)
  <2>1. digit[p] \in 1 .. Digits /\ digit[p] + 1 \in 1 .. Digits + 1
    BY <1>0, <1>5 DEF ReadDigit
  <2>2. [answer[p] EXCEPT ![digit[p]] = value[digit[p]]] \in Ints
    BY <2>1 DEF Ints
  <2>3. answer' \in [Procs -> Ints]
    BY <1>5, <2>2 DEF ReadDigit
  <2>4. QED
    BY <1>5, <2>1, <2>3 DEF ReadDigit, InApp
<1>6. CASE ReadEnds(p)
  BY <1>6 DEF ReadEnds, InApp
<1>7. CASE ReadFault(p)
  BY <1>7 DEF ReadFault, InApp
<1>8. CASE SysfsStore(p)
  BY <1>8, DigitsOfNumbers DEF SysfsStore, InFile, Stored
<1>9. CASE SysfsStoreNoNumber(p)
  BY <1>9 DEF SysfsStoreNoNumber, InFile
<1>10. CASE SetSpeed(p)
  BY <1>10, DigitsOfNumbers DEF SetSpeed, InFile, Stored
<1>11. CASE Show(p)
  BY <1>11 DEF Show, InFile
<1>12. CASE Shown(p)
  BY <1>0, <1>12, DigitsOfNumbers DEF Shown, InFile, Forgets
<1>13. CASE UserCloses(p)
  BY <1>0, <1>13, DigitsOfNumbers DEF UserCloses, Forgets
<1>14. QED
  BY <1>1, <1>2, <1>3, <1>4, <1>5, <1>6, <1>7, <1>8, <1>9, <1>10, <1>11, <1>12, <1>13
  DEF ValueCalls

(* A number whose digits are all in value is value.                        *)
LEMMA AllDigits ==
  ASSUME NEW v \in Ints, NEW n \in Numbers, \A i \in 1 .. Digits : v[i] = n[i]
  PROVE  v = AsInt(n)
BY DigitsOfNumbers DEF Ints

(* Who wrote last, and its whole number, can follow it to the answer.      *)
LEMMA NumberStep ==
  ASSUME ValueTypeOK, NumberInv, UNCHANGED driver, NEW p \in Procs,
         ValueCalls(p) \/ UserCloses(p)
  PROVE  NumberInv'
<1>0. /\ user \in [Procs -> {"start", "write", "read", "print"}]
      /\ digit \in [Procs -> 1 .. Digits + 1]
      /\ number \in [Procs -> Numbers] /\ answer \in [Procs -> Ints] /\ value \in Ints
      /\ sound \subseteq Procs /\ owner \subseteq Procs
      /\ \A q \in owner \cap sound : Owns(q)
      /\ driver = "Param" => owner \subseteq sound
  BY DEF ValueTypeOK, NumberInv
<1>1. SUFFICES /\ \A q \in owner' \cap sound' : Owns(q)'
               /\ driver = "Param" => owner' \subseteq sound'
  BY DEF NumberInv
<1> USE DEF Owns
<1>2. CASE EnterNumber(p)
  <2>1. driver # "Param"
    BY <1>2 DEF EnterNumber, InApp, IoctlDrivers
  <2>2. PICK n \in Numbers : Fits(n) /\ number' = [number EXCEPT ![p] = n]
    BY <1>2 DEF EnterNumber
  <2>3. QED
    BY <1>0, <1>2, <2>1, <2>2 DEF EnterNumber, InApp, Fits
<1>3. CASE WriteDigit(p)
  <2>1. driver # "Param" /\ user[p] = "write" /\ user' = [user EXCEPT ![p] = "write"]
    BY <1>3 DEF WriteDigit, InApp, IoctlDrivers
  <2>2. /\ digit[p] \in 1 .. Digits /\ owner' = owner \cap {p}
        /\ AsInt(number[p])[digit[p]] = number[p][digit[p]]
        /\ value' = [value EXCEPT ![digit[p]] = number[p][digit[p]]]
        /\ digit' = [digit EXCEPT ![p] = digit[p] + 1]
        /\ UNCHANGED <<number, answer, sound>>
    <3>1. digit[p] \in 1 .. Digits /\ number[p] \in Numbers
      BY <1>0, <1>3 DEF WriteDigit
    <3>2. AsInt(number[p])[digit[p]] = number[p][digit[p]]
      BY <3>1, DigitsOfNumbers
    <3>3. QED
      BY <1>3, <3>1, <3>2 DEF WriteDigit
  <2>3. \A i \in 1 .. Digits : value'[i] = IF i = digit[p] THEN number[p][i] ELSE value[i]
    BY <1>0, <2>2 DEF Ints
  <2>4. ASSUME p \in owner \cap sound
        PROVE  Owns(p)'
    BY <1>0, <2>1, <2>2, <2>3, <2>4 DEF Fits
  <2>5. QED
    BY <2>1, <2>2, <2>4
<1>4. CASE Written(p)
  <2>1. /\ driver # "Param" /\ user[p] = "write" /\ user' = [user EXCEPT ![p] = "read"]
        /\ digit[p] > Digits /\ digit' = [digit EXCEPT ![p] = 1]
        /\ UNCHANGED <<value, number, answer, sound, owner>>
    BY <1>4 DEF Written, InApp, IoctlDrivers
  <2>2. ASSUME p \in owner \cap sound
        PROVE  value = AsInt(number[p])
    <3>1. \A i \in 1 .. Digits : value[i] = number[p][i]
      BY <1>0, <2>1, <2>2
    <3>2. QED
      BY <1>0, <3>1, AllDigits
  <2>3. QED
    BY <1>0, <2>1, <2>2 DEF Fits
<1>5. CASE WriteFault(p)
  BY <1>5 DEF WriteFault
<1>6. CASE ReadDigit(p)
  <2>1. /\ driver # "Param" /\ user[p] = "read" /\ user' = [user EXCEPT ![p] = "read"]
        /\ digit[p] \in 1 .. Digits /\ digit' = [digit EXCEPT ![p] = digit[p] + 1]
        /\ answer' = [answer EXCEPT ![p][digit[p]] = value[digit[p]]]
        /\ UNCHANGED <<value, number, sound, owner>>
    BY <1>0, <1>6 DEF ReadDigit, InApp, IoctlDrivers
  <2>2. \A i \in 1 .. Digits :
          answer'[p][i] = IF i = digit[p] THEN value[i] ELSE answer[p][i]
    BY <1>0, <2>1 DEF Ints
  <2>3. QED
    BY <1>0, <2>1, <2>2 DEF Fits
<1>7. CASE ReadEnds(p)
  <2>1. /\ driver \in IoctlDrivers /\ driver # "Param"
        /\ user[p] = "read" /\ user' = [user EXCEPT ![p] = "print"]
        /\ digit[p] > Digits
        /\ UNCHANGED <<value, digit, number, answer, sound, owner>>
    BY <1>7 DEF ReadEnds, InApp, IoctlDrivers
  <2>2. ASSUME p \in owner \cap sound
        PROVE  answer[p] = AsInt(number[p])
    <3>1. \A i \in 1 .. Digits : answer[p][i] = value[i]
      BY <1>0, <2>1, <2>2
    <3>2. value = AsInt(number[p])
      BY <1>0, <2>1, <2>2
    <3>3. answer[p] \in Ints /\ value \in Ints
      BY <1>0
    <3>4. answer[p] = value
      BY <3>1, <3>3 DEF Ints
    <3>5. QED
      BY <3>2, <3>4
  <2>3. QED
    BY <1>0, <2>1, <2>2 DEF Fits
<1>8. CASE ReadFault(p)
  BY <1>0, <1>8 DEF ReadFault, InApp, IoctlDrivers, Fits
<1>9. CASE SysfsStore(p)
  <2>1. PICK n \in Numbers : /\ Stored(p, n)
                             /\ sound' = IF Fits(n) THEN sound \cup {p} ELSE sound \ {p}
    BY <1>9 DEF SysfsStore
  <2>2. driver \notin IoctlDrivers /\ driver # "Param" /\ user' = [user EXCEPT ![p] = "read"]
    BY <1>9 DEF SysfsStore, InFile, IoctlDrivers
  <2>3. p \in sound' => Fits(n)
    BY <2>1
  <2>4. QED
    BY <1>0, <2>1, <2>2, <2>3 DEF Stored, Fits
<1>10. CASE SysfsStoreNoNumber(p)
  BY <1>0, <1>10 DEF SysfsStoreNoNumber, InFile, Fits
<1>11. CASE SetSpeed(p)
  <2>1. PICK n \in Numbers : Fits(n) /\ Stored(p, n)
    BY <1>11 DEF SetSpeed
  <2>2. /\ driver = "Param" /\ driver \notin IoctlDrivers /\ user' = [user EXCEPT ![p] = "read"]
        /\ sound' = sound \cup {p}
    BY <1>11 DEF SetSpeed, InFile, IoctlDrivers
  <2>3. QED
    BY <1>0, <2>1, <2>2 DEF Stored, Fits
<1>12. CASE Show(p)
  <2>1. /\ user[p] = "read" /\ user' = [user EXCEPT ![p] = "print"]
        /\ answer' = [answer EXCEPT ![p] = value]
        /\ UNCHANGED <<value, digit, number, sound, owner>>
    BY <1>12 DEF Show, InFile
  <2>2. QED
    BY <1>0, <2>1 DEF Fits
<1>13. CASE Shown(p)
  BY <1>0, <1>13 DEF Shown, InFile, Forgets, Fits
<1>14. CASE UserCloses(p)
  BY <1>0, <1>14 DEF UserCloses, Forgets, Fits
<1>15. QED
  BY <1>2, <1>3, <1>4, <1>5, <1>6, <1>7, <1>8, <1>9, <1>10, <1>11, <1>12, <1>13, <1>14
  DEF ValueCalls

(* Every step keeps what is right of the numbers.                          *)
LEMMA ValueInvStep ==
  ASSUME ValueInv, [UseNext]_allVars
  PROVE  ValueInv'
<1>1. UNCHANGED driver
  <2>1. [Next]_vars
    BY UseProjects
  <2>2. QED
    BY <2>1 DEF Next, vars, Acquire, AcquireFails, AcquireFailsUnnoticed, InitReturns, CallExit,
                Release, StopMissing, ModuleGone, Open, Close
<1>2. CASE UNCHANGED valueVars
  BY <1>1, <1>2 DEF ValueInv, valueVars, ValueTypeOK, NumberInv, Owns, Fits, AsInt
<1>3. ASSUME NEW p \in Procs, ValueCalls(p) \/ UserCloses(p)
      PROVE  ValueInv'
  BY <1>1, <1>3, ValueTypeStep, NumberStep DEF ValueInv
<1>4. QED
  BY <1>2, <1>3
  DEF UseNext, allVars, dataVars, LifecycleStep, ExitStep, ProcStep, MmapStep, ValueStep

(* The invariant says what is read back.                                   *)
LEMMA ValueReadsBack == ValueInv => ReadsOwnNumber
BY DEF ValueInv, NumberInv, Owns, ReadsOwnNumber

-----------------------------------------------------------------------------
(* All of it                                                               *)

(* A driver and its users keep the invariant together.                     *)
THEOREM Invariant == UseSpec => []IInv
<1>1. UseInit => IInv
  BY LifeInit, ProcInitInv, MmapInitInv, ValueInitInv DEF UseInit, IInv
<1>2. IInv /\ [UseNext]_allVars => IInv'
  BY LifeStep, UseProjects, ProcInvStep, MmapInvStep, ValueInvStep DEF IInv
<1>3. QED
  BY <1>1, <1>2, PTL DEF UseSpec

(* Every variable of the drivers and of their users stays in its type.     *)
THEOREM AllTypesCorrect == UseSpec => []AllTypeOK
<1>1. IInv => AllTypeOK
  BY DEF IInv, LifeInv, ProcInv, MmapInv, ValueInv, AllTypeOK
<1>2. QED
  BY <1>1, Invariant, PTL

(* Who has the page mapped has the file open, so init is through and exit  *)
(* not called.                                                             *)
LEMMA PageIsHeld == LifeInv /\ MmapInv => PageHeldWhileMapped
<1> SUFFICES ASSUME LifeInv, MmapInv, Mapping # {}
             PROVE  "page" \in held
  BY DEF PageHeldWhileMapped
<1>1. driver = "Mmap" /\ opened # {}
  BY DEF Mapping, Mapped, MmapInv, AppHasItOpen
<1>2. /\ rung = Len(Ladder[driver].init) + 1 /\ missed = {}
      /\ held \cup missed = Gets(driver, rung - 1)
  BY <1>1 DEF LifeInv, OpenedAtTheTop, Climbed
<1>3. "page" \in Gets(driver, rung - 1)
  <2>1. Ladder[driver] = Mmap
    BY <1>1 DEF Ladder
  <2>2. rung - 1 = 5 /\ Mmap.init[1].get = "page"
    BY <1>2, <2>1 DEF Mmap, Rung
  <2>3. QED
    BY <2>1, <2>2 DEF Gets
<1>4. QED
  BY <1>2, <1>3

(* No open file, no call and no mapping is left when what it leads to is   *)
(* freed, by rmmod or by an init that fails.                               *)
THEOREM NothingOutlives == UseSpec => []NothingOutlivesModule
<1>1. IInv => NoFileOutlivesModule
  BY DEF IInv, LifeInv, OpenedAtTheTop, NoFileOutlivesModule
<1>2. IInv => NoCallOutlivesModule
  BY DEF IInv, ProcInv, FileWhileCalled, NoCallOutlivesModule
<1>3. IInv => PageHeldWhileMapped
  BY PageIsHeld DEF IInv
<1>4. IInv => NothingOutlivesModule
  BY <1>1, <1>2, <1>3 DEF NothingOutlivesModule
<1>5. QED
  BY <1>4, Invariant, PTL

(* Whatever readers and writers of the procfs file do, the name in it      *)
(* ends, and readers that come one by one get it once before its end.      *)
THEOREM ProcFileServes == UseSpec => []ReadersGetTheName
<1>1. IInv => ReadersGetTheName
  BY ProcServes DEF IInv
<1>2. QED
  BY <1>1, Invariant, PTL

(* However many processes share the page, the driver prints the text from  *)
(* its start, and all of it for one that has the page to itself.           *)
THEOREM PageIsPrinted == UseSpec => []PrintsTheText
<1>1. IInv => PrintsTheText
  BY MmapPrints DEF IInv
<1>2. QED
  BY <1>1, Invariant, PTL

(* A process reads back the number it wrote, unless another write came in  *)
(* between, a copy failed or the number did not fit.                       *)
THEOREM NumbersReadBack == UseSpec => []ReadsOwnNumber
<1>1. IInv => ReadsOwnNumber
  BY ValueReadsBack DEF IInv
<1>2. QED
  BY <1>1, Invariant, PTL

=============================================================================
