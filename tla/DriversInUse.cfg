\* Every driver that has an init or exit function to speak of, and two
\* processes.  A name of three characters and writes one longer; a page with
\* room for the text and one zero; integers of two digits and numbers of one
\* digit more.
CONSTANTS
  Drivers = {"MajMin", "Cdev", "ClassDevice", "FileOperations", "Sysfs", "Procfs",
             "Poll", "Ioctl", "ProcessIoctl", "Mmap", "WaitQueue", "Tasklet",
             "SpinIrq", "SpinThreads", "SpinMixed", "Param"}
  Procs = {p1, p2}
  NameSize = 3
  MaxWrite = 4
  PageCells = 3
  TextCells = 2
  Digits = 2
SPECIFICATION FairUseSpec
INVARIANTS
  AllTypeOK
  UndoesWhatItDid
  NothingOutlivesModule
  ReadersGetTheName
  PrintsTheText
  ReadsOwnNumber
PROPERTIES
  UnloadEnds
\* The module is gone, and nothing is left to do.
CHECK_DEADLOCK FALSE
