----------------------------- MODULE MmapDevice -----------------------------
(***************************************************************************)
(* A_CHAR_DRIVER/11_MMAP: the processes run user_app.c, which maps the     *)
(* driver's page, clears it, writes its text there and has the driver      *)
(* print the page up to the first zero.  All of them share the one page,   *)
(* and the text is the same for all: its cell i holds the number i.        *)
(***************************************************************************)
EXTENDS DriverLifecycle

CONSTANTS
  PageCells,   \* BUFFER_SIZE
  TextCells    \* the length of tx_data

ASSUME PageAssumption == PageCells \in Nat /\ TextCells \in 1 .. PageCells - 1

VARIABLES
  kernel_buffer,
  app,       \* where each process is in main()
  cursor,    \* the cell that memset, strcpy or the printing is at
  printed,   \* history: what the notification of each process printed
  sole       \* history: those that mapped the page when nobody else had, and since

mmapVars == <<kernel_buffer, app, cursor, printed, sole>>

Mapped == {"memset", "strcpy", "notify", "print", "munmap"}

MmapTypeOK ==
  /\ kernel_buffer \in [1 .. PageCells -> 0 .. TextCells]
  /\ app \in [Procs -> {"open", "close"} \cup Mapped]
  /\ cursor \in [Procs -> 1 .. PageCells + 1]
  /\ printed \in [Procs -> Seq(0 .. TextCells)]
  /\ sole \subseteq Procs

MmapInit ==
  /\ kernel_buffer = [i \in 1 .. PageCells |-> 0]
  /\ app = [p \in Procs |-> "open"]
  /\ cursor = [p \in Procs |-> 1]
  /\ printed = [p \in Procs |-> <<>>]
  /\ sole = {}

Mapping == {p \in Procs : app[p] \in Mapped}

At(p, from, to) ==
  /\ driver = "Mmap"
  /\ p \in opened
  /\ app[p] = from
  /\ app' = [app EXCEPT ![p] = to]

-----------------------------------------------------------------------------
(* mmap() and munmap() *)

(* mmap_driver_mmap.                                                       *)
MapPage(p) ==
  /\ At(p, "open", "memset")
  /\ cursor' = [cursor EXCEPT ![p] = 1]
  /\ sole' = IF Mapping = {} THEN {p} ELSE {}
  /\ UNCHANGED <<vars, kernel_buffer, printed>>

(* Too many bytes for a page, or remap_pfn_range fails.                    *)
MapPageFails(p) ==
  /\ At(p, "open", "close")
  /\ UNCHANGED <<vars, kernel_buffer, cursor, printed, sole>>

Unmap(p) ==
  /\ At(p, "munmap", "close")
  /\ UNCHANGED <<vars, kernel_buffer, cursor, printed, sole>>

-----------------------------------------------------------------------------
(* memset and strcpy in the mapped page *)

Put(p, c) ==
  /\ kernel_buffer' = [kernel_buffer EXCEPT ![cursor[p]] = c]
  /\ cursor' = [cursor EXCEPT ![p] = @ + 1]
  /\ UNCHANGED <<vars, app, printed, sole>>

ClearCell(p) ==
  /\ At(p, "memset", "memset")
  /\ cursor[p] <= PageCells
  /\ Put(p, 0)

MemsetDone(p) ==
  /\ At(p, "memset", "strcpy")
  /\ cursor[p] > PageCells
  /\ cursor' = [cursor EXCEPT ![p] = 1]
  /\ UNCHANGED <<vars, kernel_buffer, printed, sole>>

WriteCell(p) ==
  /\ At(p, "strcpy", "strcpy")
  /\ cursor[p] <= TextCells + 1
  /\ Put(p, IF cursor[p] <= TextCells THEN cursor[p] ELSE 0)

(* Mutant: the notification does not wait for the end of the text.         *)
StrcpyDoneEarly(p) ==
  /\ At(p, "strcpy", "notify")
  /\ cursor[p] > TextCells - 1
  /\ UNCHANGED <<vars, kernel_buffer, cursor, printed, sole>>

StrcpyDone(p) ==
  /\ At(p, "strcpy", "notify")
  /\ cursor[p] > TextCells + 1
  /\ UNCHANGED <<vars, kernel_buffer, cursor, printed, sole>>

-----------------------------------------------------------------------------
(* MMAP_TX_READY: mmap_ioctl *)

Notify(p) ==
  /\ At(p, "notify", "print")
  /\ cursor' = [cursor EXCEPT ![p] = 1]
  /\ printed' = [printed EXCEPT ![p] = <<>>]
  /\ UNCHANGED <<vars, kernel_buffer, sole>>

(* Mutant: the page is printed by its size, not up to its first zero.      *)
PrintCellOfPage(p) ==
  /\ At(p, "print", "print")
  /\ cursor[p] <= PageCells
  /\ printed' = [printed EXCEPT ![p] = Append(@, kernel_buffer[cursor[p]])]
  /\ cursor' = [cursor EXCEPT ![p] = @ + 1]
  /\ UNCHANGED <<vars, kernel_buffer, sole>>

PrintCell(p) ==
  /\ At(p, "print", "print")
  /\ cursor[p] <= PageCells /\ kernel_buffer[cursor[p]] # 0
  /\ printed' = [printed EXCEPT ![p] = Append(@, kernel_buffer[cursor[p]])]
  /\ cursor' = [cursor EXCEPT ![p] = @ + 1]
  /\ UNCHANGED <<vars, kernel_buffer, sole>>

(* The zero, or what follows the page: nothing the code has a say in.      *)
PrintEnds(p) ==
  /\ At(p, "print", "munmap")
  /\ cursor[p] = PageCells + 1 \/ kernel_buffer[cursor[p]] = 0
  /\ UNCHANGED <<vars, kernel_buffer, cursor, printed, sole>>

-----------------------------------------------------------------------------
(* close(), or the end of the process at any moment outside the driver:    *)
(* the kernel then unmaps and closes.                                      *)
AppCloses(p) ==
  /\ driver = "Mmap"
  /\ app[p] # "print"
  /\ Close(p)
  /\ app' = [app EXCEPT ![p] = "open"]
  /\ cursor' = [cursor EXCEPT ![p] = 1]
  /\ printed' = [printed EXCEPT ![p] = <<>>]
  /\ sole' = sole \ {p}
  /\ UNCHANGED kernel_buffer

AppSteps(p) ==
  \/ MapPage(p) \/ MapPageFails(p) \/ Unmap(p)
  \/ ClearCell(p) \/ MemsetDone(p) \/ WriteCell(p) \/ StrcpyDone(p)
  \/ Notify(p) \/ PrintCell(p) \/ PrintEnds(p)

-----------------------------------------------------------------------------
(* While a process has the page mapped it is not freed, by no error path   *)
(* of init and no rmmod.                                                   *)
PageHeldWhileMapped == Mapping # {} => "page" \in held

(* What a notification prints is the text, up to where another process is  *)
(* clearing or writing the same page, and never anything else; %s finds    *)
(* its end inside the page, as the text is shorter.                        *)
PrintsTextFromItsStart ==
  \A p \in Procs :
    /\ Len(printed[p]) <= TextCells
    /\ \A i \in 1 .. Len(printed[p]) : printed[p][i] = i

(* A process that has the page to itself has its whole text printed.       *)
SolePrintIsWhole ==
  \A p \in sole : app[p] = "munmap" => Len(printed[p]) = TextCells

(* The driver prints what it was notified of, whoever else has the page.   *)
PrintsTheText == PrintsTextFromItsStart /\ SolePrintIsWhole

=============================================================================
