# TLA+ models of the Linux driver examples

The repository is a set of small, independent Linux kernel modules: character
device drivers (`A_CHAR_DRIVER`), interrupts (`B_INTERRUPTS`), threads and
synchronisation (`C_THREAD_AND_SYNCH`), processes and IPC (`D_PROCESS_AND_IPC`).
Each directory builds one `.ko`; some have a user program beside it. No module
calls another. What interacts is, inside one module: its init and exit functions,
the file operations that processes call, timers, interrupts and tasklets, and
kernel threads, all of them on several CPUs and mostly without a lock. This
project models those interactions, model-checks them with TLC and proves their
safety properties with TLAPS.

The short names below are directories: C/07 is
`src/C_THREAD_AND_SYNCH/07_WAIT_QUEUE`, and so on.

## 1. Inventory

| Component | State it keeps | Operations | What is hard about it | Modelled in |
|---|---|---|---|---|
| Blocking wait-queue device, C/07 `waitqueue.c` | `kernel_buffer`, `data_available`, a wait queue | `read`, `write`, init, exit | no lock: readers and writers interleave at every access; sleep against wake-up; faults and signals half-way | `WaitQueueDevice`, `WaitQueueOneReader`, `DriverLadders` |
| Kernel thread pair, C/01 `kthread.c` | two task pointers | init, its error path, exit, two loops | a creation fails while the other thread runs; stopping a thread that sleeps or has not run yet | `KthreadPair` |
| Mutex counter, C/02 `mutex.c` | a mutex, `shared_counter` | the same, with a locked increment | exit waits for a thread that waits for the mutex; wrap-around | `MutexCounter` |
| Spin-lock programs, C/03 `spin.c` | a spin lock, `value` | two threads; in comments two tasklets, a thread and a tasklet, an interrupt and a tasklet | which lock variant in which context; a failed creation is not noticed | `SpinPrograms`, `DriverLadders` |
| Timer and waiting thread, A/07 `waitqueue.c` | a timer, a wait queue, `wait_flag`, `event_count`, a thread | callback, thread loop, init, exit | callback, thread and exit race; the timer re-arms itself | `TimerThread` |
| Poll device, A/08 `poll.c` | a timer, `data`, a wait queue, per-file offsets | `open`, `poll`, `read`, `close`, callback, init, exit | one `data` and one timer for all processes; the file exists before the timer does | `PollDevice`, `DriverLadders` |
| Button and tasklet, B/3 `tasklet.c` | `led_status`, a tasklet, an interrupt, two pins | interrupt handler, tasklet, init, exit | presses at any moment of init and exit; merging of presses | `TaskletLed`, `DriverLadders` |
| Device registration, A/01 A/02 A/03 A/04 A/05 A/06 A/08 A/10 A/11 B/3 C/07 D/1 | device numbers, cdev, class, device, page, kobject, proc entries | init with an error path, exit | each acquisition may fail, noticed or not; order of release; processes open the device during init | `DriverLadders`, `DriverLifecycle` |
| Sysfs attribute, A/05 | `value` | `show`, `store` | a text that overflows or is no number | `ValueDevices` |
| Procfs file, A/06 | `name_arr`, the toggle `len` | `read`, `write` | one toggle for all readers, tested and set in two steps; faults; `rmmod` during a call | `ProcFile` |
| Ioctl devices, A/10 and its copy D/1 | `value` | `WR_VAL`, `RD_VAL` | unlocked copies of several processes; failing copies that report success | `ValueDevices` |
| Mmap device, A/11 | one shared page | `mmap`, the `MMAP_TX_READY` ioctl | the driver prints what another process is writing | `MmapDevice` |
| Module parameter, A/12 | `speed` | a setter, a getter | rejected texts | `ValueDevices` |
| Select device, A/09 | none | none | unfinished: it does not compile and its init returns before it registers anything | no |
| User programs | none | the calls above | they decide what the drivers meet | those of A/10, A/11 and D/1 statement by statement, the others as the processes of the device modules |

Correctness of each, in short: no wake-up is lost; nobody is served data that was
not published to him; the buffer is always a terminated string; no increment is
lost; every wait and every `rmmod` ends; when a module's text is freed no thread,
timer, interrupt handler or open file can still reach it; and a failing init
releases exactly what it had acquired. The hazards behind these, each at its line,
are listed in `PROJECT.json`.

## 2. The modules

All models share a style. A call is split at each access to shared state, so that
two calls interleave as they do on two CPUs. A program counter (`pc`, `thread`,
`app`, `phase`, `callback`) holds the place of each actor. What the kernel does
inside a call the code makes (`wait_event_interruptible`, `kthread_stop`,
`timer_delete_sync`, `tasklet_schedule`, `do_poll`) is modelled from what the call
guarantees and marked external in the map. History variables are named as such
where they are declared; no guard reads one, but for the bounds. Definitions
whose comment starts with "Mutant:" are deliberately wrong variants of the
definition below or above them. No specification uses them: replacing the
definition by its variant must make the property that `PROJECT.json` names fail,
which shows that the property depends on the code.

**`WaitQueueDevice`** (C/07). `ReadCall` to `ReadReturn` are `driver_read` in
order, with `wait_event_interruptible` unfolded into its first test of the
condition (`WaitCheck`), queueing (`PrepareToWait`), the second test
(`WaitRecheck`) and `schedule` (`WakeFromSchedule`); `WriteCall` to `WakeUp` are
`driver_write`. `kernel_buffer` has `Cap` cells, a cell standing for a run of
bytes; the copy routines move one cell per step and may stop at any cell
(`CopyToUserFault`, `CopyFromUserFault`). A read longer than the buffer is refused
by the kernel's object-size check before any byte moves. The *n*-th write writes
cells of value *n*. `Signal` may hit a reader anywhere in its call.
`MCWaitQueueDevice` adds symmetry for TLC.

**`EventFlag`**, abstract: what a flag with a wait queue promises one consumer.
Publications merge while the flag is up; a serving takes it down.

**`WaitQueueOneReader`** is the device with a single reader, and the mapping to
`EventFlag`: `up` is `data_available = 1`, a serving is a successful read. With two
readers the refinement does not hold, and the code does not claim it: both pass the
wait before either clears the flag.

**`KthreadPair`** (C/01). The threads written out twice in the code are `1 .. N`;
"stop thread 1 because creating thread 2 failed" becomes "stop the threads created
so far". A thread stopped before it first ran never enters its function, as in the
kernel's `kthread()`.

**`MutexCounter`** (C/02) EXTENDS `KthreadPair`, whose init and exit functions are
those of `mutex.c` call for call, and spells out the loop body: lock, load, store,
unlock, sleep. Integers wrap at `Wrap`, which stands for 2^32.

**`AtomicCounter`**, abstract: increments one at a time, none lost, and closing the
counter fixes the value read out. `MutexCounter` maps `closed` to "the module is
gone", so an increment after rmmod, or a final value that misses one, is a
violation.

**`TimerThread`** (A/07). `Expire`, `RaiseFlag`, `WakeThread`, `Rearm` are
`timer_callback`; `Enter` to `LowerFlag` are `wait_function`; `DeleteTimer`,
`StopThread`, `JoinThread` are `wait_timer_exit`. It too maps to `EventFlag`, with
`event_count` as servings. The event being counted is taken when the flag is
lowered (`Taken`), since an expiry between `event_count++` and `wait_flag = 0` is
merged into it.

**`PollDevice`** (A/08). The processes are `user_app.c`: open, poll, read, close, in
any order the kernel permits and as often as they like. `Read` takes its length from
`ReadLens`, zero among them: a `read` of nothing passes every test and returns 0 with
the message unread, like one at the end. The model starts when `device_create` has made
the file, so that opens meet the last two statements of init. A process that polls
an uninitialised wait queue dies, and so its file closes.

**`TaskletLed`** (B/3). The tasklet object goes through null, raw, ready, killed,
freed. The handler loads the pointer (`LoadTasklet`, into `loaded`) before it uses what
it points to (`Schedule`), and init and exit go on meanwhile: a handler that has found
NULL may still use it when init is through. `broken` records that what is none of ready
and killed was scheduled or run, and `BreaksOnlyFromTheEdges` says when that can be, by
the phase in which the press came (`pressed`). From there on C promises nothing, and
`LedShowsStatus` says nothing of such behaviours. Nobody looks at what the calls for the
pins return, so `SetupGpio` may leave `LED_PIN` as it was, an output at any level or an
input (`pin`). `LedShowsStatus` therefore holds where the pin follows the driver
(`PinFollows`): it was driven low by init, or is an output and was driven since.

**`SpinPrograms`** (C/03). The four programs of `spin.c`, the compiled one and the
three in comments, differ in three things, which are data here: the contexts of the
two functions, the variant of the lock, the order of exit. A CPU has a stack of contexts;
an interrupt goes on top of a tasklet, a tasklet on top of a thread, unless the lock's
variant masks it on that CPU, and only the top moves. `spinlock` is the queue of those
that hold and await it, as the kernel's spin locks are fair. `kthread_run` gives an
error pointer, never NULL, so a failed creation goes unnoticed and `kthread_stop` of
the error pointer ends rmmod in a crash (`phase = "oops"`).

**`DriverLadders`** writes each init and exit function down as data: the rungs in
the order of the statements, and per rung what the error path releases with its
gotos followed through their labels. **`DriverLifecycle`** climbs and descends
the ladders: every acquisition may fail, checked or not, and processes open the
device as soon as its file leads to a live cdev. Where an unnoticed `kthread_run` failed,
exit calls `kthread_stop` with an error number, and the process of `rmmod` dies there
(`StopMissing`, `phase = "oops"`).

`missed` is what init failed to get without looking, `stray` what was released though
it was not held.

Four modules build on `DriverLifecycle`, whose variables say whether a driver is
there to be called:

* **`ProcFile`** (A/06). `file_proc_read` is split between the test of `len`
  (`ReadCall`), its assignment (`LowerLen`, `RaiseLen`) and the copy; the write fills
  cell by cell, may fault at any cell, and terminates last. An open procfs file does
  not pin the module; what does is `proc_remove`, which lets no call begin
  (`Reachable`) and waits for those in progress (`Drained`), if it is given the
  directory. With a directory that could not be made it is given NULL.
* **`MmapDevice`** (A/11). The processes run `main()` of `user_app.c`: map, `memset`
  and `strcpy` cell by cell in the one shared page, notify, unmap, close, and may be
  killed anywhere outside the driver. `mmap_ioctl` prints cell by cell. All programs
  write the same text, as they do in the repository, so cell *i* is the number *i*.
* **`ValueDevices`** (A/05, A/10, A/12, D/1). An int is a function to its `Digits`
  binary digits; a text says one digit more, so that half of the texts do not fit
  (`Fits`), and `AsInt` keeps the digits there is room for. The ioctl copies
  move one digit per step and may fail at any; the rest is zeroed, and success
  returned. `sscanf` keeps the digits there is room for, `kstrtoint` refuses; sysfs and parameter calls are serialised by the kernel and atomic.
* **`DriversInUse`** composes them: a behaviour is about one driver, processes open,
  use and close it while init, its error path and exit run. Each action changes the
  variables of `DriverLifecycle` by one of its actions, or not at all.

Several properties are conjunctions of named parts, each with its own comment:
`CountIsExact` (`NoLostUpdate`, `PrintsOwnIncrement`), `UndoesWhatItDid`
(`NothingElseLeftBehind`, `ReleasesOnlyHeld`, `DependenciesHeld`),
`NothingOutlivesModule` (`NoFileOutlivesModule`, `NoCallOutlivesModule`,
`PageHeldWhileMapped`), `ReadersGetTheName` (`NameTerminated`, `NameOnceBeforeEnd`) and
`PrintsTheText` (`PrintsTextFromItsStart`, `SolePrintIsWhole`). `MutualExclusion`,
`ExitsOnlyWhenAsked` and `StopsOneAtATime` are proved and have no run of their own.

Proof modules: `MutexCounterProofs` (`KthreadPair` and `MutexCounter`),
`WaitQueueProofs` and `WaitQueueOneReaderProofs`, `TimerThreadProofs`,
`PollDeviceProofs`, `TaskletLedProofs`, `SpinProgramsProofs`, and `DriversInUseProofs`
for `DriverLadders`, `DriverLifecycle` and the modules that build on it.

## 3. The runs

| Run | What it asks | Instance, and why it is enough |
|---|---|---|
| `wait_queue_safety` | Is the buffer terminated in every state; does it hold exactly the last undisturbed message; is a wake-up ever lost; is a reader served twice from one publication? | 2 readers, 2 writers, 2 writes, 2 cells. Every property relates at most one reader to one writer, or two writers; a second actor of each kind adds all the interference there is. Lengths are empty, short, just over the clamp and well over it |
| `wait_queue_one_reader` | Is the device an `EventFlag`; does a reader that sleeps on available data wake? | 1 reader, 2 writers, 3 writes: two publications merged and one more |
| `wait_queue_clear_race` | The comment at `waitqueue.c:61`. Violated, see section 6 | 1 reader, 1 writer, 2 writes |
| `mutex_counter` | Lost updates and own increment printed, refinement of `AtomicCounter`, no thread after the module, teardown; does each thread that waits for the mutex get to its increment? | 3 threads, one more than the code, so that an error path stops two; wrap at 4, so the counter wraps during the run |
| `timer_thread` | Lost wake-ups of callback and `kthread_stop`; refinement of `EventFlag`; nothing left running; exit returns | 4 expiries: one in every state of the thread's loop, and again while an event is taken |
| `poll_device` | Lost wake-ups in `poll`; 0 to who asked for something only after the whole message; nothing left after exit; do sleeping pollers leave `poll`? | 2 processes that open without bound; a message of 3 cells, reads of none, of 2 and of 4: a part, the rest, and more than there is |
| `poll_second_open`, `poll_early_open` | What the messages of `user_app.c` and `poll_open` say. Violated, see section 6 | 2 processes, or 1 open |
| `tasklet_led` | Does the LED end up showing `led_status` where the pin follows; is a handler left behind by any failing init; which presses can make a tasklet that does not exist be scheduled or run? | 4 presses: two merged, one on each side of init and exit |
| `tasklet_kill` | The comment at `tasklet.c:88`. Violated, see section 6 | 1 press |
| `spin_programs` | Does each program's lock variant keep its contexts from deadlock; is an increment lost; what is left running after exit or a failed init; does rmmod end? | 2 CPUs, so that the two functions meet on one and on different ones; wrap at 3; 3 presses: one in init, one while the tasklet runs, one in exit |
| `driver_lifecycle` (`DriversInUse`) | Error paths and exits: is anything left behind but for the listed leaks, anything released that is not held, anything outlived by what it contains? Does a file, a mapping or a call outlive the module; does unloading end, but for the crash? Is the procfs name terminated, and read once before each end? Does the page print as the text, whole for a process alone? Does a process read its own number back? | sixteen ladders, every failure, 2 processes: each property is about one process and what the other does to it. Name of 3 cells with writes up to 4, page of 3 cells with a text of 2, ints of 2 digits and texts of 3 |

The bounds `MaxWrites`, `MaxPresses` and `MaxRaised` cap how
often the environment starts something. They stand in the guard of the action that
starts it, and nowhere else. `CHECK_DEADLOCK FALSE` stands where the system may
really stop: the module is gone, or the bound is used up and everybody is idle.
The three runs of the wait-queue device check for deadlock: an idle process can
always call `read`, and a sleeping one can be sent a signal.

### Fairness

A step of a call already inside the kernel is weakly fair: it belongs to a runnable
task, a pending softirq or an interrupt handler. No step of the environment is
fair: nobody has to call, to press the button, to close a file or to remove the
module. Three steps are strongly fair.

* `Lock` in `MutexCounter`: a waiter that was passed over for long is handed the
  mutex by the kernel, so a thread that finds it free again and again gets it.
* `DeleteTimer` in `TimerThread`: `timer_delete_sync` tries again while the callback
  runs, and the callback re-arms the timer for five seconds later, so that a try
  falls between two callbacks.
* `EnterTasklet` in `SpinPrograms`: a tasklet kept out by `spin_lock_bh` runs when the
  lock is released, since enabling tasklets again runs those that are pending.

In `DriversInUse` an error path, an exit function and a call inside the procfs driver
are weakly fair: `UnloadEnds` says that `rmmod` waits for calls, and not for files that
processes keep open or for readers that go on calling. It excepts the modules of `spin.c`
whose `kthread_run` failed unnoticed, of which `rmmod` does not return.

In `PollDevice` each `mod_timer` puts the one timer off by five seconds, and a process
that opens the device every four starves all pollers. So the expiry is weakly fair only
in behaviours in which `StartTimer` does not happen for ever (`TimerFairness`), and
`PollerWakes` and `OpenDeliversData` except behaviours in which opens go on for ever
(`OpensGoOn`). Without the exception TLC finds that starvation. `PollerWakes` asks for a
poller that has left `poll`, not for one that looked at `data` and fell asleep again;
that it does not sleep for good after a last open follows from that open having started
the timer. `TimerThread`'s bound on expiries is likewise an environment that goes
quiet; its liveness properties do not rely on a later expiry.

## 4. What is proved

Every safety property of a passing run, the invariants and the action property as
well as the three refinements, is a theorem about the specification that the run
checks. `PROJECT.json` lists them under `theorems`.

Assumptions on the constants are the named ASSUMEs of the modules: sizes are natural
numbers, `Cap`, `N`, `Wrap` and `Digits` positive, the text of the mmap driver shorter
than its page, readers and writers disjoint. TLC evaluates them on every run. The
theorems hold for every number of threads, processes and CPUs, every size and
every bound.

Each module has an inductive invariant, `IInv` or several that build on each other,
made of named parts. Most properties are not inductive by themselves; what has to be
known beside them is this.

* `MutexCounterProofs`, `KthreadPair`. `TypeCorrect`; `ThreadsDieWithModule`: no thread
  can run the module's code when it is gone; `StopsAreOrderly`: threads exit only when
  asked, and at most one asked thread is alive. The last two need that the threads
  asked are exactly `1 .. stopping`, that those not created are exactly the ones above
  `created`, that all asked but the last have exited, and that none is asked before the
  exit function or the error path runs.
* `MutexCounterProofs`, `MutexCounter`. By construction every step is a step of
  `KthreadPair` or leaves its variables alone (lemma `LivesAsPair`), so `IInv` holds here.
  `CounterInv` adds that a thread in its critical section owns the mutex and that a
  thread about to store holds the current value in its register. From it
  `CounterTypeCorrect`, `Exclusion`, `CountsExactly` (`CountIsExact`) and `Implements`,
  the refinement of `AtomicCounter`: closing reads the exact count, and after it no
  thread can be at its store, because by `ThreadsDieWithModule` none is alive.
* `WaitQueueProofs`. `WaitQueueTypeCorrect`, which carries the buffer arithmetic: the
  clamp of `driver_write` (`ClampInCells`) keeps every offset inside the buffer.
  `AlwaysTerminated`: the last cell is never anything but zero, in the middle of
  overlapping and failing writes too. `NoWakeupLost`: for any number of readers and
  writers, from the second test of the condition behind the queueing.
  `NoReaderReplays`, from `ServingInv`: a reader that is past the wait, or sees the
  flag up, has been served fewer times than data was published. `LastWriteStands`
  (`BufferHoldsLastWrite`), from `CopiesAlone`: as long as the last write has met
  no other, its writer alone copies, and the cells up to its position hold its message.
* `WaitQueueOneReaderProofs`. `ImplementsEventFlag`: with one reader, the flag cannot
  go down between the wait and the end of the copy (`FlagStaysUp`), so that a
  successful read is a `Serve`.
* `TimerThreadProofs`. `TimerTypeCorrect`; `NothingRunsWhenGone`, since the timer lives
  only from the end of init to its deletion (`TimerLives`) and the thread's state
  follows init and exit (`ThreadLives`); `NoTimerWakeupLost`, since whoever is not
  runnable is on the queue, where callback and `kthread_stop` find it (`QueueHolds`);
  `TimerImplementsEventFlag`, since only the thread lowers the flag (`FlagStaysUp`).
* `PollDeviceProofs`. `PollTypeCorrect` with `ReadStaysInside`, that no read goes past
  the message; `NothingPollsWhenGone`, from the timer's and the files' times
  (`RemovalInv`); `NoPollWakeupLost`, since `poll_wait` queues
  a process before `data` is tested (`PollersQueued`); `EndComesLast` (`EndMeansAll`), from what a
  process got being its offset (`GotIsOffset`), for any set of lengths, zero too.
* `TaskletLedProofs`. `PointerFollowsPhase` says what the pointer `tasklet` designates at
  each statement of init and exit, `HandlerNeedsIrq` when a handler can run, and
  `LatePressFindsTasklet` that a handler whose press came after init holds no NULL. From
  these `NoHandlerOutlivesModule` and `HarmOnlyFromTheEdges`, the action property: harm
  comes of a press between `request_irq` and `tasklet_init`, however late its handler
  gets to `tasklet_schedule`, or after `kfree`. `LedIsNeverStale` (`LedShowsStatus`) needs
  `LedFollows`: when no further run of the tasklet is due, what it has read, or a pin
  that follows shows, is `led_status`.
* `SpinProgramsProofs`, for the four programs and any number of CPUs. `StackInv`: who
  runs is on one stack, once, on top of lower contexts, and nothing that the lock
  masks lies above one that spins for the lock or holds it. `LockInv`: the lock's queue
  is those that spin or hold, and only its head is inside. From the first
  `LockFitsContexts` (`NoSelfDeadlock`): what could interrupt a holder on its CPU is
  masked by the variant that its program uses (`ProgramFacts`). From the second
  `SpinLosesNoUpdate`: what the holder has loaded is still the value. `LifeInv`, that
  what does not exist neither runs nor is queued, gives `NothingSpinsWhenGone`.
* `DriversInUseProofs`. By construction each step with users is one of
  `DriverLifecycle` or leaves its variables alone (lemma `LivesAsDriver`), so that
  `LifeInv` needs the steps of `DriverLifecycle` alone. About the
  ladders, `PathReleases` goes through every error path and every exit: each releases
  nothing twice, nothing but what init got before it, all that `Forgotten` does not
  list, and nothing before what was made in it. `Undone` carries this along a release:
  what is still to do is held, named once and in that order. That gives
  `EveryPathUndoes` (`UndoesWhatItDid`). `OpenedAtTheTop`, that a file is open only when
  nothing can fail any more and `rmmod` is refused, rests on `OpenedOnLastRung`: region,
  device and cdev are not all there before the last rung of any driver with file
  operations. With `FileWhileCalled`, no call without its proc file, and
  `AppHasItOpen`, no mapping without an open file, it gives `NothingOutlives`.
  `ProcFileServes` follows from `LenInStep`: where a lone reader stands and what `len`
  says of it agree. `PageIsPrinted`: a cell holds its text or zero (`PageIsText`),
  and what a process alone on the page has written is there (`SoleInv`).
  `NumbersReadBack`: the digits copied so far are those of the owner's number (`Owns`).

The proofs have one step per action and cite per leaf the definitions it needs. All
inductive invariants were checked by TLC on the instances of section 3 first.

Only model-checked: every liveness property (`TeardownCompletes`, `EveryThreadCounts`,
`AvailableDataWakes`, `RaisedFlagIsTaken`, `ExitReturns`, `PollerWakes`,
`ExitEnds`, `UnloadEnds`), which the proof system does not reach under fairness.

## 5. What is not modelled

Log output, and what only formats it. `open` and `release` functions that only print.
The byte contents of messages. In `PollDevice` the five seconds: the timer may expire
at any time. Memory ordering: stores of one CPU are seen by the others in program
order; the wait-queue macros contain the barriers that make this so for the flag.

`A/09_SELECT`: `select.c` names `rw_fops` and `timer_cdev`, which it does not declare, so
it does not compile; and its init returns before it registers anything. There is no
behaviour to model.

In `ProcFile`, what a reader receives: the driver copies the whole array whatever
length was asked for, over what lies behind the reader's buffer. In `SpinPrograms` and
`DriverLifecycle`, what happens after a crash. In `ValueDevices`, signs, and torn values that two unlocked
writers leave: the code promises nothing of them, and the model shows only when they
cannot happen.

Some drivers leak. The error labels of `ioctl.c` skip the device number and the device;
`tasklet.c` frees the button's pin at exit and otherwise no pin; the first program of
`spin.c` frees nothing when it fails; a procfs file whose directory could not be made
stays. `Forgotten` in `DriverLifecycle` lists exactly these, and `NothingElseLeftBehind`
shows that there are no others. No comment of the code says otherwise, so they are
hazards and not disagreements.

## 6. Where the code does not do what it says

* `wait_queue_clear_race`: "Data has been read. Make the condition false again."
  (C/07 `waitqueue.c:61`). A `write` that completes between the copy and
  `data_available = 0` has its message marked as read although nobody read it.
* `poll_second_open`: "Device is ready to read" (A/08 `user_app.c:40`). Another
  process opens the device first, `poll_open` sets `data = 0` for everybody, and the
  `read` gets `-EAGAIN`.
* `poll_early_open`: "Timer started for 5 seconds" (A/08 `poll.c:42`). An open
  between `device_create` and `timer_setup` starts no timer, and data never comes.
* `tasklet_kill`: "Kill the Tasklet" (B/3 `tasklet.c:88`). A handler that gets
  to `tasklet_schedule` between `tasklet_kill` and `free_irq` schedules the killed, or freed, tasklet again.

## 7. Plan

Every component that has a behaviour is modelled, and every safety property that a
run checks is proved. What is left, the most important first:

1. The safety half of what must end, which is in reach without fairness: that the
   steps of exit strictly decrease a measure, and that the guard of the next one holds
   once the callbacks, threads and calls it waits for are through (`UnloadEnds`,
   `ExitReturns`, `TeardownCompletes`).
2. Action properties beside the invariants: `len` is set by nobody but a reader, the
   timer is re-armed only by its callback and by `open`.
3. What `WaitQueueDevice` promises several readers, as an abstract specification of its
   own: a publication serves at least the first of them.
