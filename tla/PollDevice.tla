----------------------------- MODULE PollDevice -----------------------------
(***************************************************************************)
(* A_CHAR_DRIVER/08_POLL: open() starts a timer whose callback makes data  *)
(* available and wakes the pollers; poll() and read() test data.  data,    *)
(* the timer and the wait queue are the driver's only ones, shared by      *)
(* every process that has the device open.  init creates the device file   *)
(* before it sets up the queue and the timer; the model starts there.      *)
(***************************************************************************)
EXTENDS Naturals

CONSTANTS
  Apps,      \* processes that use the device as user_app.c does
  Length,    \* strlen(kernel_buffer), in cells
  ReadLens   \* values of read()'s len argument, in cells

ASSUME SizeAssumption ==
  /\ Length \in Nat \ {0}
  /\ ReadLens \subseteq Nat

VARIABLES
  phase,      \* where the module is between insmod and rmmod
  armed,      \* the timer is pending
  callback,   \* where timer_callback is
  data,
  my_queue,   \* apps inside poll(), their entries queued
  triggered,  \* apps whose entry was woken since they last looked
  app,        \* where each app is
  offset,     \* *offset: the position of each app's open file
  result,     \* what the app's last read() returned
  asked,      \* history: the len argument of the app's last read()
  got         \* history: cells the app received since its open()

timerVars == <<armed, callback>>
pollVars == <<my_queue, triggered>>
readVars == <<offset, result, asked, got>>
vars == <<phase, timerVars, data, pollVars, app, readVars>>

\* "queue", "timer": init is about to run init_waitqueue_head, timer_setup.
Phases == {"queue", "timer", "live", "exit", "gone"}
\* "arming": in open(); "scan", "sleep": in poll(); "readable": poll()
\* returned POLLIN.
AppStates == {"closed", "arming", "open", "scan", "sleep", "readable"}
\* "some": a positive count; "zero": 0, which callers take for the end.
Results == {"none", "some", "zero", "again", "fault"}

TypeOK ==
  /\ phase \in Phases
  /\ armed \in BOOLEAN
  /\ callback \in {"idle", "set", "wake"}
  /\ data \in {0, 1}
  /\ my_queue \subseteq Apps
  /\ triggered \subseteq Apps
  /\ app \in [Apps -> AppStates]
  /\ offset \in [Apps -> 0 .. Length]
  /\ result \in [Apps -> Results]
  /\ asked \in [Apps -> ReadLens \cup {0}]
  /\ got \in [Apps -> Nat]

Init ==
  /\ phase = "queue"
  /\ armed = FALSE
  /\ callback = "idle"
  /\ data = 0
  /\ my_queue = {}
  /\ triggered = {}
  /\ app = [a \in Apps |-> "closed"]
  /\ offset = [a \in Apps |-> 0]
  /\ result = [a \in Apps |-> "none"]
  /\ asked = [a \in Apps |-> 0]
  /\ got = [a \in Apps |-> 0]

-----------------------------------------------------------------------------
(* The end of poll_init, and poll_exit *)

InitStep ==
  /\ \/ phase = "queue" /\ phase' = "timer"
     \/ phase = "timer" /\ phase' = "live"
  /\ UNCHANGED <<timerVars, data, pollVars, app, readVars>>

(* Mutant: without .owner the module goes while files are open.            *)
CallExitUnpinned ==
  /\ phase = "live"
  /\ phase' = "exit"
  /\ UNCHANGED <<timerVars, data, pollVars, app, readVars>>

(* .owner = THIS_MODULE: an open file keeps the module in.                 *)
CallExit ==
  /\ phase = "live"
  /\ \A a \in Apps : app[a] = "closed"
  /\ phase' = "exit"
  /\ UNCHANGED <<timerVars, data, pollVars, app, readVars>>

(* timer_delete_sync waits for a running callback; then the device, class, *)
(* cdev and region go, which nobody has open.                              *)
Exit ==
  /\ phase = "exit"
  /\ callback = "idle"
  /\ armed' = FALSE
  /\ phase' = "gone"
  /\ UNCHANGED <<callback, data, pollVars, app, readVars>>

-----------------------------------------------------------------------------
(* The timer and timer_callback *)

Expire ==
  /\ armed
  /\ callback = "idle"
  /\ armed' = FALSE
  /\ callback' = "set"
  /\ UNCHANGED <<phase, data, pollVars, app, readVars>>

SetData ==
  /\ callback = "set"
  /\ callback' = "wake"
  /\ data' = 1
  /\ UNCHANGED <<phase, armed, pollVars, app, readVars>>

(* wake_up_interruptible: a poll() entry stays queued and is marked.       *)
WakePollers ==
  /\ callback = "wake"
  /\ callback' = "idle"
  /\ triggered' = triggered \cup my_queue
  /\ UNCHANGED <<phase, armed, data, my_queue, app, readVars>>

-----------------------------------------------------------------------------
(* poll_open: data = 0, then mod_timer *)

Goto(a, from, to) ==
  /\ app[a] = from
  /\ app' = [app EXCEPT ![a] = to]

Open(a) ==
  /\ phase \in {"queue", "timer", "live"}
  /\ Goto(a, "closed", "arming")
  /\ data' = 0
  /\ offset' = [offset EXCEPT ![a] = 0]
  /\ result' = [result EXCEPT ![a] = "none"]
  /\ asked' = [asked EXCEPT ![a] = 0]
  /\ got' = [got EXCEPT ![a] = 0]
  /\ UNCHANGED <<phase, timerVars, pollVars>>

(* mod_timer ignores a timer that was not set up.                          *)
StartTimer(a) ==
  /\ Goto(a, "arming", "open")
  /\ armed' = (phase = "live")
  /\ UNCHANGED <<phase, callback, data, pollVars, readVars>>

-----------------------------------------------------------------------------
(* my_poll_function under the kernel's do_poll *)

(* Mutant: poll_wait is not called.                                        *)
PollNoWait(a) ==
  /\ Goto(a, "open", "scan")
  /\ UNCHANGED <<phase, timerVars, data, pollVars, readVars>>

(* poll_wait; on a queue that was not initialised the process dies.        *)
PollWait(a) ==
  /\ \/ /\ phase = "queue"
        /\ Goto(a, "open", "closed")
        /\ UNCHANGED my_queue
     \/ /\ phase # "queue"
        /\ Goto(a, "open", "scan")
        /\ my_queue' = my_queue \cup {a}
  /\ UNCHANGED <<phase, timerVars, data, triggered, readVars>>

(* With an empty mask do_poll goes to sleep.                               *)
PollData(a) ==
  /\ \/ /\ data = 1
        /\ Goto(a, "scan", "readable")
        /\ my_queue' = my_queue \ {a}
        /\ triggered' = triggered \ {a}
     \/ /\ data = 0
        /\ Goto(a, "scan", "sleep")
        /\ UNCHANGED pollVars
  /\ UNCHANGED <<phase, timerVars, data, readVars>>

(* A marked entry ends the sleep, or keeps do_poll from sleeping.          *)
PollAgain(a) ==
  /\ a \in triggered
  /\ Goto(a, "sleep", "scan")
  /\ triggered' = triggered \ {a}
  /\ UNCHANGED <<phase, timerVars, data, my_queue, readVars>>

-----------------------------------------------------------------------------
(* poll_read and poll_close *)

Least(m, n) == IF m < n THEN m ELSE n

(* Mutant: len is not cut to what is left of the message.                  *)
ReadLenUncut(a, n) == n

(* The cells one read() copies.                                            *)
ReadLen(a, n) == Least(n, Length - offset[a])

(* Mutant: the last cell is taken for the end.                             *)
EndOneEarly(a) == offset[a] >= Length - 1

AtEnd(a) == offset[a] >= Length

Returns(a, n) ==
  /\ offset' = [offset EXCEPT ![a] = @ + n]
  /\ got' = [got EXCEPT ![a] = @ + n]
  /\ result' = [result EXCEPT ![a] = IF n = 0 THEN "zero" ELSE "some"]

Fails(a, error) ==
  /\ result' = [result EXCEPT ![a] = error]
  /\ UNCHANGED <<offset, got>>

(* A len of 0 passes every test: nothing is copied, and 0 returned.        *)
Read(a) ==
  /\ app[a] \in {"open", "readable"}
  /\ \E n \in ReadLens :
       /\ asked' = [asked EXCEPT ![a] = n]
       /\ \/ data = 0 /\ Fails(a, "again")
          \/ data = 1 /\ AtEnd(a) /\ Returns(a, 0)
          \/ data = 1 /\ ~AtEnd(a) /\ n # 0 /\ Fails(a, "fault")
          \/ data = 1 /\ ~AtEnd(a) /\ Returns(a, ReadLen(a, n))
  /\ UNCHANGED <<phase, timerVars, data, pollVars, app>>

(* close(), or a signal that ends poll() and the process.                  *)
Close(a) ==
  /\ \E from \in {"open", "sleep", "readable"} : Goto(a, from, "closed")
  /\ my_queue' = my_queue \ {a}
  /\ triggered' = triggered \ {a}
  /\ UNCHANGED <<phase, timerVars, data, readVars>>

-----------------------------------------------------------------------------
TimerStep == SetData \/ WakePollers

PollStep(a) == StartTimer(a) \/ PollData(a) \/ PollAgain(a)

Next ==
  \/ InitStep \/ CallExit \/ Exit
  \/ Expire \/ TimerStep
  \/ \E a \in Apps : Open(a) \/ PollWait(a) \/ PollStep(a) \/ Read(a) \/ Close(a)

Spec == Init /\ [][Next]_vars

(* mod_timer puts a pending timer off: it expires if nobody starts it over *)
(* and over again.                                                         *)
TimerFairness == WF_vars(Expire) \/ []<><<\E a \in Apps : StartTimer(a)>>_vars

(* init, exit, the timer and the calls inside the kernel run on; no call   *)
(* of a process is fair.                                                   *)
Fairness ==
  /\ WF_vars(InitStep) /\ WF_vars(Exit)
  /\ TimerFairness /\ WF_vars(TimerStep)
  /\ \A a \in Apps : WF_vars(PollStep(a))

FairSpec == Spec /\ Fairness

-----------------------------------------------------------------------------
(* When poll_exit has returned no timer is pending, no callback runs and   *)
(* no process is inside the driver.                                        *)
QuiescentWhenGone ==
  phase = "gone" => /\ ~armed /\ callback = "idle"
                    /\ \A a \in Apps : app[a] = "closed"

(* No lost wake-up between poll() and timer_callback: a process that is    *)
(* asleep in poll(), unwoken, while data is available is about to be woken. *)
NoLostPollWakeup ==
  \A a \in Apps :
    app[a] = "sleep" /\ a \notin triggered /\ data = 1 => callback = "wake"

(* read() returns 0 to a process that asked for something only once the    *)
(* process has received the whole message, in whatever pieces, whoever     *)
(* opens the device meanwhile.                                             *)
EndMeansAll ==
  \A a \in Apps : result[a] = "zero" /\ asked[a] # 0 => got[a] = Length

OpensGoOn == []<><<\E a \in Apps : Open(a)>>_vars

(* A poller that sleeps while the timer is pending leaves poll(), unless   *)
(* the device is opened for ever: opens take its data away and put the     *)
(* timer off, and once they stop it is not sent back to sleep for good.    *)
PollerWakes ==
  ~OpensGoOn =>
    \A a \in Apps : (app[a] = "sleep" /\ armed) ~> (app[a] \notin {"scan", "sleep"})

(* "Device is ready to read" (user_app.c:40): what poll() reported is      *)
(* there until the process closes the device.                              *)
ReadyMeansReadable == \A a \in Apps : app[a] = "readable" => data = 1

(* "Timer started for 5 seconds" (poll.c:42): once open() has returned,    *)
(* data becomes available, unless the module is removed first or the timer *)
(* put off for ever.                                                       *)
OpenDeliversData ==
  ~OpensGoOn => \A a \in Apps : app[a] = "arming" ~> data = 1 \/ phase = "gone"

=============================================================================
