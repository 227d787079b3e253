\* Two CPUs, so that the two functions run on one or on different ones; the
\* integer wraps after three increments; three presses: one in init, one
\* while the tasklet runs, one in exit.
CONSTANTS
  CPUs = {c1, c2}
  Wrap = 3
  MaxPresses = 3
SPECIFICATION FairSpec
INVARIANTS
  TypeOK
  NoSelfDeadlock
  NoLostUpdate
  QuiescentWhenGone
PROPERTIES
  ExitEnds
\* The module is gone.
CHECK_DEADLOCK FALSE
