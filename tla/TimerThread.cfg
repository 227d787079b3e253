\* Four expiries: enough for the timer to expire in every state of the
\* thread's loop, and again while the previous event is being taken.
CONSTANTS
  MaxRaised = 4
SPECIFICATION FairSpec
INVARIANTS
  TypeOK
  QuiescentWhenGone
  NoLostWakeup
PROPERTIES
  IsEventFlag
  RaisedFlagIsTaken
  ExitReturns
\* The module is gone and everything has stopped.
CHECK_DEADLOCK FALSE
