\* Three threads, one more than mutex.c has, so that the error path has to
\* stop more than one; the counter wraps after four increments.
CONSTANTS
  N = 3
  Wrap = 4
SPECIFICATION FairCounterSpec
INVARIANTS
  CounterTypeOK
  CountIsExact
  NoThreadOutlivesModule
PROPERTIES
  IsAtomicCounter
  TeardownCompletes
  EveryThreadCounts
CHECK_DEADLOCK FALSE
