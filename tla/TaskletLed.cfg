\* Four presses: two while the tasklet is queued or running, and one on
\* each side of init and exit.
CONSTANTS
  MaxPresses = 4
SPECIFICATION Spec
INVARIANTS
  TypeOK
  LedShowsStatus
  NoHandlerAfterModule
PROPERTIES
  BreaksOnlyFromTheEdges
\* The module is gone, no press is left.
CHECK_DEADLOCK FALSE
