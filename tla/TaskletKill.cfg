\* One press, during exit.
CONSTANTS
  MaxPresses = 1
SPECIFICATION Spec
INVARIANTS
  KilledStaysDead
CHECK_DEADLOCK FALSE
