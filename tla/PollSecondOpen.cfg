\* Two processes: the second open() takes the first one's data away.
CONSTANTS
  Apps = {a1, a2}
  Length = 3
  ReadLens = {4}
SPECIFICATION Spec
INVARIANTS
  ReadyMeansReadable
CHECK_DEADLOCK FALSE
