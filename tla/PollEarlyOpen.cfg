\* An open() that comes before init has set up the timer.
CONSTANTS
  Apps = {a1}
  Length = 3
  ReadLens = {4}
SPECIFICATION FairSpec
PROPERTIES
  OpenDeliversData
CHECK_DEADLOCK FALSE
