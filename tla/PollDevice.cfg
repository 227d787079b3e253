\* Two processes that open and close as often as they like.  Reads of
\* nothing, of two cells, and of more than the message has.
CONSTANTS
  Apps = {a1, a2}
  Length = 3
  ReadLens = {0, 2, 4}
SPECIFICATION FairSpec
INVARIANTS
  TypeOK
  QuiescentWhenGone
  NoLostPollWakeup
  EndMeansAll
PROPERTIES
  PollerWakes
\* The module may be gone.
CHECK_DEADLOCK FALSE
