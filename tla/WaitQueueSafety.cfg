\* Two readers and two writers, two writes.  With a buffer of 2 cells the
\* writes are empty, short, just over the clamp and well over it; the reads
\* take the whole buffer, as user_read.c does, or ask for more than it holds.
CONSTANTS
  Readers = {r1, r2}
  Writers = {w1, w2}
  Cap = 2
  ReadLens = {2, 3}
  WriteLens = {0, 1, 2, 3}
  MaxWrites = 2
SYMMETRY ProcessSymmetry
SPECIFICATION Spec
INVARIANTS
  TypeOK
  BufferTerminated
  BufferHoldsLastWrite
  NoLostWakeup
  NoReplay
