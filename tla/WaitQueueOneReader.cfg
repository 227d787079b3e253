\* One reader against two writers: the device refines EventFlag.
CONSTANTS
  Reader = r1
  Readers = {r1}
  Writers = {w1, w2}
  Cap = 2
  ReadLens = {2, 3}
  WriteLens = {2}
  MaxWrites = 3
SPECIFICATION FairSpec
PROPERTIES
  IsEventFlag
  AvailableDataWakes
