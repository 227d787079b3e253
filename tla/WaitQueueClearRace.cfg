\* One reader, one writer: the flag of an unread message is cleared.
CONSTANTS
  Readers = {r1}
  Writers = {w1}
  Cap = 2
  ReadLens = {2}
  WriteLens = {2}
  MaxWrites = 2
SPECIFICATION Spec
PROPERTIES
  ClearsOnlyWhatWasRead
