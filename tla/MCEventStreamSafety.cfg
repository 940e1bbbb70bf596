SPECIFICATION FairSpec
CONSTANTS
  None = None
  Readers = {r1, r2}
  Streams = {s1, s2}
  EventSizes = {1, 4}
  TerminalSizes = {4}
  MarkSize = 1
  MaxRows = 4
  MaxBytes = 8
  Reserve = 2
  Batch = 2
  MaxReaders = 1
  MaxFaults = 2
INVARIANTS LogBounded CutIsSeen ReadersCounted
PROPERTIES KeepsFeed EveryReaderIsTold
CHECK_DEADLOCK FALSE
