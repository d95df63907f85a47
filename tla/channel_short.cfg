\* Messages longer than PipeBuf, and a writer that lives.
CONSTANTS
  Radix = 4
  Small = 2
  MaxBytes = 2
  Messages <- LongMessages
  MaxMessages = 2
  MaxLen = 4
  PipeSize = 4
  PipeBuf = 2
  Faults = {}
SPECIFICATION Spec
INVARIANT
  ReceivedAsSent
