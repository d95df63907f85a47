\* One message between different programs, perhaps cut short, with failing
\* allocations, calls for the wrong type, handlers that come and go, and an
\* encoder's error ignored.
CONSTANTS
  EncFields <- SkewEncFields
  DecFields <- SkewDecFields
  Handlers <- CoreHandlers
  Structures <- SkewStructures
  Depth <- SkewDepth
  Messages <- SkewMessages
  MaxMessages = 1
  Garbage <- SkewGarbage
  AllocMayFail = TRUE
  Faults = {"truncation", "wrong type", "error ignored"}
  Changing <- SkewChanging
  MaxChanges = 3
SPECIFICATION Spec
INVARIANTS
  RoundTrip
  Aligned
  CursorInRange
  HandlersFound
  NoDoubleFree
