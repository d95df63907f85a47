\* A structure with a fixed size vector of integers, as in t18.c.
CONSTANTS
  EncFields <- VectorFields
  DecFields <- VectorFields
  Handlers <- CoreHandlers
  Structures <- VectorStructures
  Depth <- VectorDepth
  Messages <- VectorMessages
  MaxMessages = 1
  Garbage <- CoreGarbage
  AllocMayFail = FALSE
  Faults = {}
  Changing = {}
  MaxChanges = 0
SPECIFICATION Spec
INVARIANT
  RoundTrip
