\* A structure with a string, as in README.md and t18.c, sent and received whole.
CONSTANTS
  EncFields <- StringFields
  DecFields <- StringFields
  Handlers <- CoreHandlers
  Structures <- StringStructures
  Depth <- StringDepth
  Messages <- StringMessages
  MaxMessages = 1
  Garbage <- CoreGarbage
  AllocMayFail = FALSE
  Faults = {}
  Changing = {}
  MaxChanges = 0
SPECIFICATION Spec
INVARIANT
  IntactDecodes
