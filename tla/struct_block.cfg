\* A structure with an array block, as in t14.c, sent and received whole.
CONSTANTS
  EncFields <- BlockFields
  DecFields <- BlockFields
  Handlers <- CoreHandlers
  Structures <- BlockStructures
  Depth <- BlockDepth
  Messages <- BlockMessages
  MaxMessages = 1
  Garbage <- CoreGarbage
  AllocMayFail = FALSE
  Faults = {}
  Changing = {}
  MaxChanges = 0
SPECIFICATION Spec
INVARIANT
  IntactDecodes
