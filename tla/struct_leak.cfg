\* The structures of struct_core.cfg, cut short.
CONSTANTS
  EncFields <- CoreFields
  DecFields <- CoreFields
  Handlers <- CoreHandlers
  Structures <- CoreStructures
  Depth <- CoreDepth
  Messages <- CoreMessages
  MaxMessages = 1
  Garbage <- CoreGarbage
  AllocMayFail = FALSE
  Faults = {"truncation"}
  Changing = {}
  MaxChanges = 0
SPECIFICATION Spec
INVARIANT
  NoLeak
