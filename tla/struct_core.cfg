\* Two messages in one buffer, complete and between equal programs.
CONSTANTS
  EncFields <- CoreFields
  DecFields <- CoreFields
  Handlers <- CoreHandlers
  Structures <- CoreStructures
  Depth <- CoreDepth
  Messages <- CoreMessages
  MaxMessages = 2
  Garbage <- CoreGarbage
  AllocMayFail = FALSE
  Faults = {}
  Changing = {}
  MaxChanges = 0
SPECIFICATION Spec
INVARIANTS
  TypeOK
  WireFormat
  RoundTrip
  Aligned
  IntactDecodes
  NoLeak
