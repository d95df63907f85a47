CONSTANTS
  Radix = 4
  Small = 2
  MaxBytes = 2
  Messages <- AllMessages
  MaxMessages = 3
  MaxLen = 4
  PipeSize = 3
  PipeBuf = 2
  Faults = {"death", "signal"}
SPECIFICATION Spec
INVARIANTS
  TypeOK
  InStep
  NeverBroken
PROPERTIES
  ImplementsQueue
  EveryMessageArrives
  WritemReturns
