CONSTANTS
  Radix = 4
  Small = 2
  MaxBytes = 2
  Arguments <- SomeArguments
  NetSize = 4
  Garbage = {0, 3}
  Faults = {"refused", "death", "reset"}
SPECIFICATION Spec
INVARIANTS
  TypeOK
  InStep
  OnlyWholeMessages
PROPERTIES
  ImplementsQueue
  EveryMessageArrives
  BothEnd
