CONSTANTS
  Radix = 32
  Small = 24
  MaxBytes = 2
  Elements <- SomeElements
  Depth <- SomeDepth
  Values <- SomeValues
  Sizes = {0, 2, 5, 6}
  Grow = 4
  MaxSize = 15
  MaxElements = 3
SPECIFICATION Spec
INVARIANTS
  TypeOK
  NothingInBetween
  RoundTrip
  CursorAligned
  Codec
PROPERTY
  NumbersGoIn
