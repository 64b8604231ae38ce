SPECIFICATION Spec
CONSTANTS
  MaxPiece = 3
  Messages <- AllMessages
  Encoders = {"accessory"}
  Types = {3, 4, 6}
  MinLength = 1
  MaxLength = 4
  MaxItems = 2
INVARIANT RoundTrip
CHECK_DEADLOCK FALSE
