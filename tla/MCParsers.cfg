SPECIFICATION ParsersSpec
CONSTANTS
  MaxPiece = 3
  Messages <- AllMessages
  Encoders = {"peer", "accessory"}
  Types = {3, 4, 6}
  MinLength = 0
  MaxLength = 8
  MaxItems = 3
  MaxPayload = 3
  MaxHeaders = 2
  Headers <- OtherHeaders
  Payloads <- Bodies
  Symbols <- AllSymbols
  Numerals <- Digits
INVARIANT ValuesStand
INVARIANT ShortRoundTrip
INVARIANT PayloadIsBody
INVARIANT ScanStaysInHeaders
PROPERTY ScanEnds
CHECK_DEADLOCK FALSE
