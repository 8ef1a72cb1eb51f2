CONSTANTS
  Bits = 2
  TickLen = 3
  AccessClocks = 2
  Words <- WordsOfTwo
  StrayUses <- OneAtATime
SPECIFICATION Spec
INVARIANTS TypeOK TransferExact
PROPERTIES ResultReceived
