CONSTANTS
  CN = 5
  MinDck = 4
  MaxDck = 5
  MaxLat = 9
  MinReset = 10
SPECIFICATION MCSpec
INVARIANTS OneAccess AckEarned VideoWhenTimely
PROPERTIES Served ImplementsServer
