CONSTANTS
  Setups <- MountsOrDownload
SPECIFICATION FairSpec
INVARIANTS TypeOK LoadExact SaveExact BlocksInImage RomComplete
PROPERTIES TransferEnds
