CONSTANTS
  MaxTracks = 3
  TOC_LBA <- TocLba
  Shelves <- AllShelves
  Requests <- SomeRequests
SPECIFICATION Spec
INVARIANTS TypeOK ReadExact TocExact CacheTrue
PROPERTIES SameKindCloses
CHECK_DEADLOCK FALSE
