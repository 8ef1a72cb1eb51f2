CONSTANTS
  MaxStage = 2
  LsPauses = {0, 7}
SPECIFICATION FairSpec
INVARIANTS OneRequest EachAnswered AccessWhole
PROPERTIES EachServed
