CONSTANTS
  Setups <- OneImage
SPECIFICATION FairSpec
PROPERTIES AutoLoaded
