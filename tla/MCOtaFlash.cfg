SPECIFICATION FairFlashSpec
CONSTANTS
  code = code
  flash = flash
  lib = lib
  Manifest <- ThreeFiles
  Flasher = flash
  Bundles <- TwoBundles
  MaxMishaps = 2
INVARIANTS
  FlashTypeOK
  WholeUnlessMishap
PROPERTIES
  ProvenIsKept
  
CHECK_DEADLOCK FALSE
