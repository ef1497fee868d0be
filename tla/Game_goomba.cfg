CONSTANTS
  Ball_X_Min = 62
  Ball_X_Center = 64
  Ball_X_Max = 114
  Grid <- Pen
  MushroomGrid <- PenMushroom
  PeachGrid <- PenPrincess
  Lo = 84
  Hi = 85
  OffGrid <- ReadZero
  KeyPairs <- Pairs
SPECIFICATION Spec
INVARIANTS StompIsSafe GrownIsImmune
