CONSTANTS
  Ball_X_Min = 3
  Ball_X_Center = 3
  Ball_X_Max = 191
  Grid <- Level
  MushroomGrid <- LevelMushroom
  PeachGrid <- Nothing
  Lo = 448
  Hi = 448
  OffGrid <- ReadZero
  KeyPairs <- Pairs
SPECIFICATION Spec
INVARIANTS InWorld FeetOnFloor StaleJumpIsHarmless  PaintedInTime
