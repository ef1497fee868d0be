CONSTANTS
  Ball_X_Center <- MC_X_Center
  Ball_X_Min <- MC_X_Min
  Ball_X_Max <- MC_X_Max
SPECIFICATION AnimationSpec
INVARIANTS StandsAtRest
PROPERTIES KeepsPatrolling PatrolSpec StrideSpec
