SPECIFICATION Spec
CONSTANTS
  NumDevices = 3
  keyboard = keyboard
  mouse = mouse
  disk = disk
  NoDevice = NoDevice
  BadLine = BadLine
  Devices <- MCDevices
  Kind <- MCKind
  Speed <- MCSpeed
  ResetCondet <- AtEnd
INVARIANT OnlyServicedCleared
