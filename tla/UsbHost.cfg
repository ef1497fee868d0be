SPECIFICATION Spec
CONSTANTS
  NumDevices = 3
  keyboard = keyboard
  mouse = mouse
  disk = disk
  NoDevice = NoDevice
  BadLine = BadLine
  Devices <- MCDevices
  Kind <- MCKind
  Speed <- MCSpeed
  ResetCondet <- AtStart
INVARIANTS EndpointsPresent PollsWithItsDriver RunningMeansReachable FramesBeforeTraffic
   ReportReadable
PROPERTIES ServiceSpec LostDeviceNoticed EnumerationEnds
