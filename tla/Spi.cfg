SPECIFICATION Spec
CONSTANTS
  Data <- MCData
  Setups <- MCSetups
  Packets <- MCPackets
  MaxBytes = 3
PROPERTIES PortSpec AccessEnds
