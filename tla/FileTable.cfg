SPECIFICATION Spec
CONSTANTS
  ALT_MAX_FD = 6
  Devices = {null, uart}
  NullDev = null
  Uart = uart
  None = none
  Opens <- MCOpens
INVARIANTS NoLeak OneLock StdioWorks
