SPECIFICATION Spec
CONSTANTS
  BufLen = 3
  WriteDepth = 2
  WriteThreshold = 1
  ReadDepth = 2
  IntMax = 4
  DefaultTimeout = 2
  Timeouts = {1}
  MaxCount = 3
  MaxChars = 4
  Starts <- MCStarts
INVARIANTS RxOpen Served
PROPERTIES TxPipe RxPipe CallsReturn Drains
